------------------------------ MODULE GateProofs ------------------------------
(***************************************************************************)
(* Theorems about the two gates, for every policy, every set of rules and  *)
(* whatever the agents answer: what a refused agent is told, whom a        *)
(* flagged design meets, what the Markdown files can change, what each     *)
(* node finds in the run directory, what the enrichment repairs and what   *)
(* it may break, and that a design past a blocking gate can be scheduled.  *)
(***************************************************************************)
EXTENDS ValidationGate, SequenceProofs

(***************************************************************************)
(* A refusal has its reason.                                               *)
(***************************************************************************)
\* A report that did not pass holds an error, and shows it to the agent: after
\* the relabelling of semantic errors as well as before.
LEMMA FailedReportHasError ==
    ASSUME NEW vs, NEW flagged, NEW gate, ~Report(vs, flagged, gate).passed
    PROVE  Errors(FailureFeedback(Report(vs, flagged, gate))) # {}
<1> DEFINE shown == ApplySemanticBlockOn(vs, gate)
<1>1. Report(vs, flagged, gate).violations = shown
  BY DEF Report
<1>2. PICK semantic, block_on : ~GatePassed(shown, block_on, semantic)
  BY DEF Report
<1>3. \E v \in shown : v.level = "error"
  BY <1>2 DEF GatePassed
<1> QED BY <1>1, <1>3 DEF FailureFeedback, Errors

LEMMA SentBackExplained ==
    /\ \A d, md, gate : SentBack(PrdReport(d, md, gate), gate)
           => Errors(FailureFeedback(PrdReport(d, md, gate))) # {}
    /\ \A d, p, md, files, gate : SentBack(DesignReport(d, p, md, files, gate), gate)
           => Errors(FailureFeedback(DesignReport(d, p, md, files, gate))) # {}
BY FailedReportHasError DEF SentBack, PrdReport, DesignReport

\* While no process died, a design report can only be of the present PRD: the
\* nodes before the architect have none.
BeforeDesign == {"pm", "prd.md", "prd_validate", "prd_hitl"}

ExplainedInv ==
    /\ crashes \in Nat
    /\ pc = "crashed" => crashes # 0
    /\ pc \in BeforeDesign /\ crashes = 0 => designReport = Nothing
    /\ RejectionsAreExplained

LEMMA InitExplained == Init => ExplainedInv
BY DEF Init, ExplainedInv, RejectionsAreExplained, BeforeDesign

LEMMA NextExplained == ExplainedInv /\ [Next]_vars => ExplainedInv'
<1> SUFFICES ASSUME ExplainedInv, [Next]_vars PROVE ExplainedInv'
  OBVIOUS
<1> USE DEF ExplainedInv, RejectionsAreExplained, BeforeDesign,
            prdVars, designVars, rest
<1>1. CASE Pm
  BY <1>1 DEF Pm
<1>2. CASE PmMarkdown
  BY <1>2 DEF PmMarkdown
<1>3. CASE PrdValidate
  <2>1. prdReport' = PrdReport(prd, prdMd, gates.prd)
    BY <1>3 DEF PrdValidate
  <2>2. pc' = "pm" => Errors(FailureFeedback(prdReport')) # {}
    BY <1>3, <2>1, SentBackExplained DEF PrdValidate
  <2>3. designReport' \in {designReport, Nothing}
    BY <1>3 DEF PrdValidate
  <2>4. pc = "prd_validate" /\ pc' \in {"prd_hitl", "architect", "limit", "pm"}
        /\ crashes' = crashes
    BY <1>3 DEF PrdValidate
  <2> QED BY <2>2, <2>3, <2>4
<1>4. CASE PrdHitl
  BY <1>4 DEF PrdHitl
<1>5. CASE Architect
  BY <1>5 DEF Architect
<1>6. CASE ArchitectJson
  BY <1>6 DEF ArchitectJson
<1>7. CASE ArchitectMarkdown
  BY <1>7 DEF ArchitectMarkdown
<1>8. CASE DesignValidate
  <2>1. pc' = "architect" => Errors(FailureFeedback(designReport')) # {}
    BY <1>8, SentBackExplained DEF DesignValidate
  <2>2. pc' \in {"gate_raised", "design_hitl", "developer", "limit", "architect"}
        /\ crashes' = crashes
    BY <1>8 DEF DesignValidate
  <2> QED BY <2>1, <2>2
<1>9. CASE DesignHitl
  BY <1>9 DEF DesignHitl
<1>10. CASE Developer
  BY <1>10 DEF Developer
<1>11. CASE Crash
  BY <1>11 DEF Crash
<1>12. CASE Continue
  BY <1>12 DEF Continue
<1>13. CASE UNCHANGED vars
  BY <1>13 DEF vars
<1> QED BY <1>1, <1>2, <1>3, <1>4, <1>5, <1>6, <1>7, <1>8, <1>9, <1>10, <1>11,
           <1>12, <1>13 DEF Next

\* An agent that is asked again is told of at least one error, whatever the
\* policy of the gate, the rules and the artifact (validation_feedback.py,
\* graph_routing.py).
THEOREM RefusalsExplained == Spec => []RejectionsAreExplained
<1>1. ExplainedInv => RejectionsAreExplained
  BY DEF ExplainedInv
<1> QED BY <1>1, InitExplained, NextExplained, PTL DEF Spec

-----------------------------------------------------------------------------
(***************************************************************************)
(* A flagged design meets a person.                                        *)
(***************************************************************************)
\* The report of a gate that is on carries the flag.
LEMMA FlagIsReported ==
    ASSUME NEW d, NEW p, NEW md, NEW files, NEW gate, gate.enabled, HitlRequired(d)
    PROVE  NeedsPerson(DesignReport(d, p, md, files, gate), gate)
BY DEF NeedsPerson, DesignReport, Report

LEMMA NextFlagged == FlaggedDesignIsReviewed /\ [Next]_vars => FlaggedDesignIsReviewed'
<1> SUFFICES ASSUME FlaggedDesignIsReviewed, [Next]_vars
             PROVE  FlaggedDesignIsReviewed'
  OBVIOUS
<1> USE DEF FlaggedDesignIsReviewed, prdVars, designVars, rest
<1>1. CASE DesignValidate
  <2>1. /\ design' = design /\ gates' = gates
        /\ pc' \in {"gate_raised", "design_hitl", "developer", "limit", "architect"}
    BY <1>1 DEF DesignValidate
  <2>2. ASSUME pc' = "developer", gates.design.enabled, HitlRequired(design)
        PROVE  FALSE
    <3>1. ~NeedsPerson(designReport', gates.design)
      BY <1>1, <2>2 DEF DesignValidate
    <3>2. designReport' = DesignReport(design, prd, designMd, mmd, gates.design)
      BY <1>1, <2>2 DEF DesignValidate
    <3> QED BY <2>2, <3>1, <3>2, FlagIsReported
  <2>3. HitlRequired(design)' <=> HitlRequired(design)
    BY <2>1 DEF HitlRequired
  <2> QED BY <2>1, <2>2, <2>3
<1>2. CASE DesignHitl
  BY <1>2 DEF DesignHitl
<1>3. CASE Developer
  <2>1. design' = design /\ gates' = gates /\ hitl' = hitl /\ pc = "developer"
    BY <1>3 DEF Developer
  <2>2. HitlRequired(design)' <=> HitlRequired(design)
    BY <2>1 DEF HitlRequired
  <2> QED BY <2>1, <2>2
<1>4. CASE UNCHANGED vars
  <2>1. design' = design /\ gates' = gates /\ hitl' = hitl /\ pc' = pc
    BY <1>4 DEF vars
  <2>2. HitlRequired(design)' <=> HitlRequired(design)
    BY <2>1 DEF HitlRequired
  <2> QED BY <2>1, <2>2
<1>5. CASE \/ Pm \/ PmMarkdown \/ PrdValidate \/ PrdHitl \/ Architect
           \/ ArchitectJson \/ ArchitectMarkdown \/ Crash \/ Continue
  <2>1. pc' \notin {"developer", "done"}
    BY <1>5 DEF Pm, PmMarkdown, PrdValidate, PrdHitl, Architect, ArchitectJson,
                ArchitectMarkdown, Crash, Continue
  <2> QED BY <2>1
<1> QED BY <1>1, <1>2, <1>3, <1>4, <1>5 DEF Next

\* A design that names a flag of the profile is not implemented before a person
\* stage, whatever the gate's verdict and policy, if the gate is on at all
\* (graph_routing.decide_after_design_validate).
THEOREM FlaggedReviewed == Spec => []FlaggedDesignIsReviewed
<1>1. Init => FlaggedDesignIsReviewed
  BY DEF Init, FlaggedDesignIsReviewed
<1> QED BY <1>1, NextFlagged, PTL DEF Spec

-----------------------------------------------------------------------------
(***************************************************************************)
(* The Markdown files never decide.                                        *)
(***************************************************************************)
\* A set in which nothing is more than a warning, before and after a gate
\* relabels semantic errors.
Harmless(vs) == \A v \in vs : v.level = "warn" /\ [v EXCEPT !.level = "warn"].level = "warn"

LEMMA WhenHarmless ==
    \A c, r : Harmless(When(c, Warn(r))) /\ Harmless(When(c, SemWarn(r)))
BY DEF Harmless, When, Warn, SemWarn

LEMMA SectionHarmless ==
    \A md, section, needed, rule : Harmless(SectionRule(md, section, needed, rule))
BY WhenHarmless DEF SectionRule

LEMMA CupHarmless ==
    ASSUME NEW A, NEW B, Harmless(A), Harmless(B)
    PROVE  Harmless(A \cup B)
BY DEF Harmless

LEMMA PrdMdHarmless == ASSUME NEW d, NEW md PROVE Harmless(PrdMdRules(d, md))
<1>1. Harmless({Warn("PRD-301")})
  BY DEF Harmless, Warn
<1> QED BY <1>1, WhenHarmless, CupHarmless DEF PrdMdRules

LEMMA DesignMdHarmless ==
    ASSUME NEW d, NEW p, NEW md PROVE Harmless(DesignMdRules(d, p, md))
<1>1. \A v \in DesignMdRules(d, p, md) : \E rule : v = Warn(rule)
  BY DEF DesignMdRules, SectionRule, When
<1>2. \A rule : Warn(rule).level = "warn"
                /\ [Warn(rule) EXCEPT !.level = "warn"].level = "warn"
  BY DEF Warn
<1> QED BY <1>1, <1>2 DEF Harmless

LEMMA WarningsNeverDecide ==
    ASSUME NEW A, NEW W, Harmless(W), NEW h, NEW gate
    PROVE  Report(A \cup W, h, gate).passed = Report(A, h, gate).passed
<1> DEFINE Norm(vs) == ApplySemanticBlockOn(vs, gate)
<1>1. Norm(A \cup W) = Norm(A) \cup Norm(W)
  BY DEF ApplySemanticBlockOn
<1>2. \A v \in Norm(W) : v.level # "error"
  BY DEF ApplySemanticBlockOn, Harmless
<1>3. ASSUME NEW block_on, NEW semantic
      PROVE  GatePassed(Norm(A \cup W), block_on, semantic)
                = GatePassed(Norm(A), block_on, semantic)
  <2> HIDE DEF Norm
  <2> QED BY <1>1, <1>2 DEF GatePassed
<1> QED BY <1>3 DEF Report

\* Of the rules of a gate the Markdown file enters only into these.
PrdMdPart(d, md) ==
    PrdMdRules(d, md)
        \cup (IF d.semantics = <<>> THEN {}
              ELSE When(md.written /\ ~(IdSet(d.semantics) \subseteq md.semantics),
                        SemWarn("PRD-S06")))

LEMMA PrdParts ==
    ASSUME NEW d
    PROVE  \E core : \A md : PrdViolations(d, md) = core \cup PrdMdPart(d, md)
<1> DEFINE always == ScopeAndCriteria(d) \cup ProfileAndContext(d) \cup UniqueIds(d)
                        \cup References(d) \cup FeatureTrace(d)
                        \cup OperationAndConsistency(d) \cup Testability(d)
                        \cup StoryTrace(d)
           meaning == IF d.semantics = <<>>
                      THEN When(RequiresSemantics(d), SemError("PRD-S01"))
                      ELSE ConstraintRules(d) \cup ScopeOutRule(d) \cup WideFeatureRule(d)
<1>1. ASSUME NEW md
      PROVE  PrdViolations(d, md) = (always \cup meaning) \cup PrdMdPart(d, md)
  <2>1. PrdViolations(d, md)
           = always \cup PrdMdRules(d, md) \cup PrdSemanticRules(d, md)
    BY DEF PrdViolations
  <2>2. PrdSemanticRules(d, md) \cup PrdMdRules(d, md) = meaning \cup PrdMdPart(d, md)
    BY DEF PrdSemanticRules, PrdMdPart
  <2> HIDE DEF always, meaning
  <2> QED BY <2>1, <2>2
<1> QED BY <1>1

LEMMA PrdMdNeverDecides ==
    ASSUME NEW d, NEW md, NEW other, NEW gate
    PROVE  PrdReport(d, md, gate).passed = PrdReport(d, other, gate).passed
<1>1. PICK core : \A m : PrdViolations(d, m) = core \cup PrdMdPart(d, m)
  BY PrdParts
<1>2. ASSUME NEW m PROVE Harmless(PrdMdPart(d, m))
  <2>1. Harmless({})
    BY DEF Harmless
  <2> QED BY <2>1, PrdMdHarmless, WhenHarmless, CupHarmless DEF PrdMdPart
<1>3. ASSUME NEW m
      PROVE  Report(PrdViolations(d, m), FALSE, gate).passed
                = Report(core, FALSE, gate).passed
  <2>1. PrdViolations(d, m) = core \cup PrdMdPart(d, m)
    BY <1>1
  <2>2. \A h : Report(core \cup PrdMdPart(d, m), h, gate).passed
                  = Report(core, h, gate).passed
    BY <1>2, WarningsNeverDecide
  <2> QED BY <2>1, <2>2, Zenon
<1> QED BY <1>3 DEF PrdReport

LEMMA DesignMdNeverDecides ==
    ASSUME NEW d, NEW p, NEW md, NEW other, NEW files, NEW gate
    PROVE  DesignReport(d, p, md, files, gate).passed
              = DesignReport(d, p, other, files, gate).passed
<1> DEFINE core == TaskRules(d) \cup ModuleRules(d) \cup OverviewRules(d)
                     \cup TraceRules(d, p) \cup PathRules(d) \cup ExecutionPlanRules(d)
                     \cup CompletenessRules(d, p) \cup TableRules(d) \cup ErrorRules(d)
                     \cup CaseRules(d) \cup DomainRules(d) \cup InterfaceRules(d)
                     \cup MermaidRules(d, p, files, gate.strict)
                     \cup DesignSemanticRules(d, p)
<1>1. ASSUME NEW m
      PROVE  DesignViolations(d, p, m, files, gate.strict)
                = core \cup DesignMdRules(d, p, m)
  BY DEF DesignViolations
<1>2. ASSUME NEW m
      PROVE  Report(DesignViolations(d, p, m, files, gate.strict), HitlRequired(d), gate).passed
                = Report(core, HitlRequired(d), gate).passed
  <2> HIDE DEF core
  <2> QED BY <1>1, DesignMdHarmless, WarningsNeverDecide
<1> QED BY <1>2 DEF DesignReport

\* A gate that reads a Markdown file an earlier attempt left, or none, gives
\* the verdict it would give on a fresh one, whatever its policy
\* (prd_md_rules.py, design_md_rules.py, the Markdown part of
\* prd_semantic_rules.py).
THEOREM MarkdownPowerless == Spec => MarkdownNeverDecides
<1>1. ASSUME [Next]_vars, pc = "prd_validate", ~UNCHANGED vars
      PROVE  prdReport'.passed = PrdReport(prd, RenderPrd(prd), gates.prd).passed
  <2>1. PrdValidate
    BY <1>1 DEF Next, Pm, PmMarkdown, PrdHitl, Architect, ArchitectJson,
                ArchitectMarkdown, DesignValidate, DesignHitl, Developer, Crash, Continue
  <2>2. prdReport' = PrdReport(prd, prdMd, gates.prd)
    BY <2>1 DEF PrdValidate
  <2> QED BY <2>2, PrdMdNeverDecides
<1>2. ASSUME [Next]_vars, pc = "design_validate", pc' # "gate_raised", ~UNCHANGED vars
      PROVE  designReport'.passed =
                 DesignReport(design, prd, RenderDesign(design), mmd, gates.design).passed
  <2>1. DesignValidate
    BY <1>2 DEF Next, Pm, PmMarkdown, PrdValidate, PrdHitl, Architect, ArchitectJson,
                ArchitectMarkdown, DesignHitl, Developer, Crash, Continue
  <2>2. designReport' = DesignReport(design, prd, designMd, mmd, gates.design)
    BY <1>2, <2>1 DEF DesignValidate
  <2> QED BY <2>2, DesignMdNeverDecides
<1> QED BY <1>1, <1>2, PTL DEF Spec, MarkdownNeverDecides

-----------------------------------------------------------------------------
(***************************************************************************)
(* A profile that blocks less never sends back more.                       *)
(***************************************************************************)
\* All that a report may hold.
Reported(vs) == \A v \in vs : \E r : v \in {Error(r), Warn(r), SemError(r), SemWarn(r)}

LEMMA CupReported == \A A, B : Reported(A) /\ Reported(B) => Reported(A \cup B)
BY DEF Reported

LEMMA PrdViolationsReported ==
    ASSUME NEW d, NEW md PROVE Reported(PrdViolations(d, md))
<1> USE DEF Reported, When, Some, Every
<1>1. Reported(ScopeAndCriteria(d))
  BY DEF ScopeAndCriteria
<1>2. Reported(ProfileAndContext(d))
  BY DEF ProfileAndContext
<1>3. Reported(UniqueIds(d))
  BY DEF UniqueIds
<1>4. Reported(References(d))
  BY DEF References
<1>5. Reported(FeatureTrace(d))
  BY DEF FeatureTrace
<1>6. Reported(OperationAndConsistency(d))
  BY DEF OperationAndConsistency
<1>7. Reported(Testability(d))
  BY DEF Testability
<1>8. Reported(StoryTrace(d))
  BY DEF StoryTrace
<1>9. Reported(ConstraintRules(d))
  BY DEF ConstraintRules
<1>10. Reported(ScopeOutRule(d))
  BY DEF ScopeOutRule
<1>11. Reported(WideFeatureRule(d))
  BY DEF WideFeatureRule
<1>12. Reported(PrdMdRules(d, md))
  BY DEF PrdMdRules
<1>13. Reported(PrdSemanticRules(d, md))
  BY <1>9, <1>10, <1>11 DEF PrdSemanticRules
<1> HIDE DEF Reported, When, Some, Every
<1> QED BY <1>1, <1>2, <1>3, <1>4, <1>5, <1>6, <1>7, <1>8, <1>12, <1>13, CupReported
        DEF PrdViolations

LEMMA KindRulesReported ==
    ASSUME NEW d, NEW sem PROVE Reported(KindRules(d, sem))
<1> USE DEF Reported, When, Some, Every
<1>1. Reported(InputShapeRules(d, sem))
  BY DEF InputShapeRules
<1>2. \A c : Reported(When(c, SemError("DES-S01"))) /\ Reported(When(c, SemWarn("DES-S01")))
  OBVIOUS
<1>3. Reported({})
  OBVIOUS
<1> HIDE DEF Reported, When, Some, Every
<1> QED BY <1>1, <1>2, <1>3 DEF KindRules

LEMMA SemanticRulesReported ==
    ASSUME NEW d, NEW p PROVE Reported(DesignSemanticRules(d, p))
<1>1. \A sem : Reported(KindRules(d, sem)) /\ Reported(ExcludeRules(d, sem))
  BY KindRulesReported DEF ExcludeRules, Reported, When, Some
<1>2. \A S : Reported(UNION {KindRules(d, sem) \cup ExcludeRules(d, sem) : sem \in S})
  BY <1>1 DEF Reported
<1>3. \A c : Reported(When(c, SemError("DES-S04"))) /\ Reported(When(c, SemWarn("DES-S02")))
  BY DEF Reported, When
<1>4. Reported({})
  BY DEF Reported
<1> QED BY <1>2, <1>3, <1>4, CupReported DEF DesignSemanticRules

LEMMA DesignViolationsReported ==
    ASSUME NEW d, NEW p, NEW md, NEW files, NEW strict
    PROVE  Reported(DesignViolations(d, p, md, files, strict))
<1> USE DEF Reported, When, Some, Every
<1>1. Reported(TaskRules(d))
  BY DEF TaskRules
<1>2. Reported(ModuleRules(d))
  BY DEF ModuleRules
<1>3. Reported(OverviewRules(d))
  BY DEF OverviewRules
<1>4. Reported(PathRules(d))
  BY DEF PathRules
<1>5. Reported(ExecutionPlanRules(d))
  BY DEF ExecutionPlanRules
<1>6. Reported(TableRules(d))
  BY DEF TableRules
<1>7. Reported(ErrorRules(d))
  BY DEF ErrorRules
<1>8. Reported(CaseRules(d))
  BY DEF CaseRules
<1>9. Reported(DomainRules(d))
  BY DEF DomainRules
<1>10. Reported(InterfaceRules(d))
  BY DEF InterfaceRules
<1>11. Reported(TraceRules(d, p))
  BY DEF TraceRules
<1>12. Reported(CompletenessRules(d, p))
  BY DEF CompletenessRules
<1>13. Reported(DesignMdRules(d, p, md))
  BY DEF DesignMdRules, SectionRule
<1>14. Reported(MermaidRules(d, p, files, strict))
  BY DEF MermaidRules, Graded
<1> HIDE DEF Reported, When, Some, Every
<1> QED BY <1>1, <1>2, <1>3, <1>4, <1>5, <1>6, <1>7, <1>8, <1>9, <1>10, <1>11, <1>12, <1>13, <1>14,
           SemanticRulesReported, CupReported DEF DesignViolations

LEMMA ReportReported ==
    ASSUME NEW vs, Reported(vs), NEW flagged, NEW gate
    PROVE  Reported(Report(vs, flagged, gate).violations)
BY DEF Report, ApplySemanticBlockOn, Reported, Error, Warn, SemError, SemWarn

LEMMA GatesReport ==
    ASSUME NEW d, NEW p, NEW md, NEW files, NEW gate
    PROVE  /\ Reported(PrdReport(d, md, gate).violations)
           /\ Reported(DesignReport(d, p, md, files, gate).violations)
<1>1. Reported({})
  BY DEF Reported
<1>2. \A vs, flagged : Reported(vs) => Reported(Report(vs, flagged, gate).violations)
  BY ReportReported
<1>3. Reported(PrdReport(d, md, gate).violations)
  BY <1>1, <1>2, PrdViolationsReported, Zenon DEF PrdReport
<1>4. Reported(DesignReport(d, p, md, files, gate).violations)
  BY <1>1, <1>2, DesignViolationsReported, Zenon DEF DesignReport
<1> QED BY <1>3, <1>4

ReportsInv ==
    /\ prdReport # Nothing => Reported(prdReport.violations)
    /\ designReport # Nothing => Reported(designReport.violations)

LEMMA NextReports == ReportsInv /\ [Next]_vars => ReportsInv'
<1> SUFFICES ASSUME ReportsInv, [Next]_vars PROVE ReportsInv'
  OBVIOUS
<1>1. CASE PrdValidate
  <2>1. /\ prdReport' = PrdReport(prd, prdMd, gates.prd)
        /\ designReport' \in {designReport, Nothing}
    BY <1>1 DEF PrdValidate
  <2> QED BY <2>1, GatesReport DEF ReportsInv
<1>2. CASE DesignValidate
  <2>1. /\ \/ designReport' = designReport
           \/ designReport' = DesignReport(design, prd, designMd, mmd, gates.design)
        /\ prdReport' = prdReport
    BY <1>2 DEF DesignValidate, prdVars
  <2> QED BY <2>1, GatesReport DEF ReportsInv
<1>3. CASE \/ Pm \/ PmMarkdown \/ PrdHitl \/ Architect \/ ArchitectJson
           \/ ArchitectMarkdown \/ DesignHitl \/ Developer \/ Crash \/ Continue
           \/ UNCHANGED vars
  <2>1. prdReport' = prdReport /\ designReport' = designReport
    BY <1>3 DEF Pm, PmMarkdown, PrdHitl, Architect, ArchitectJson, ArchitectMarkdown,
                DesignHitl, Developer, Crash, Continue, vars, prdVars, designVars
  <2> QED BY <2>1 DEF ReportsInv
<1> QED BY <1>1, <1>2, <1>3 DEF Next

\* The relabelling under `warn` and the two thresholds are monotone: what is
\* sent back under the more lenient policy is under the stricter one.
LEMMA PolicyIsMonotone ==
    ASSUME NEW vs, Reported(vs), NEW flagged, NEW p \in Gates, NEW q \in Gates,
           NoStricter(p, q), SentBack(Report(vs, flagged, p), p)
    PROVE  SentBack(Report(vs, flagged, q), q)
BY DEF Reported, Error, Warn, SemError, SemWarn, Gates, BlockOn, NoStricter, Strictness,
       SentBack, Report, GatePassed, ApplySemanticBlockOn, EffectiveSemantic

\* A profile that blocks less never sends back what one that blocks more lets
\* through, for any rules, artifacts and policies (_report.py,
\* _semantic_report.py, graph_routing.py).
THEOREM LenienceIsMonotone == Spec => []LenientNeverStricter
<1>1. Init => ReportsInv
  BY DEF Init, ReportsInv
<1>2. ReportsInv => LenientNeverStricter
  <2> SUFFICES ASSUME ReportsInv,
                      NEW report \in {prdReport, designReport} \ {Nothing},
                      NEW p \in {policy[g] : policy \in Policies, g \in {"prd", "design"}},
                      NEW q \in {policy[g] : policy \in Policies, g \in {"prd", "design"}},
                      NoStricter(p, q), SentBack(Judged(report, p), p)
               PROVE  SentBack(Judged(report, q), q)
    BY DEF LenientNeverStricter
  <2>1. p \in Gates /\ q \in Gates
    BY PoliciesAssumption
  <2>2. Reported(report.violations)
    BY DEF ReportsInv
  <2> QED BY <2>1, <2>2, PolicyIsMonotone DEF Judged
<1> QED BY <1>1, <1>2, NextReports, PTL DEF Spec

-----------------------------------------------------------------------------
(***************************************************************************)
(* A fresh design.md and the rules that read it.                           *)
(***************************************************************************)
\* What of the design brings a section into design.md.
LEMMA RenderedSections ==
    ASSUME NEW d
    PROVE  LET sections == RenderDesign(d).sections
           IN  /\ RenderDesign(d).written
               /\ AlwaysRendered \subseteq sections
               /\ "4.2" \in sections <=> ShowsContext(d)
               /\ "4.3" \in sections <=> d.modules # <<>>
               /\ "4.4" \in sections <=> RealDeps(d) # <<>>
               /\ "4.5" \in sections <=> d.interfaces # <<>> \/ d.errors # {}
               /\ "4.6" \in sections <=> \/ d.entities # "none" \/ d.tables # {}
                                         \/ d.transactions
               /\ "transactions" \in sections <=> d.transactions
               /\ "5" \in sections <=> d.nonFunctional
               /\ "kinds" \in sections <=> d.cases # <<>>
<1> DEFINE sections == RenderDesign(d).sections
<1>1. /\ RenderDesign(d).written
      /\ sections = AlwaysRendered \cup SolutionSections(d)
                      \cup When(d.nonFunctional, "5") \cup When(d.cases # <<>>, "kinds")
  BY DEF RenderDesign
<1>2. \A s : s \in AlwaysRendered => s \notin {"4.2", "4.3", "4.4", "4.5", "4.6",
                                               "transactions", "5", "kinds"}
  BY DEF AlwaysRendered
<1>3. /\ "4.2" \in SolutionSections(d) <=> ShowsContext(d)
      /\ "4.3" \in SolutionSections(d) <=> d.modules # <<>>
      /\ "4.4" \in SolutionSections(d) <=> RealDeps(d) # <<>>
      /\ "4.5" \in SolutionSections(d) <=> d.interfaces # <<>> \/ d.errors # {}
      /\ "4.6" \in SolutionSections(d) <=> \/ d.entities # "none" \/ d.tables # {}
                                           \/ d.transactions
      /\ "transactions" \in SolutionSections(d) <=> d.transactions
      /\ "5" \notin SolutionSections(d) /\ "kinds" \notin SolutionSections(d)
  BY DEF SolutionSections, When
<1> HIDE DEF sections
<1>4. /\ AlwaysRendered \subseteq sections
      /\ "4.2" \in sections <=> ShowsContext(d)
      /\ "4.3" \in sections <=> d.modules # <<>>
      /\ "4.4" \in sections <=> RealDeps(d) # <<>>
      /\ "4.5" \in sections <=> d.interfaces # <<>> \/ d.errors # {}
      /\ "4.6" \in sections <=> \/ d.entities # "none" \/ d.tables # {}
                                \/ d.transactions
      /\ "transactions" \in sections <=> d.transactions
      /\ "5" \in sections <=> d.nonFunctional
      /\ "kinds" \in sections <=> d.cases # <<>>
  BY <1>1, <1>2, <1>3 DEF When
<1> QED BY <1>1, <1>4 DEF sections

\* The rules on sections, where design.md is there.
LEMMA MdRulesOf ==
    ASSUME NEW d, NEW p, NEW md, md.written, NEW r
    PROVE  r \in RulesOf(DesignMdRules(d, p, md)) <=>
             \/ ~(AlwaysRendered \subseteq md.sections) /\ r = "DES-201"
             \/ d.modules # <<>> /\ "4.3" \notin md.sections /\ r = "DES-220"
             \/ RealDeps(d) # <<>> /\ "4.4" \notin md.sections /\ r = "DES-212"
             \/ d.interfaces # <<>> /\ "4.5" \notin md.sections /\ r = "DES-221"
             \/ RequiresTables(d, p) /\ "4.6" \notin md.sections /\ r = "DES-213"
             \/ RequiresTransactions(p) /\ "transactions" \notin md.sections
                /\ r = "DES-216"
             \/ RequiresFlow(d, p) /\ "4.7" \notin md.sections /\ r = "DES-206"
             \/ RequiresFlow(d, p) /\ "4.7" \in md.sections
                /\ "mmd" \notin md.sections /\ r = "DES-217"
             \/ d.tables # {} /\ "columns" \notin md.sections /\ r = "DES-218"
             \/ d.cases # <<>> /\ "kinds" \notin md.sections /\ r = "DES-219"
             \/ /\ Len(d.modules) >= 2 \/ RealDeps(d) # <<>>
                /\ ~\E g \in d.diagrams : g.kind = "context"
                /\ "4.2" \notin md.sections /\ r = "DES-223"
             \/ (d.nonFunctional \/ RequiresNonFunctional(p))
                /\ "5" \notin md.sections /\ r = "DES-224"
<1>1. \A v : v \in DesignMdRules(d, p, md) <=>
             \/ ~(AlwaysRendered \subseteq md.sections) /\ v = Warn("DES-201")
             \/ d.modules # <<>> /\ "4.3" \notin md.sections /\ v = Warn("DES-220")
             \/ RealDeps(d) # <<>> /\ "4.4" \notin md.sections /\ v = Warn("DES-212")
             \/ d.interfaces # <<>> /\ "4.5" \notin md.sections /\ v = Warn("DES-221")
             \/ RequiresTables(d, p) /\ "4.6" \notin md.sections /\ v = Warn("DES-213")
             \/ RequiresTransactions(p) /\ "transactions" \notin md.sections
                /\ v = Warn("DES-216")
             \/ RequiresFlow(d, p) /\ "4.7" \notin md.sections /\ v = Warn("DES-206")
             \/ RequiresFlow(d, p) /\ "4.7" \in md.sections
                /\ "mmd" \notin md.sections /\ v = Warn("DES-217")
             \/ d.tables # {} /\ "columns" \notin md.sections /\ v = Warn("DES-218")
             \/ d.cases # <<>> /\ "kinds" \notin md.sections /\ v = Warn("DES-219")
             \/ /\ Len(d.modules) >= 2 \/ RealDeps(d) # <<>>
                /\ ~\E g \in d.diagrams : g.kind = "context"
                /\ "4.2" \notin md.sections /\ v = Warn("DES-223")
             \/ (d.nonFunctional \/ RequiresNonFunctional(p))
                /\ "5" \notin md.sections /\ v = Warn("DES-224")
  BY DEF DesignMdRules, SectionRule, When
<1>2. \A rule : Warn(rule).rule = rule
  BY DEF Warn
<1>3. r \in RulesOf(DesignMdRules(d, p, md))
        <=> \E v \in DesignMdRules(d, p, md) : r = v.rule
  BY DEF RulesOf
<1> QED BY <1>1, <1>2, <1>3

\* The rules on the design that say the same.
LEMMA MissingRules ==
    ASSUME NEW d, NEW p
    PROVE  LET missing == RulesOf(TraceRules(d, p) \cup CompletenessRules(d, p))
           IN  /\ "DES-011" \in missing <=> RequiresNonFunctional(p) /\ ~d.nonFunctional
               /\ "DES-013" \in missing <=> /\ RequiresTables(d, p)
                                            /\ d.tables = {} /\ d.entities # "columns"
               /\ "DES-014" \in missing <=> RequiresTransactions(p) /\ ~d.transactions
<1>1. \A rule : Error(rule).rule = rule /\ Warn(rule).rule = rule
  BY DEF Error, Warn
<1>2. /\ "DES-011" \in RulesOf(TraceRules(d, p))
           <=> RequiresNonFunctional(p) /\ ~d.nonFunctional
      /\ {"DES-013", "DES-014"} \cap RulesOf(TraceRules(d, p)) = {}
  BY <1>1 DEF TraceRules, When, RulesOf
<1>3. /\ "DES-013" \in RulesOf(CompletenessRules(d, p))
           <=> /\ RequiresTables(d, p)
               /\ d.tables = {} /\ d.entities # "columns"
      /\ "DES-014" \in RulesOf(CompletenessRules(d, p))
           <=> RequiresTransactions(p) /\ ~d.transactions
      /\ "DES-011" \notin RulesOf(CompletenessRules(d, p))
  BY <1>1 DEF CompletenessRules, When, RulesOf
<1> QED BY <1>2, <1>3 DEF RulesOf

\* Whatever the design: a fresh design.md is never what a design is refused or
\* warned for, unless the design itself lacks the matter.
THEOREM FreshMarkdownAgrees == Spec => []RenderedDesignAgrees
<1>1. ASSUME NEW d, NEW p
      PROVE  LET rules   == RulesOf(DesignMdRules(d, p, RenderDesign(d)))
                 missing == RulesOf(TraceRules(d, p) \cup CompletenessRules(d, p))
             IN /\ rules \cap {"DES-201", "DES-212", "DES-219", "DES-220",
                               "DES-221", "DES-223"} = {}
                /\ "DES-213" \in rules => "DES-013" \in missing
                /\ "DES-216" \in rules <=> "DES-014" \in missing
                /\ "DES-224" \in rules <=> "DES-011" \in missing
  <2> DEFINE rules == RulesOf(DesignMdRules(d, p, RenderDesign(d)))
  <2>1. /\ "DES-201" \notin rules /\ "DES-212" \notin rules
        /\ "DES-219" \notin rules /\ "DES-220" \notin rules
        /\ "DES-221" \notin rules
    BY MdRulesOf, RenderedSections
  <2>2. "DES-223" \notin rules
    BY MdRulesOf, RenderedSections DEF ShowsContext
  <2>3. "DES-213" \in rules =>
           RequiresTables(d, p) /\ d.tables = {} /\ d.entities = "none"
    BY MdRulesOf, RenderedSections
  <2>4. "DES-216" \in rules <=> RequiresTransactions(p) /\ ~d.transactions
    BY MdRulesOf, RenderedSections
  <2>5. "DES-224" \in rules <=> RequiresNonFunctional(p) /\ ~d.nonFunctional
    BY MdRulesOf, RenderedSections
  <2> HIDE DEF rules
  <2>6. rules \cap {"DES-201", "DES-212", "DES-219", "DES-220",
                    "DES-221", "DES-223"} = {}
    BY <2>1, <2>2
  <2>7. /\ "DES-213" \in rules =>
             "DES-013" \in RulesOf(TraceRules(d, p) \cup CompletenessRules(d, p))
        /\ "DES-216" \in rules <=>
             "DES-014" \in RulesOf(TraceRules(d, p) \cup CompletenessRules(d, p))
        /\ "DES-224" \in rules <=>
             "DES-011" \in RulesOf(TraceRules(d, p) \cup CompletenessRules(d, p))
    BY <2>3, <2>4, <2>5, MissingRules
  <2> QED BY <2>6, <2>7 DEF rules
<1>2. RenderedDesignAgrees
  BY <1>1 DEF RenderedDesignAgrees
<1> QED BY <1>2, PTL

-----------------------------------------------------------------------------
(***************************************************************************)
(* Joining the tasks of one path (design_enrichment.py): the fold is taken *)
(* step by step, and Deduped is its invariant.                             *)
(***************************************************************************)
\* What the coercion keeps of an answer (schemas/design.py).
LEMMA CoercedFields ==
    ASSUME NEW raw, DesignFields \subseteq DOMAIN raw
    PROVE  LET d == CoerceDesign(raw)
           IN  /\ DOMAIN d = DOMAIN raw
               /\ d.tasks = raw.tasks /\ d.summary = raw.summary
               /\ d.strategy = MergedStrategy(raw)
               /\ d.delta = IF raw.delta = "none" THEN raw.topDelta ELSE raw.delta
               /\ d.trace = {CoerceRow(row) : row \in raw.trace}
<1>1. {"tasks", "summary", "strategy", "delta", "trace"} \subseteq DOMAIN raw
  BY DEF DesignFields
<1> QED BY <1>1, Zenon DEF CoerceDesign

\* What the enrichment sets and what it leaves (design_enrichment.py).
LEMMA EnrichedFields ==
    ASSUME NEW d, NEW p, DesignFields \subseteq DOMAIN d
    PROVE  LET e == Enrich(d, p)
           IN  /\ DOMAIN e = DOMAIN d
               /\ e.tasks = DedupeByPath(d.tasks)
               /\ e.trace = {CoerceRow(row) : row \in d.trace}
               /\ e.nonGoals /\ e.contextView /\ e.crossCutting
               /\ e.strategy = Architecture(d, p).strategy
               /\ e.delta = Architecture(d, p).delta
               /\ e.goals = IF d.goals \subseteq {"blank"} THEN DefaultGoals(p)
                            ELSE ExpandGoals(d.goals)
               /\ e.summary = d.summary /\ e.modules = d.modules
               /\ e.nonFunctional = d.nonFunctional /\ e.mentions = d.mentions
               /\ e.filePlan = d.filePlan
<1>1. {"tasks", "modules", "nonGoals", "contextView", "crossCutting", "nonFunctional",
       "summary", "strategy", "delta", "goals", "trace", "mentions", "filePlan"}
        \subseteq DOMAIN d
  BY DEF DesignFields
<1> QED BY <1>1, Zenon DEF Enrich

\* Two tasks of one path joined: the first one's id, what either has.
LEMMA MergedTask ==
    ASSUME NEW s \in Tasks, NEW t \in Tasks
    PROVE  LET m == MergeTasks(s, t)
           IN  /\ m \in Tasks /\ m.id = s.id /\ m.path = s.path
               /\ m.covers = s.covers \cup t.covers
               /\ m.deps = s.deps \cup t.deps
               /\ ~m.described => ~s.described \/ ~t.described
<1>1. /\ s.id \in TaskIds /\ s.path \in TaskPaths
      /\ s.deps \cup t.deps \in SUBSET TaskIds /\ IsFiniteSet(s.deps \cup t.deps)
      /\ s.covers \cup t.covers \in SUBSET Refs
      /\ s.described \in BOOLEAN /\ t.described \in BOOLEAN
      /\ s.length \in Nat /\ t.length \in Nat
  BY FS_Union DEF Tasks
<1> QED BY <1>1, SMT DEF MergeTasks, Tasks

\* h is the list after each task of the fold.
DedupeSteps(h, seq) == \A n \in 1..Len(seq) : h[n] = JoinTask(h[n - 1], seq[n])

\* One step of the joining: a new path is appended, a known one is merged.
LEMMA JoinedTask ==
    ASSUME NEW kept \in Seq(Tasks), NEW task \in Tasks
    PROVE  /\ JoinTask(kept, task) \in Seq(Tasks)
           /\ task.path \notin FieldSet(kept, "path") => JoinTask(kept, task) = Append(kept, task)
           /\ task.path \in FieldSet(kept, "path") =>
                /\ DOMAIN JoinTask(kept, task) = DOMAIN kept
                /\ \A i \in DOMAIN kept : JoinTask(kept, task)[i] =
                      IF kept[i].path = task.path THEN MergeTasks(kept[i], task) ELSE kept[i]
<1>1. CASE task.path \notin FieldSet(kept, "path")
  BY <1>1 DEF JoinTask
<1>2. CASE task.path \in FieldSet(kept, "path")
  <2> DEFINE m == [i \in DOMAIN kept |-> IF kept[i].path = task.path
                                THEN MergeTasks(kept[i], task) ELSE kept[i]]
  <2>1. JoinTask(kept, task) = m
    BY <1>2 DEF JoinTask
  <2>2. DOMAIN kept = 1..Len(kept) /\ Len(kept) \in Nat /\ \A i \in DOMAIN kept : kept[i] \in Tasks
    OBVIOUS
  <2>3. \A i \in DOMAIN kept : m[i] \in Tasks
    BY <2>2, MergedTask
  <2>4. m \in [1..Len(kept) -> Tasks]
    BY <2>2, <2>3
  <2>5. m \in Seq(Tasks)
    BY <2>2, <2>4
  <2> QED BY <1>2, <2>1, <2>5
<1> QED BY <1>1, <1>2

\* DedupeByPath, a fold, is the last of its steps.
LEMMA DedupeRun ==
    ASSUME NEW tasks \in Seq(Tasks)
    PROVE  \E h : Results(h, Seq(Tasks), <<>>, tasks, DedupeByPath(tasks))
                  /\ DedupeSteps(h, tasks)
<1> DEFINE B == Seq(Tasks)
           step(g, s) == IF s = {} THEN <<>> ELSE JoinTask(g[s \ {Max(s)}], tasks[Max(s)])
           iter == CHOOSE g : g = [s \in SUBSET DOMAIN tasks |-> step(g, s)]
           W == B \cup {iter[s] : s \in SUBSET DOMAIN tasks}
           F == [y \in W \X Tasks |-> JoinTask(y[1], y[2])]
<1>1. DedupeByPath(tasks) = iter[DOMAIN tasks]
  BY DEF DedupeByPath, FoldLeft, MapThenFoldSet
<1>2. /\ B \subseteq W /\ \A s \in SUBSET DOMAIN tasks : iter[s] \in W
      /\ \A b \in W, x \in Tasks : F[<<b, x>>] = JoinTask(b, x)
  OBVIOUS
<1> HIDE DEF iter, W, F
<1>3. <<>> \in B /\ \A b \in B, x \in Tasks : F[<<b, x>>] \in B
  BY <1>2, JoinedTask
<1> HIDE DEF B
<1>4. PICK g \in [SUBSET DOMAIN tasks -> B] : FoldEquation(F, <<>>, tasks, DOMAIN tasks, g)
  BY <1>3, FoldExists
<1>5. \A s \in SUBSET DOMAIN tasks :
         s # {} => s \ {Max(s)} \in SUBSET DOMAIN tasks /\ tasks[Max(s)] \in Tasks
  BY LastOfDomain
<1>6. g = [s \in SUBSET DOMAIN tasks |-> step(g, s)]
  BY <1>2, <1>4, <1>5 DEF FoldEquation
<1> HIDE DEF step
<1>7. iter = [s \in SUBSET DOMAIN tasks |-> step(iter, s)]
  BY <1>6 DEF iter
<1>8. FoldEquation(F, <<>>, tasks, DOMAIN tasks, iter)
  BY <1>2, <1>5, <1>7 DEF FoldEquation, step
<1>9. PICK h : Results(h, B, <<>>, tasks, iter[DOMAIN tasks]) /\ IsRun(h, F, tasks)
  BY <1>3, <1>8, FoldRun
<1>10. ASSUME NEW n \in 1..Len(tasks) PROVE h[n] = JoinTask(h[n - 1], tasks[n])
  <2>1. h[n - 1] \in B /\ tasks[n] \in Tasks
    BY <1>9 DEF Results
  <2> QED BY <1>2, <1>9, <2>1 DEF IsRun
<1> QED BY <1>1, <1>9, <1>10 DEF B, DedupeSteps

\* What the joined list keeps of the first n tasks.
Deduped(kept, tasks, n) ==
    /\ \A i, j \in DOMAIN kept : kept[i].path = kept[j].path => i = j
    /\ \A i \in DOMAIN kept : \E j \in 1..n :
           tasks[j].path = kept[i].path /\ tasks[j].id = kept[i].id
    /\ \A j \in 1..n : \E i \in DOMAIN kept : kept[i].path = tasks[j].path
    /\ \A i \in DOMAIN kept : ~kept[i].described => \E j \in 1..n : ~tasks[j].described
    /\ \A c : (\E i \in DOMAIN kept : c \in kept[i].covers)
                 <=> (\E j \in 1..n : c \in tasks[j].covers)
    /\ IsInjective(Fields(tasks, "path"))
         => Len(kept) = n /\ \A i \in 1..n : kept[i] = tasks[i]

\* A task of a new path keeps what is kept.
LEMMA DedupedAppend ==
    ASSUME NEW kept \in Seq(Tasks), NEW tasks \in Seq(Tasks), NEW n \in Nat,
           n + 1 \in 1..Len(tasks), Deduped(kept, tasks, n),
           tasks[n + 1].path \notin FieldSet(kept, "path")
    PROVE  Deduped(Append(kept, tasks[n + 1]), tasks, n + 1)
<1> DEFINE t == tasks[n + 1]
           m == Append(kept, t)
<1>1. /\ Len(kept) \in Nat /\ DOMAIN kept = 1..Len(kept) /\ t \in Tasks
      /\ DOMAIN m = 1..(Len(kept) + 1) /\ Len(m) = Len(kept) + 1
      /\ \A i \in 1..Len(kept) : m[i] = kept[i]
      /\ m[Len(kept) + 1] = t
  OBVIOUS
<1>2. \A i \in DOMAIN kept : kept[i].path # t.path
  BY DEF FieldSet, Fields, ToSet
<1>3. \A j \in 1..(n + 1) : j \in 1..n \/ j = n + 1
  OBVIOUS
<1>4. n + 1 \in 1..(n + 1) /\ \A j \in 1..n : j \in 1..(n + 1)
  OBVIOUS
<1>5. \A i \in DOMAIN m : \/ i \in DOMAIN kept /\ m[i] = kept[i]
                          \/ m[i] = t /\ i = Len(kept) + 1
  <2>1. \A i \in 1..(Len(kept) + 1) : i \in 1..Len(kept) \/ i = Len(kept) + 1
    BY <1>1
  <2> HIDE DEF m, t
  <2> QED BY <1>1, <2>1
<1>11. \A i \in DOMAIN kept : i \in DOMAIN m /\ m[i] = kept[i]
  BY <1>1
<1>12. Len(kept) + 1 \in DOMAIN m /\ m[Len(kept) + 1] = t
  BY <1>1
<1>13. Len(kept) = n => \A i \in 1..n : i \in DOMAIN kept
  BY <1>1
<1>14. t = tasks[n + 1]
  OBVIOUS
<1> HIDE DEF m, t
<1> USE <1>14 DEF Deduped
<1>6. \A i, j \in DOMAIN m : m[i].path = m[j].path => i = j
  BY <1>2, <1>5
<1>7. ASSUME NEW i \in DOMAIN m
      PROVE  \E j \in 1..(n + 1) : tasks[j].path = m[i].path /\ tasks[j].id = m[i].id
  <2>1. CASE i \in DOMAIN kept /\ m[i] = kept[i]
    <3>1. PICK j \in 1..n : tasks[j].path = kept[i].path /\ tasks[j].id = kept[i].id
      BY <2>1
    <3> QED BY <1>4, <2>1, <3>1
  <2>2. CASE m[i] = t
    BY <1>4, <2>2
  <2> QED BY <1>5, <2>1, <2>2
<1>8. \A j \in 1..(n + 1) : \E i \in DOMAIN m : m[i].path = tasks[j].path
  BY <1>3, <1>11, <1>12
<1>9. \A i \in DOMAIN m : ~m[i].described => \E j \in 1..(n + 1) : ~tasks[j].described
  BY <1>4, <1>5
<1>10. \A c : (\E i \in DOMAIN m : c \in m[i].covers)
                 <=> (\E j \in 1..(n + 1) : c \in tasks[j].covers)
  <2>1. ASSUME NEW c, NEW i \in DOMAIN m, c \in m[i].covers
        PROVE  \E j \in 1..(n + 1) : c \in tasks[j].covers
    BY <1>4, <1>5, <2>1
  <2>2. ASSUME NEW c, NEW j \in 1..(n + 1), c \in tasks[j].covers
        PROVE  \E i \in DOMAIN m : c \in m[i].covers
    BY <1>3, <1>11, <1>12, <2>2
  <2> QED BY <2>1, <2>2
<1>15. IsInjective(Fields(tasks, "path"))
         => Len(m) = n + 1 /\ \A i \in 1..(n + 1) : m[i] = tasks[i]
  BY <1>1, <1>3, <1>11, <1>12, <1>13
<1> QED BY <1>6, <1>7, <1>8, <1>9, <1>10, <1>15 DEF m, t

\* A task of a known path keeps what is kept.
LEMMA DedupedMerge ==
    ASSUME NEW kept \in Seq(Tasks), NEW tasks \in Seq(Tasks), NEW n \in Nat,
           n + 1 \in 1..Len(tasks), Deduped(kept, tasks, n),
           tasks[n + 1].path \in FieldSet(kept, "path")
    PROVE  Deduped(JoinTask(kept, tasks[n + 1]), tasks, n + 1)
<1> DEFINE t == tasks[n + 1]
           m == JoinTask(kept, t)
<1>1. t \in Tasks /\ \A i \in DOMAIN kept : kept[i] \in Tasks
  OBVIOUS
<1>2. /\ DOMAIN m = DOMAIN kept
      /\ \A i \in DOMAIN kept : m[i] = IF kept[i].path = t.path THEN MergeTasks(kept[i], t)
                                       ELSE kept[i]
  BY <1>1, JoinedTask
<1>3. \A j \in 1..(n + 1) : j \in 1..n \/ j = n + 1
  OBVIOUS
<1>4. n + 1 \in 1..(n + 1) /\ \A j \in 1..n : j \in 1..(n + 1)
  OBVIOUS
<1>5. PICK e \in DOMAIN kept : kept[e].path = t.path
  BY DEF FieldSet, Fields, ToSet
<1>14. t = tasks[n + 1]
  OBVIOUS
<1> HIDE DEF m, t
<1>6. ASSUME NEW i \in DOMAIN kept
      PROVE  /\ m[i].path = kept[i].path /\ m[i].id = kept[i].id
             /\ i # e => m[i] = kept[i]
  <2>1. i # e => kept[i].path # t.path
    BY <1>5 DEF Deduped
  <2> QED BY <1>1, <1>2, <2>1, MergedTask
<1>7. /\ m[e].covers = kept[e].covers \cup t.covers
      /\ ~m[e].described => ~kept[e].described \/ ~t.described
  BY <1>1, <1>2, <1>5, MergedTask
<1> USE <1>14 DEF Deduped
<1>8. \A i, j \in DOMAIN m : m[i].path = m[j].path => i = j
  BY <1>2, <1>6
<1>9. \A i \in DOMAIN m : \E j \in 1..(n + 1) :
           tasks[j].path = m[i].path /\ tasks[j].id = m[i].id
  BY <1>2, <1>4, <1>6
<1>10. \A j \in 1..(n + 1) : \E i \in DOMAIN m : m[i].path = tasks[j].path
  BY <1>2, <1>3, <1>5, <1>6
<1>11. \A i \in DOMAIN m : ~m[i].described => \E j \in 1..(n + 1) : ~tasks[j].described
  <2>1. \A i \in DOMAIN m : ~m[i].described => ~kept[i].described \/ ~t.described
    BY <1>2, <1>6, <1>7
  <2> QED BY <1>2, <1>4, <2>1
<1>12. \A c : (\E i \in DOMAIN m : c \in m[i].covers)
                 <=> (\E j \in 1..(n + 1) : c \in tasks[j].covers)
  <2>1. ASSUME NEW c, NEW i \in DOMAIN m, c \in m[i].covers
        PROVE  \E j \in 1..(n + 1) : c \in tasks[j].covers
    <3>1. c \in kept[i].covers \/ c \in t.covers
      BY <1>2, <1>6, <1>7, <2>1
    <3> QED BY <1>2, <1>4, <3>1
  <2>2. ASSUME NEW c, NEW j \in 1..(n + 1), c \in tasks[j].covers
        PROVE  \E i \in DOMAIN m : c \in m[i].covers
    <3>1. CASE j = n + 1
      BY <1>2, <1>5, <1>7, <2>2, <3>1
    <3>2. CASE j \in 1..n
      <4>1. PICK i \in DOMAIN kept : c \in kept[i].covers
        BY <2>2, <3>2
      <4>2. c \in m[i].covers
        BY <1>6, <1>7, <4>1
      <4> QED BY <1>2, <4>2
    <3> QED BY <1>3, <3>1, <3>2
  <2> QED BY <2>1, <2>2
<1>13. ~IsInjective(Fields(tasks, "path"))
  <2>1. PICK j \in 1..n : tasks[j].path = t.path
    BY <1>5
  <2>2. j \in DOMAIN tasks /\ n + 1 \in DOMAIN tasks /\ j # n + 1
    OBVIOUS
  <2> QED BY <2>1, <2>2 DEF IsInjective, Fields
<1> QED BY <1>8, <1>9, <1>10, <1>11, <1>12, <1>13 DEF m, t

\* What the joining makes of a list of any length.
LEMMA DedupedList ==
    ASSUME NEW tasks \in Seq(Tasks)
    PROVE  /\ DedupeByPath(tasks) \in Seq(Tasks)
           /\ Deduped(DedupeByPath(tasks), tasks, Len(tasks))
<1>1. PICK h : Results(h, Seq(Tasks), <<>>, tasks, DedupeByPath(tasks))
               /\ DedupeSteps(h, tasks)
  BY DedupeRun
<1>2. Len(tasks) \in Nat /\ DOMAIN tasks = 1..Len(tasks)
  OBVIOUS
<1> DEFINE T == {n \in 0..Len(tasks) : Deduped(h[n], tasks, n)}
<1>3. 0 \in T
  BY <1>1, <1>2 DEF Results, Deduped
<1>4. ASSUME NEW n \in 0..(Len(tasks) - 1), n \in T PROVE n + 1 \in T
  <2>1. /\ n \in Nat /\ n + 1 \in 1..Len(tasks) /\ n + 1 \in 0..Len(tasks)
        /\ tasks[n + 1] \in Tasks /\ h[n] \in Seq(Tasks)
        /\ h[n + 1] = JoinTask(h[n], tasks[n + 1])
    <3>1. /\ n \in Nat /\ n + 1 \in 1..Len(tasks) /\ n + 1 \in 0..Len(tasks)
          /\ (n + 1) - 1 = n /\ n \in 0..Len(tasks)
      BY <1>2
    <3>2. h[n] \in Seq(Tasks)
      BY <1>1, <3>1 DEF Results
    <3>3. h[n + 1] = JoinTask(h[n], tasks[n + 1])
      BY <1>1, <3>1 DEF DedupeSteps
    <3> QED BY <1>2, <3>1, <3>2, <3>3
  <2>2. Deduped(h[n + 1], tasks, n + 1)
    <3>1. Deduped(h[n], tasks, n)
      BY <1>4
    <3>2. CASE tasks[n + 1].path \notin FieldSet(h[n], "path")
      <4>1. h[n + 1] = Append(h[n], tasks[n + 1])
        BY <2>1, <3>2, JoinedTask
      <4> QED BY <2>1, <3>1, <3>2, <4>1, DedupedAppend
    <3>3. CASE tasks[n + 1].path \in FieldSet(h[n], "path")
      BY <2>1, <3>1, <3>3, DedupedMerge
    <3> QED BY <3>2, <3>3
  <2> QED BY <2>1, <2>2
<1>5. Len(tasks) \in T
  <2> HIDE DEF T
  <2>1. 0..Len(tasks) \subseteq T
    BY <1>2, <1>3, <1>4, BoundedInduction
  <2> QED BY <1>2, <2>1
<1> QED BY <1>1, <1>2, <1>5 DEF Results

-----------------------------------------------------------------------------
(***************************************************************************)
(* The artifacts the nodes pass on: ArtifactsInv is inductive, and gives   *)
(* the type invariant.                                                     *)
(***************************************************************************)
\* A counter below its bound stays within it.
LEMMA OneMoreRevision ==
    ASSUME NEW f \in [{"prd", "design"} -> 0..MaxRevisions]
    PROVE  /\ f.prd < MaxRevisions =>
                [f EXCEPT !.prd = @ + 1] \in [{"prd", "design"} -> 0..MaxRevisions]
           /\ f.design < MaxRevisions =>
                [f EXCEPT !.design = @ + 1] \in [{"prd", "design"} -> 0..MaxRevisions]
<1>1. /\ f["prd"] \in 0..MaxRevisions /\ f["design"] \in 0..MaxRevisions
  OBVIOUS
<1>2. /\ f["prd"] < MaxRevisions => f["prd"] + 1 \in 0..MaxRevisions
      /\ f["design"] < MaxRevisions => f["design"] + 1 \in 0..MaxRevisions
  BY <1>1, BoundsAssumption
<1> QED BY <1>1, <1>2, Zenon

\* The counters start, and restart after a crash, within their bounds.
LEMMA NoRevisions == [prd |-> 0, design |-> 0] \in [{"prd", "design"} -> 0..MaxRevisions]
BY BoundsAssumption

\* An artifact is told from one that was never written.
LEMMA NotNothing ==
    /\ \A p : IsPrd(p) => p # Nothing
    /\ \A d : IsDesign(d) => d # Nothing
<1>1. DOMAIN Nothing = {"written"}
  BY DEF Nothing
<1>2. "title" \in PrdFields /\ "tasks" \in DesignFields
  BY DEF PrdFields, DesignFields
<1>3. "title" # "written" /\ "tasks" # "written"
  OBVIOUS
<1> QED BY <1>1, <1>2, <1>3, Zenon DEF IsPrd, IsDesign

\* A PRD as agents/pm.py writes it.
WrittenPrd(p) == \E told \in BOOLEAN : \E raw \in RawPrds(told) : p = NormalizePrd(raw)

\* The normalization keeps a PRD one.
LEMMA PrdIsWritten ==
    ASSUME NEW p, WrittenPrd(p)
    PROVE  IsPrd(p)
<1>1. PICK told \in BOOLEAN : \E raw \in RawPrds(told) : p = NormalizePrd(raw)
  BY DEF WrittenPrd
<1>2. PICK raw \in RawPrds(told) : p = NormalizePrd(raw)
  BY <1>1
<1>3. IsPrd(raw)
  BY AnswersAssumption
<1>4. PrdFields \subseteq DOMAIN raw
  BY <1>3, Zenon DEF IsPrd
<1>5. /\ DOMAIN p = DOMAIN raw
      /\ \A field \in PrdFields \ {"profile", "language"} : p[field] = raw[field]
  BY <1>2, <1>4, Zenon DEF NormalizePrd
<1>6. /\ p.title = raw.title /\ p.summary = raw.summary /\ p.features = raw.features
      /\ p.criteria = raw.criteria /\ p.semantics = raw.semantics
  BY <1>5 DEF PrdFields
<1> QED BY <1>3, <1>5, <1>6, Zenon DEF IsPrd

\* A design as the architect's model answers it.
RawDesign(d) ==
    /\ IsDesign(d)
    /\ d.topDelta \in Texts
    /\ d.strategy \in Texts \cup {"absent"}

\* Every answer to a written PRD holds a design.
LEMMA AnswerIsDesign ==
    ASSUME NEW p, WrittenPrd(p), NEW again \in BOOLEAN, NEW answer \in Answers(p, again)
    PROVE  RawDesign(answer.design)
<1>1. PICK told \in BOOLEAN : \E raw \in RawPrds(told) : p = NormalizePrd(raw)
  BY DEF WrittenPrd
<1> QED BY <1>1, AnswersAssumption, Zenon DEF RawDesign

\* The coercion keeps a design one.
LEMMA CoercedIsDesign ==
    ASSUME NEW raw, RawDesign(raw)
    PROVE  IsDesign(CoerceDesign(raw)) /\ CoerceDesign(raw).strategy \in Texts
<1> DEFINE d == CoerceDesign(raw)
<1>1. /\ DOMAIN d = DOMAIN raw
      /\ d.tasks = raw.tasks /\ d.summary = raw.summary
      /\ d.strategy = MergedStrategy(raw)
      /\ d.delta = IF raw.delta = "none" THEN raw.topDelta ELSE raw.delta
      /\ d.trace = {CoerceRow(row) : row \in raw.trace}
  BY CoercedFields DEF RawDesign, IsDesign
<1> HIDE DEF d
<1>2. d.strategy \in Texts
  BY <1>1 DEF RawDesign, MergedStrategy, Texts
<1>3. d.delta \in Texts
  BY <1>1 DEF RawDesign, IsDesign
<1>4. \A row \in d.trace : {"ref", "kind", "feature"} \subseteq DOMAIN row
  <2>1. \A row : DOMAIN CoerceRow(row) = DOMAIN row
    BY Zenon DEF CoerceRow
  <2> QED BY <1>1, <2>1 DEF RawDesign, IsDesign
<1>5. IsDesign(d)
  BY <1>1, <1>3, <1>4 DEF RawDesign, IsDesign
<1> QED BY <1>2, <1>5 DEF d

\* The enrichment keeps a design one.
LEMMA EnrichedIsDesign ==
    ASSUME NEW d, IsDesign(d), d.strategy \in Texts, NEW p, IsPrd(p)
    PROVE  IsDesign(Enrich(d, p))
<1> DEFINE e == Enrich(d, p)
<1>1. /\ DOMAIN e = DOMAIN d
      /\ e.tasks = DedupeByPath(d.tasks)
      /\ e.trace = {CoerceRow(row) : row \in d.trace}
      /\ e.delta = Architecture(d, p).delta
      /\ e.summary = d.summary
  BY EnrichedFields DEF IsDesign
<1> HIDE DEF e
<1>2. e.delta \in Texts
  BY <1>1 DEF IsDesign, Architecture, Texts
<1>3. \A row \in e.trace : {"ref", "kind", "feature"} \subseteq DOMAIN row
  <2>1. \A row : DOMAIN CoerceRow(row) = DOMAIN row
    BY Zenon DEF CoerceRow
  <2> QED BY <1>1, <2>1 DEF IsDesign
<1>4. e.tasks \in Seq(Tasks)
  BY <1>1, DedupedList DEF IsDesign
<1>5. IsDesign(e)
  BY <1>1, <1>2, <1>3, <1>4 DEF IsDesign
<1> QED BY <1>5 DEF e

\* An answer the architect may have got for this PRD.
Offered(p, raw) ==
    \E again \in BOOLEAN : \E answer \in Answers(p, again) : raw = answer.design

\* What each node finds: the PRD is normalized, the design being written is an
\* answer to that very PRD, and design.json is its enriched form until a gate
\* or a crash comes between.
ArtifactsInv ==
    /\ TypeOK
    /\ prd # Nothing => WrittenPrd(prd)
    /\ pc = "design.json" => Offered(prd, output)
    /\ design # Nothing => prd # Nothing /\ IsDesign(design)
    /\ pc = "design.md" =>
           \E raw \in {answer.design : answer \in Answers(prd, TRUE) \cup Answers(prd, FALSE)} :
               design = Enrich(CoerceDesign(raw), prd)

\* The answers of the invariant, with and without a report.
LEMMA OfferedIsDesign ==
    ASSUME NEW p, WrittenPrd(p), NEW raw
    PROVE  /\ Offered(p, raw) => RawDesign(raw)
           /\ raw \in {answer.design : answer \in Answers(p, TRUE) \cup Answers(p, FALSE)}
                <=> Offered(p, raw)
BY AnswerIsDesign DEF Offered

\* A report has the fields of a report.
LEMMA ReportFields ==
    ASSUME NEW vs, NEW flagged, NEW gate
    PROVE  DOMAIN Report(vs, flagged, gate) = {"passed", "violations", "require_hitl"}
BY DEF Report

\* So has that of each gate.
LEMMA ReportsFields ==
    ASSUME NEW d, NEW p, NEW md, NEW files, NEW gate
    PROVE  /\ DOMAIN PrdReport(d, md, gate) = {"passed", "violations", "require_hitl"}
           /\ DOMAIN DesignReport(d, p, md, files, gate)
                = {"passed", "violations", "require_hitl"}
BY ReportFields DEF PrdReport, DesignReport

\* The invariant holds of an empty run directory.
LEMMA InitArtifacts == Init => ArtifactsInv
<1> SUFFICES ASSUME Init PROVE ArtifactsInv
  OBVIOUS
<1>1. TypeOK
  BY PoliciesAssumption, NoRevisions DEF Init, TypeOK, Nodes
<1> QED BY <1>1 DEF Init, ArtifactsInv

\* Every node, a crash and a continue keep it.
LEMMA NextArtifacts == ArtifactsInv /\ [Next]_vars => ArtifactsInv'
<1> SUFFICES ASSUME ArtifactsInv, [Next]_vars PROVE ArtifactsInv'
  OBVIOUS
<1> USE DEF Nodes, prdVars, designVars, rest
<1>1. CASE Pm
  <2>1. PICK raw \in RawPrds(prdReport # Nothing) : prd' = NormalizePrd(raw)
    BY <1>1 DEF Pm
  <2>2. WrittenPrd(prd')
    BY <2>1 DEF WrittenPrd
  <2>3. prd' # Nothing
    BY <2>2, PrdIsWritten, NotNothing
  <2>4. pc' = "prd.md" /\ pc = "pm"
        /\ UNCHANGED <<prdMd, prdReport, designVars, hitl, plan, revisions, rest>>
    BY <1>1 DEF Pm
  <2>5. TypeOK'
    BY <2>3, <2>4 DEF ArtifactsInv, TypeOK
  <2> QED BY <2>2, <2>3, <2>4, <2>5 DEF ArtifactsInv
<1>2. CASE PmMarkdown
  BY <1>2 DEF PmMarkdown, ArtifactsInv, TypeOK
<1>3. CASE PrdValidate
  <2>1. /\ pc = "prd_validate" /\ DOMAIN prdReport' = {"passed", "violations", "require_hitl"}
        /\ UNCHANGED <<prd, prdMd, output, designMd, mmd, hitl, plan, rest>>
    BY <1>3, ReportsFields DEF PrdValidate
  <2>2. \/ /\ pc' \in {"prd_hitl", "architect", "limit"}
           /\ UNCHANGED <<revisions, design, designReport>>
        \/ /\ pc' = "pm" /\ ~(revisions.prd >= MaxRevisions)
           /\ revisions' = [revisions EXCEPT !.prd = @ + 1]
           /\ design' = Nothing /\ designReport' = Nothing
    BY <1>3, Zenon DEF PrdValidate
  <2>3. revisions' \in [{"prd", "design"} -> 0..MaxRevisions]
    <3>1. revisions \in [{"prd", "design"} -> 0..MaxRevisions]
      BY DEF ArtifactsInv, TypeOK
    <3>2. revisions["prd"] \in Nat /\ MaxRevisions \in Nat
      BY <3>1, BoundsAssumption
    <3>3. ~(revisions.prd >= MaxRevisions) => revisions.prd < MaxRevisions
      BY <3>2
    <3> QED BY <2>2, <3>1, <3>3, OneMoreRevision, Zenon
  <2>4. /\ pc' \in {"prd_hitl", "architect", "limit", "pm"}
        /\ design' \in {design, Nothing} /\ designReport' \in {designReport, Nothing}
    BY <2>2
  <2>5. TypeOK'
    BY <2>1, <2>3, <2>4 DEF ArtifactsInv, TypeOK
  <2> QED BY <2>1, <2>4, <2>5 DEF ArtifactsInv
<1>4. CASE PrdHitl
  BY <1>4 DEF PrdHitl, ArtifactsInv, TypeOK
<1>5. CASE Architect
  <2>1. /\ pc = "architect" /\ pc' \in {"aborted", "design.json"}
        /\ UNCHANGED <<prdVars, design, designMd, designReport, hitl, plan, revisions, rest>>
    BY <1>5 DEF Architect
  <2>2. Offered(prd, output')
    BY <1>5 DEF Architect, Offered
  <2>3. WrittenPrd(prd)
    BY <2>1 DEF ArtifactsInv, TypeOK
  <2>4. output' # Nothing
    BY <2>2, <2>3, OfferedIsDesign, NotNothing DEF RawDesign
  <2>5. TypeOK'
    BY <2>1, <2>4 DEF ArtifactsInv, TypeOK
  <2> QED BY <2>1, <2>2, <2>5 DEF ArtifactsInv
<1>6. CASE ArchitectJson
  <2>1. /\ pc = "design.json" /\ pc' = "design.md" /\ output' = Nothing
        /\ design' = Enrich(CoerceDesign(output), prd)
        /\ UNCHANGED <<prdVars, designMd, mmd, designReport, hitl, plan, revisions, rest>>
    BY <1>6 DEF ArchitectJson
  <2>2. prd # Nothing /\ WrittenPrd(prd) /\ Offered(prd, output)
    BY <2>1 DEF ArtifactsInv, TypeOK
  <2>3. IsDesign(design') /\ design' # Nothing
    BY <2>1, <2>2, OfferedIsDesign, PrdIsWritten, CoercedIsDesign, EnrichedIsDesign, NotNothing
  <2>4. TypeOK'
    BY <2>1, <2>3 DEF ArtifactsInv, TypeOK
  <2>5. \E raw \in {answer.design : answer \in Answers(prd, TRUE) \cup Answers(prd, FALSE)} :
            design' = Enrich(CoerceDesign(raw), prd)
    BY <2>1, <2>2, OfferedIsDesign
  <2>6. prd' = prd
    BY <2>1
  <2>7. (pc = "design.md" =>
           \E raw \in {answer.design : answer \in Answers(prd, TRUE) \cup Answers(prd, FALSE)} :
               design = Enrich(CoerceDesign(raw), prd))'
    BY <2>5, <2>6
  <2> QED BY <2>1, <2>2, <2>3, <2>4, <2>7 DEF ArtifactsInv
<1>7. CASE ArchitectMarkdown
  BY <1>7 DEF ArchitectMarkdown, ArtifactsInv, TypeOK
<1>8. CASE DesignValidate
  <2>1. /\ pc = "design_validate"
        /\ UNCHANGED <<prdVars, output, design, designMd, mmd, hitl, plan, rest>>
    BY <1>8 DEF DesignValidate
  <2>2. \/ /\ pc' \in {"gate_raised", "design_hitl", "developer", "limit"}
           /\ UNCHANGED revisions
        \/ /\ pc' = "architect" /\ ~(revisions.design >= MaxRevisions)
           /\ revisions' = [revisions EXCEPT !.design = @ + 1]
    BY <1>8, Zenon DEF DesignValidate
  <2>3. \/ designReport' = designReport
        \/ DOMAIN designReport' = {"passed", "violations", "require_hitl"}
    <3>1. \/ designReport' = designReport
          \/ designReport' = DesignReport(design, prd, designMd, mmd, gates.design)
      BY <1>8 DEF DesignValidate
    <3> QED BY <3>1, ReportsFields
  <2>4. revisions' \in [{"prd", "design"} -> 0..MaxRevisions]
    <3>1. revisions \in [{"prd", "design"} -> 0..MaxRevisions]
      BY DEF ArtifactsInv, TypeOK
    <3>2. revisions["design"] \in Nat /\ MaxRevisions \in Nat
      BY <3>1, BoundsAssumption
    <3>3. ~(revisions.design >= MaxRevisions) => revisions.design < MaxRevisions
      BY <3>2
    <3> QED BY <2>2, <3>1, <3>3, OneMoreRevision, Zenon
  <2>5. pc' \in {"gate_raised", "design_hitl", "developer", "limit", "architect"}
    BY <2>2
  <2>6. TypeOK'
    BY <2>1, <2>3, <2>4, <2>5 DEF ArtifactsInv, TypeOK
  <2> QED BY <2>1, <2>5, <2>6 DEF ArtifactsInv
<1>9. CASE DesignHitl
  BY <1>9 DEF DesignHitl, ArtifactsInv, TypeOK
<1>10. CASE Developer
  <2>1. pc = "developer" /\ pc' \in {"done", "unschedulable"}
        /\ UNCHANGED <<prdVars, designVars, hitl, revisions, rest>>
    BY <1>10 DEF Developer
  <2> QED BY <2>1 DEF ArtifactsInv, TypeOK
<1>11. CASE Crash
  <2>1. /\ pc \in {"prd.md", "design.json", "design.md"} /\ pc' = "crashed"
        /\ output' = Nothing /\ revisions' = [prd |-> 0, design |-> 0]
        /\ UNCHANGED <<gates, prdVars, design, designMd, mmd, designReport, hitl, plan>>
    BY <1>11 DEF Crash
  <2>2. revisions' \in [{"prd", "design"} -> 0..MaxRevisions]
    BY <2>1, NoRevisions
  <2>3. TypeOK'
    BY <2>1, <2>2 DEF ArtifactsInv, TypeOK
  <2> QED BY <2>1, <2>3 DEF ArtifactsInv
<1>12. CASE Continue
  BY <1>12 DEF Continue, ArtifactsInv, TypeOK
<1>13. CASE UNCHANGED vars
  BY <1>13 DEF vars, ArtifactsInv, TypeOK
<1> QED BY <1>1, <1>2, <1>3, <1>4, <1>5, <1>6, <1>7, <1>8, <1>9, <1>10, <1>11,
           <1>12, <1>13 DEF Next

-----------------------------------------------------------------------------
(***************************************************************************)
(* What the enrichment fills in.                                           *)
(***************************************************************************)
\* What the enrichment leaves of a design from an agent, whatever the PRD says.
LEMMA OverviewRepaired ==
    ASSUME NEW d, IsDesign(d), d.strategy \in Texts, NEW p, IsPrd(p)
    PROVE  LET e == Enrich(d, p)
               broken == RulesOf(OverviewRules(e))
           IN /\ broken \cap {"DES-010", "DES-036"} = {}
              /\ "blank" \notin {p.title, p.summary, e.summary} => "DES-008" \notin broken
              /\ Priority0(p) # <<>> \/ Filled(p.title) \/ Filled(p.summary)
                   => "DES-035" \notin broken
<1> DEFINE e == Enrich(d, p)
<1>1. /\ e.nonGoals /\ e.contextView /\ e.crossCutting
      /\ e.strategy = Architecture(d, p).strategy
      /\ e.delta = Architecture(d, p).delta
      /\ e.goals = IF d.goals \subseteq {"blank"} THEN DefaultGoals(p)
                   ELSE ExpandGoals(d.goals)
      /\ e.summary = d.summary
  BY EnrichedFields DEF IsDesign
<1> HIDE DEF e
<1>2. \A rule : Error(rule).rule = rule /\ Warn(rule).rule = rule
  BY DEF Error, Warn
<1>3. /\ "DES-010" \in RulesOf(OverviewRules(e)) <=> ~e.crossCutting
      /\ "DES-036" \in RulesOf(OverviewRules(e)) <=> ~Filled(e.delta)
      /\ "DES-035" \in RulesOf(OverviewRules(e)) <=> e.goals \subseteq {"blank"}
      /\ "DES-008" \in RulesOf(OverviewRules(e))
            <=> ~e.nonGoals \/ ~e.contextView \/ ~Filled(e.strategy)
  BY <1>2 DEF OverviewRules, When, RulesOf
<1>4. Filled(e.delta)
  BY <1>1 DEF Architecture, Filled
<1>5. ASSUME "blank" \notin {p.title, p.summary, e.summary} PROVE Filled(e.strategy)
  <2>1. DefaultStrategy(d, p) \in {"text", "default"}
    <3>1. p.title \in Texts \ {"blank"} /\ p.summary \in Texts \ {"blank"}
          /\ d.summary \in Texts \ {"blank"}
      BY <1>1, <1>5 DEF IsDesign, IsPrd
    <3> QED BY <3>1, Zenon DEF DefaultStrategy, Texts
  <2> QED BY <1>1, <2>1 DEF Architecture, Filled
<1>6. ASSUME Priority0(p) # <<>> \/ Filled(p.title) \/ Filled(p.summary)
      PROVE  ~(e.goals \subseteq {"blank"})
  <2>1. DefaultGoals(p) = {"sentence"}
    BY <1>6 DEF DefaultGoals
  <2>2. ~(d.goals \subseteq {"blank"}) => ~(ExpandGoals(d.goals) \subseteq {"blank"})
    BY DEF ExpandGoals
  <2> QED BY <1>1, <2>1, <2>2
<1>7. /\ RulesOf(OverviewRules(e)) \cap {"DES-010", "DES-036"} = {}
      /\ "blank" \notin {p.title, p.summary, e.summary}
           => "DES-008" \notin RulesOf(OverviewRules(e))
      /\ Priority0(p) # <<>> \/ Filled(p.title) \/ Filled(p.summary)
           => "DES-035" \notin RulesOf(OverviewRules(e))
  BY <1>1, <1>3, <1>4, <1>5, <1>6
<1> QED BY <1>7 DEF e

\* The invariant tells the enriched design, so what it promises.
LEMMA ArtifactsRepaired == ArtifactsInv => EnrichmentRepairs
<1> SUFFICES ASSUME ArtifactsInv, pc = "design.md" PROVE EnrichmentRepairs
  BY DEF EnrichmentRepairs
<1>1. PICK raw \in {answer.design : answer \in Answers(prd, TRUE) \cup Answers(prd, FALSE)} :
          design = Enrich(CoerceDesign(raw), prd)
  BY DEF ArtifactsInv
<1>2. prd # Nothing
  BY DEF ArtifactsInv, TypeOK
<1>3. WrittenPrd(prd) /\ IsPrd(prd)
  BY <1>2, PrdIsWritten DEF ArtifactsInv
<1>4. RawDesign(raw)
  BY <1>1, <1>3, OfferedIsDesign
<1>5. IsDesign(CoerceDesign(raw)) /\ CoerceDesign(raw).strategy \in Texts
  BY <1>4, CoercedIsDesign
<1> QED BY <1>1, <1>3, <1>5, OverviewRepaired DEF EnrichmentRepairs

\* Reports, counters and the artifacts a node reads are there when it reads
\* them, whatever the agents answer and wherever a crash falls.
THEOREM ArtifactsAreThere == Spec => []TypeOK
<1>1. ArtifactsInv => TypeOK
  BY DEF ArtifactsInv
<1> QED BY <1>1, InitArtifacts, NextArtifacts, PTL DEF Spec

\* The enrichment fills in what it promises for every PRD and answer
\* (design_enrichment.py).
THEOREM EnrichmentKeepsItsPromise == Spec => []EnrichmentRepairs
BY InitArtifacts, NextArtifacts, ArtifactsRepaired, PTL DEF Spec

-----------------------------------------------------------------------------
(***************************************************************************)
(* What the enrichment could break.                                        *)
(***************************************************************************)
\* Coercing again changes nothing the rules on traces look at.
LEMMA CoerceTwice ==
    ASSUME NEW rows, \A row \in rows : {"ref", "kind", "feature"} \subseteq DOMAIN row
    PROVE  LET once == {CoerceRow(row) : row \in rows}
           IN  {CoerceRow(row) : row \in once} = once
<1>1. ASSUME NEW row \in rows PROVE CoerceRow(CoerceRow(row)) = CoerceRow(row)
  <2> DEFINE c == [row EXCEPT !.ref = row.feature]
  <2>1. "ref" \in DOMAIN row /\ "feature" \in DOMAIN row
    OBVIOUS
  <2>2. CASE row.ref # "none"
    BY <2>2, Zenon DEF CoerceRow
  <2>3. CASE row.ref = "none"
    <3>1. CoerceRow(row) = c
      BY <2>3 DEF CoerceRow
    <3>2. c.ref = row.feature /\ c.feature = row.feature /\ DOMAIN c = DOMAIN row
      BY <2>1, Zenon
    <3>3. \A x \in DOMAIN c : [c EXCEPT !.ref = c.feature][x] = c[x]
      BY <3>2, Zenon
    <3>4. [c EXCEPT !.ref = c.feature] = c
      BY <3>2, <3>3, Zenon
    <3> HIDE DEF c
    <3>5. CoerceRow(c) = c
      BY <3>4, Zenon DEF CoerceRow
    <3> QED BY <3>1, <3>5
  <2> QED BY <2>2, <2>3
<1> QED BY <1>1

\* What the rules see of a list of tasks, before and after the joining.
LEMMA DedupedTasks ==
    ASSUME NEW tasks \in Seq(Tasks)
    PROVE  LET kept == DedupeByPath(tasks)
           IN  /\ kept = <<>> => tasks = <<>>
               /\ Repeated(Ids(kept)) # {} => Repeated(Ids(tasks)) # {}
               /\ Repeated(Fields(kept, "path")) = {}
               /\ Some(kept, LAMBDA t : ~t.described) => Some(tasks, LAMBDA t : ~t.described)
               /\ FieldSet(kept, "path") = FieldSet(tasks, "path")
               /\ NamedBy(kept, "covers") = NamedBy(tasks, "covers")
               /\ IsInjective(Fields(tasks, "path")) => kept = tasks
<1> DEFINE kept == DedupeByPath(tasks)
<1>1. kept \in Seq(Tasks) /\ Deduped(kept, tasks, Len(tasks))
  BY DedupedList
<1> HIDE DEF kept
<1>2. DOMAIN tasks = 1..Len(tasks) /\ Len(tasks) \in Nat
  OBVIOUS
<1>3. kept = <<>> => tasks = <<>>
  <2>1. ASSUME tasks # <<>> PROVE kept # <<>>
    <3>1. 1 \in 1..Len(tasks)
      BY <2>1
    <3>2. DOMAIN kept # {}
      BY <1>1, <3>1 DEF Deduped
    <3> QED BY <3>2
  <2> QED BY <2>1
<1>4. \A i \in DOMAIN kept : \E j \in DOMAIN tasks :
           tasks[j].path = kept[i].path /\ tasks[j].id = kept[i].id
  BY <1>1, <1>2 DEF Deduped
<1>5. \A i, j \in DOMAIN kept : kept[i].path = kept[j].path => i = j
  BY <1>1 DEF Deduped
<1>6. ASSUME Repeated(Ids(kept)) # {} PROVE Repeated(Ids(tasks)) # {}
  <2>1. PICK a, b \in DOMAIN kept : a # b /\ kept[a].id = kept[b].id
    BY <1>6 DEF Repeated, Ids
  <2>2. PICK i \in DOMAIN tasks : tasks[i].path = kept[a].path /\ tasks[i].id = kept[a].id
    BY <1>4
  <2>3. PICK j \in DOMAIN tasks : tasks[j].path = kept[b].path /\ tasks[j].id = kept[b].id
    BY <1>4
  <2>4. i # j
    BY <1>5, <2>1, <2>2, <2>3
  <2>5. tasks[i].id \in Repeated(Ids(tasks))
    BY <2>1, <2>2, <2>3, <2>4 DEF Repeated, Ids, ToSet
  <2> QED BY <2>5
<1>7. Repeated(Fields(kept, "path")) = {}
  BY <1>5 DEF Repeated, Fields
<1>8. Some(kept, LAMBDA t : ~t.described) => Some(tasks, LAMBDA t : ~t.described)
  BY <1>1, <1>2 DEF Deduped, Some
<1>9. \A j \in DOMAIN tasks : \E i \in DOMAIN kept : kept[i].path = tasks[j].path
  BY <1>1, <1>2 DEF Deduped
<1>10. FieldSet(kept, "path") = FieldSet(tasks, "path")
  BY <1>4, <1>9 DEF FieldSet, Fields, ToSet
<1>11. NamedBy(kept, "covers") = NamedBy(tasks, "covers")
  <2>1. \A c : (\E i \in DOMAIN kept : c \in kept[i].covers)
                  <=> (\E j \in DOMAIN tasks : c \in tasks[j].covers)
    BY <1>1, <1>2 DEF Deduped
  <2> QED BY <2>1 DEF NamedBy, FieldSet, Fields, ToSet
<1>12. ASSUME IsInjective(Fields(tasks, "path")) PROVE kept = tasks
  <2>1. Len(kept) = Len(tasks) /\ \A i \in 1..Len(tasks) : kept[i] = tasks[i]
    BY <1>1, <1>12 DEF Deduped
  <2> QED BY <1>1, <2>1
<1> QED BY <1>3, <1>6, <1>7, <1>8, <1>10, <1>11, <1>12 DEF kept

\* The errors the enrichment could cause, one disjunct for each rule.
Broken(d, p, r) ==
    \/ d.tasks = <<>> /\ r = "DES-001"
    \/ Repeated(Ids(d.tasks)) # {} /\ r = "DES-002"
    \/ (\/ Repeated(Fields(d.tasks, "path")) # {}
        \/ Some(d.tasks, LAMBDA t : ~t.described)) /\ r = "DES-003"
    \/ NamedBy(d.tasks, "deps") \ IdSet(d.tasks) # {} /\ r = "DES-004"
    \/ HasCycle(d.tasks) /\ r = "DES-005"
    \/ (~d.nonGoals \/ ~d.contextView \/ ~Filled(d.strategy)) /\ r = "DES-008"
    \/ d.goals \subseteq {"blank"} /\ r = "DES-035"
    \/ ~Filled(d.delta) /\ r = "DES-036"
    \/ ~d.crossCutting /\ r = "DES-010"
    \/ (d.trace = {} \/ ~(IdSet(Priority0(p)) \subseteq TracedRefs(d))) /\ r = "DES-009"
    \/ RequiresNonFunctional(p) /\ ~d.nonFunctional /\ r = "DES-011"
    \/ ~(IdSet(p.criteria) \subseteq CoveredCriteria(d)) /\ r = "DES-101"
    \/ p.scopeOut \cap d.mentions # {} /\ r = "DES-102"
    \/ (FieldSet(d.tasks, "path") \cup FieldSet(d.modules, "path")) \cap EscapingPaths # {}
       /\ r = "DES-103"
    \/ ~(d.filePlan \subseteq FieldSet(d.tasks, "path")) /\ r = "DES-104"

\* The rules that fire are those of Broken.
LEMMA BrokenRules ==
    ASSUME NEW d, NEW p, NEW r
    PROVE  r \in RulesOf(Errors(TaskRules(d) \cup OverviewRules(d)
                                  \cup TraceRules(d, p) \cup PathRules(d)))
             <=> Broken(d, p, r)
<1> DEFINE all == TaskRules(d) \cup OverviewRules(d) \cup TraceRules(d, p) \cup PathRules(d)
<1>1. \A rule : /\ Error(rule).rule = rule /\ Error(rule).level = "error"
                /\ Warn(rule).level # "error"
  BY DEF Error, Warn
<1>2. \A v : v \in TaskRules(d) <=>
        \/ d.tasks = <<>> /\ v = Error("DES-001")
        \/ Repeated(Ids(d.tasks)) # {} /\ v = Error("DES-002")
        \/ (\/ Repeated(Fields(d.tasks, "path")) # {}
            \/ Some(d.tasks, LAMBDA t : ~t.described)) /\ v = Error("DES-003")
        \/ NamedBy(d.tasks, "deps") \ IdSet(d.tasks) # {} /\ v = Error("DES-004")
        \/ HasCycle(d.tasks) /\ v = Error("DES-005")
  BY DEF TaskRules, When
<1>3. \A v : v \in OverviewRules(d) <=>
        \/ (~d.nonGoals \/ ~d.contextView \/ ~Filled(d.strategy)) /\ v = Error("DES-008")
        \/ d.goals \subseteq {"blank"} /\ v = Error("DES-035")
        \/ d.goals \cap {"bare_known", "bare_unknown"} # {} /\ v = Warn("DES-037")
        \/ ~Filled(d.delta) /\ v = Error("DES-036")
        \/ ~d.crossCutting /\ v = Error("DES-010")
  BY DEF OverviewRules, When
<1>4. \A v : v \in TraceRules(d, p) <=>
        \/ (d.trace = {} \/ ~(IdSet(Priority0(p)) \subseteq TracedRefs(d)))
           /\ v = Error("DES-009")
        \/ RequiresNonFunctional(p) /\ ~d.nonFunctional /\ v = Error("DES-011")
        \/ ~(IdSet(p.criteria) \subseteq CoveredCriteria(d)) /\ v = Error("DES-101")
        \/ p.scopeOut \cap d.mentions # {} /\ v = Error("DES-102")
  BY DEF TraceRules, When
<1>5. \A v : v \in PathRules(d) <=>
        \/ (FieldSet(d.tasks, "path") \cup FieldSet(d.modules, "path")) \cap EscapingPaths # {}
           /\ v = Error("DES-103")
        \/ ~(d.filePlan \subseteq FieldSet(d.tasks, "path")) /\ v = Error("DES-104")
  BY DEF PathRules, When
<1>6. r \in RulesOf(Errors(all)) <=> \E v \in all : v.level = "error" /\ r = v.rule
  BY DEF RulesOf, Errors
<1>7. ASSUME Broken(d, p, r) PROVE Error(r) \in all
  BY <1>2, <1>3, <1>4, <1>5, <1>7 DEF Broken
<1>8. ASSUME NEW v \in all, v.level = "error" PROVE Broken(d, p, v.rule)
  <2>1. CASE v \in TaskRules(d)
    BY <1>1, <1>2, <2>1 DEF Broken
  <2>2. CASE v \in OverviewRules(d)
    BY <1>1, <1>3, <1>8, <2>2 DEF Broken
  <2>3. CASE v \in TraceRules(d, p)
    BY <1>1, <1>4, <2>3 DEF Broken
  <2>4. CASE v \in PathRules(d)
    BY <1>1, <1>5, <2>4 DEF Broken
  <2> QED BY <2>1, <2>2, <2>3, <2>4
<1> HIDE DEF all
<1>9. r \in RulesOf(Errors(all)) <=> Broken(d, p, r)
  BY <1>1, <1>6, <1>7, <1>8
<1> QED BY <1>9 DEF all

\* A rule broken after the enrichment was broken before, but for the two on
\* dependencies, and those only when tasks were joined.
LEMMA EnrichmentBreaksNothingElse ==
    ASSUME NEW raw, RawDesign(raw), NEW p, IsPrd(p), NEW r,
           Broken(Enrich(CoerceDesign(raw), p), p, r)
    PROVE  \/ Broken(CoerceDesign(raw), p, r)
           \/ /\ ~IsInjective(Fields(CoerceDesign(raw).tasks, "path"))
              /\ r \in {"DES-004", "DES-005"}
<1> DEFINE d == CoerceDesign(raw)
           e == Enrich(d, p)
<1>1. d.trace = {CoerceRow(row) : row \in raw.trace}
  BY CoercedFields DEF RawDesign, IsDesign
<1>2. IsDesign(d)
  BY CoercedIsDesign
<1> HIDE DEF d
<1>3. /\ e.tasks = DedupeByPath(d.tasks)
      /\ e.trace = {CoerceRow(row) : row \in d.trace}
      /\ e.nonGoals /\ e.contextView /\ e.crossCutting
      /\ e.strategy = Architecture(d, p).strategy
      /\ e.delta = Architecture(d, p).delta
      /\ e.goals = IF d.goals \subseteq {"blank"} THEN DefaultGoals(p)
                   ELSE ExpandGoals(d.goals)
      /\ e.modules = d.modules /\ e.nonFunctional = d.nonFunctional
      /\ e.mentions = d.mentions /\ e.filePlan = d.filePlan
  BY <1>2, EnrichedFields DEF IsDesign
<1> HIDE DEF e
<1>4. e.trace = d.trace
  BY <1>1, <1>3, CoerceTwice DEF RawDesign, IsDesign
<1>5. /\ e.tasks = <<>> => d.tasks = <<>>
      /\ Repeated(Ids(e.tasks)) # {} => Repeated(Ids(d.tasks)) # {}
      /\ Repeated(Fields(e.tasks, "path")) = {}
      /\ Some(e.tasks, LAMBDA t : ~t.described) => Some(d.tasks, LAMBDA t : ~t.described)
      /\ FieldSet(e.tasks, "path") = FieldSet(d.tasks, "path")
      /\ NamedBy(e.tasks, "covers") = NamedBy(d.tasks, "covers")
      /\ IsInjective(Fields(d.tasks, "path")) => e.tasks = d.tasks
  BY <1>2, <1>3, DedupedTasks DEF IsDesign
<1>6. TracedRefs(e) = TracedRefs(d) /\ CoveredCriteria(e) = CoveredCriteria(d)
  BY <1>4, <1>5 DEF TracedRefs, CoveredCriteria
<1>7. e.goals \subseteq {"blank"} => d.goals \subseteq {"blank"}
  BY <1>3 DEF ExpandGoals
<1>8. /\ ~Filled(e.strategy) => ~Filled(d.strategy)
      /\ Filled(e.delta)
  BY <1>3 DEF Architecture, Filled
<1>9. Broken(e, p, r)
  BY DEF e, d
<1>10. \/ Broken(d, p, r)
       \/ ~IsInjective(Fields(d.tasks, "path")) /\ r \in {"DES-004", "DES-005"}
  BY <1>3, <1>4, <1>5, <1>6, <1>7, <1>8, <1>9 DEF Broken
<1> QED BY <1>10 DEF d

\* The invariant tells what is about to be enriched.
LEMMA OrderBroken == ArtifactsInv => EnrichmentBreaksOnlyOrder
<1> SUFFICES ASSUME ArtifactsInv, pc = "design.json" PROVE EnrichmentBreaksOnlyOrder
  BY DEF EnrichmentBreaksOnlyOrder
<1>1. prd # Nothing
  BY DEF ArtifactsInv, TypeOK
<1>2. WrittenPrd(prd) /\ IsPrd(prd)
  BY <1>1, PrdIsWritten DEF ArtifactsInv
<1>3. RawDesign(output)
  BY <1>2, OfferedIsDesign DEF ArtifactsInv
<1> DEFINE before == CoerceDesign(output)
           after == Enrich(before, prd)
           errors(d) == RulesOf(Errors(TaskRules(d) \cup OverviewRules(d)
                                         \cup TraceRules(d, prd) \cup PathRules(d)))
<1>4. \A d, r : r \in errors(d) <=> Broken(d, prd, r)
  BY BrokenRules
<1> HIDE DEF errors
<1>5. \A r : Broken(after, prd, r) =>
          \/ Broken(before, prd, r)
          \/ ~IsInjective(Fields(before.tasks, "path")) /\ r \in {"DES-004", "DES-005"}
  BY <1>2, <1>3, EnrichmentBreaksNothingElse
<1> HIDE DEF before, after
<1>6. errors(after) \ errors(before) \subseteq
          IF IsInjective(Fields(before.tasks, "path")) THEN {} ELSE {"DES-004", "DES-005"}
  BY <1>4, <1>5
<1> QED BY <1>6 DEF EnrichmentBreaksOnlyOrder, before, after, errors

\* Joining tasks of one path can put a dependency on an id that is gone or
\* close a cycle; no other rule on tasks, overview, traces or paths is broken
\* by the enrichment, for lists of any length (design_enrichment.py).
THEOREM EnrichmentIsHarmless == Spec => []EnrichmentBreaksOnlyOrder
BY InitArtifacts, NextArtifacts, OrderBroken, PTL DEF Spec

-----------------------------------------------------------------------------
(***************************************************************************)
(* kahn_sort_tasks (dev_task_scheduler.py) on lists of any length: a visit *)
(* orders the head of the queue and releases its dependents, and KahnInv   *)
(* is the invariant of the visits.                                         *)
(***************************************************************************)
\* The states of the sort.
KahnStates(tasks) ==
    [degree : [IdSet(tasks) -> Int], queue : Seq(IdSet(tasks)), ordered : Seq(Tasks)]

\* The ids of a list of tasks.
LEMMA IdsOf ==
    ASSUME NEW tasks \in Seq(Tasks)
    PROVE  /\ Ids(tasks) \in Seq(IdSet(tasks)) /\ ToSet(Ids(tasks)) = IdSet(tasks)
           /\ Len(Ids(tasks)) = Len(tasks) /\ IsFiniteSet(IdSet(tasks))
           /\ \A id \in IdSet(tasks) : \E i \in DOMAIN tasks : tasks[i].id = id
           /\ \A t \in ToSet(tasks) : t.id \in IdSet(tasks) /\ t \in Tasks
<1>1. DOMAIN tasks = 1..Len(tasks) /\ Len(tasks) \in Nat
      /\ \A i \in DOMAIN tasks : tasks[i] \in Tasks
  OBVIOUS
<1> DEFINE ids == [i \in DOMAIN tasks |-> tasks[i].id]
<1>2. ids \in [1..Len(tasks) -> IdSet(tasks)]
  BY <1>1 DEF IdSet
<1>3. ids \in Seq(IdSet(tasks)) /\ Len(ids) = Len(tasks)
  BY <1>1, <1>2
<1>4. ToSet(ids) = IdSet(tasks)
  BY <1>1 DEF ToSet, IdSet
<1>5. IsFiniteSet(IdSet(tasks))
  BY <1>3, <1>4, ListIsFinite
<1>6. /\ \A id \in IdSet(tasks) : \E i \in DOMAIN tasks : tasks[i].id = id
      /\ \A t \in ToSet(tasks) : t.id \in IdSet(tasks) /\ t \in Tasks
  BY <1>1 DEF IdSet, ToSet
<1> QED BY <1>3, <1>4, <1>5, <1>6 DEF Ids

\* Where no id repeats, an id names one task.
LEMMA UniqueTask ==
    ASSUME NEW tasks \in Seq(Tasks), IsInjective(Ids(tasks)),
           NEW s \in ToSet(tasks), NEW t \in ToSet(tasks), s.id = t.id
    PROVE  s = t
<1>1. PICK i \in DOMAIN tasks : s = tasks[i]
  BY DEF ToSet
<1>2. PICK j \in DOMAIN tasks : t = tasks[j]
  BY DEF ToSet
<1>3. i = j
  BY <1>1, <1>2 DEF IsInjective, Ids
<1> QED BY <1>1, <1>2, <1>3

\* And that task is what by_id finds.
LEMMA TaskOfId ==
    ASSUME NEW tasks \in Seq(Tasks), IsInjective(Ids(tasks))
    PROVE  /\ \A id \in IdSet(tasks) : /\ TaskById(tasks, id) \in ToSet(tasks)
                                       /\ TaskById(tasks, id).id = id
                                       /\ TaskById(tasks, id) \in Tasks
           /\ \A t \in ToSet(tasks) : TaskById(tasks, t.id) = t
<1>1. ASSUME NEW id \in IdSet(tasks)
      PROVE  /\ TaskById(tasks, id) \in ToSet(tasks) /\ TaskById(tasks, id).id = id
             /\ TaskById(tasks, id) \in Tasks
  <2> DEFINE S == {t \in ToSet(tasks) : t.id = id}
             k == Kept(tasks, S)
  <2>1. k \in Seq(Tasks) /\ ToSet(k) = S
    <3>1. ToSet(tasks) \cap S = S
      OBVIOUS
    <3> HIDE DEF S
    <3> QED BY <3>1, KeptList
  <2>2. S # {}
    BY DEF IdSet, ToSet
  <2> HIDE DEF S, k
  <2>3. Len(k) \in DOMAIN k
    <3>1. k # <<>>
      BY <2>1, <2>2 DEF ToSet
    <3> QED BY <2>1, <3>1
  <2>4. Last(k) \in S /\ Last(k) \in Tasks
    BY <2>1, <2>3 DEF Last, ToSet
  <2> QED BY <2>4 DEF TaskById, S, k
<1>2. ASSUME NEW t \in ToSet(tasks) PROVE TaskById(tasks, t.id) = t
  <2>1. t.id \in IdSet(tasks)
    BY DEF IdSet, ToSet
  <2> QED BY <1>1, <2>1, UniqueTask
<1> QED BY <1>1, <1>2

\* The dependents of a task, each once.
LEMMA DependentsList ==
    ASSUME NEW tasks \in Seq(Tasks), IsInjective(Ids(tasks)), NEW node
    PROVE  /\ Dependents(tasks, node) \in Seq(IdSet(tasks))
           /\ IsInjective(Dependents(tasks, node))
           /\ \A id : id \in ToSet(Dependents(tasks, node))
                        <=> id \in IdSet(tasks) /\ node \in TaskById(tasks, id).deps
<1> DEFINE S == {t \in ToSet(tasks) : node \in t.deps}
           k == Kept(tasks, S)
<1>1. IsInjective(tasks)
  BY DEF IsInjective, Ids
<1>2. k \in Seq(Tasks) /\ ToSet(k) = S /\ IsInjective(k)
  <2>1. ToSet(tasks) \cap S = S
    OBVIOUS
  <2> HIDE DEF S
  <2> QED BY <1>1, <2>1, KeptList
<1>3. S \subseteq ToSet(tasks)
  OBVIOUS
<1>4. \A t : t \in S <=> t \in ToSet(tasks) /\ node \in t.deps
  OBVIOUS
<1> HIDE DEF S, k
<1>5. \A i \in DOMAIN k : k[i] \in S
  BY <1>2 DEF ToSet
<1>6. IsInjective(Ids(k))
  <2>1. \A i, j \in DOMAIN k : k[i].id = k[j].id => i = j
    <3> SUFFICES ASSUME NEW i \in DOMAIN k, NEW j \in DOMAIN k, k[i].id = k[j].id
                 PROVE  i = j
      OBVIOUS
    <3>1. k[i] = k[j]
      BY <1>3, <1>5, UniqueTask
    <3> QED BY <1>2, <3>1 DEF IsInjective
  <2> QED BY <2>1 DEF IsInjective, Ids
<1>7. IdSet(k) \subseteq IdSet(tasks)
  BY <1>3, <1>5 DEF IdSet, ToSet
<1>8. Ids(k) \in Seq(IdSet(tasks)) /\ ToSet(Ids(k)) = IdSet(k)
  BY <1>2, <1>7, IdsOf
<1>9. \A id : id \in IdSet(k) <=> \E t \in S : t.id = id
  BY <1>2 DEF IdSet, ToSet
<1>10. ASSUME NEW id
       PROVE  id \in IdSet(k) <=> id \in IdSet(tasks) /\ node \in TaskById(tasks, id).deps
  <2>1. id \in IdSet(k) => id \in IdSet(tasks) /\ node \in TaskById(tasks, id).deps
    BY <1>4, <1>7, <1>9, TaskOfId
  <2>2. id \in IdSet(tasks) /\ node \in TaskById(tasks, id).deps => id \in IdSet(k)
    BY <1>4, <1>9, TaskOfId
  <2> QED BY <2>1, <2>2
<1> QED BY <1>6, <1>8, <1>10 DEF Dependents, S, k

\* The sort starts with the degree of every task and those without one.
LEMMA StartOfKahn ==
    ASSUME NEW tasks \in Seq(Tasks), IsInjective(Ids(tasks))
    PROVE  LET s == StartState(tasks)
           IN  /\ s \in KahnStates(tasks) /\ s.ordered = <<>> /\ IsInjective(s.queue)
               /\ \A id \in IdSet(tasks) :
                     /\ s.degree[id] = Cardinality(TaskById(tasks, id).deps)
                     /\ id \in ToSet(s.queue) <=> s.degree[id] = 0
<1> DEFINE degree == [id \in IdSet(tasks) |-> Cardinality(TaskById(tasks, id).deps)]
           free == {id \in IdSet(tasks) : degree[id] = 0}
           queue == Kept(Ids(tasks), free)
<1>1. \A id \in IdSet(tasks) : degree[id] \in Nat
  <2>1. \A id \in IdSet(tasks) : IsFiniteSet(TaskById(tasks, id).deps)
    BY TaskOfId DEF Tasks
  <2> QED BY <2>1, FS_CardinalityType
<1>2. degree \in [IdSet(tasks) -> Int]
  BY <1>1
<1>3. \A id \in IdSet(tasks) : /\ degree[id] = Cardinality(TaskById(tasks, id).deps)
                               /\ id \in free <=> degree[id] = 0
  OBVIOUS
<1>4. free \subseteq IdSet(tasks)
  OBVIOUS
<1>5. StartState(tasks) = [degree |-> degree, ordered |-> <<>>, queue |-> queue]
  BY DEF StartState
<1> HIDE DEF degree, free
<1>6. queue \in Seq(IdSet(tasks)) /\ ToSet(queue) = free /\ IsInjective(queue)
  <2>1. Ids(tasks) \in Seq(IdSet(tasks)) /\ ToSet(Ids(tasks)) = IdSet(tasks)
    BY IdsOf
  <2>2. /\ Kept(Ids(tasks), free) \in Seq(IdSet(tasks))
        /\ ToSet(Kept(Ids(tasks), free)) = ToSet(Ids(tasks)) \cap free
        /\ IsInjective(Kept(Ids(tasks), free))
    BY <2>1, KeptList
  <2> QED BY <1>4, <2>1, <2>2
<1> HIDE DEF queue
<1>7. StartState(tasks) \in KahnStates(tasks)
  BY <1>2, <1>5, <1>6 DEF KahnStates
<1> QED BY <1>3, <1>5, <1>6, <1>7

\* Releasing one dependent.
LEMMA ReleasedState ==
    ASSUME NEW tasks, NEW s \in KahnStates(tasks), NEW c \in IdSet(tasks)
    PROVE  /\ Release(s, c) \in KahnStates(tasks)
           /\ Release(s, c).ordered = s.ordered
           /\ \A id \in IdSet(tasks) : Release(s, c).degree[id] =
                  IF id = c THEN s.degree[id] - 1 ELSE s.degree[id]
           /\ Release(s, c).queue = IF s.degree[c] = 1 THEN Append(s.queue, c) ELSE s.queue
<1> DEFINE degree == [s.degree EXCEPT ![c] = @ - 1]
<1>1. /\ s.degree \in [IdSet(tasks) -> Int] /\ s.queue \in Seq(IdSet(tasks))
      /\ s.ordered \in Seq(Tasks)
  BY DEF KahnStates
<1>2. /\ degree \in [IdSet(tasks) -> Int]
      /\ \A id \in IdSet(tasks) : degree[id] = IF id = c THEN s.degree[id] - 1
                                               ELSE s.degree[id]
      /\ degree[c] = 0 <=> s.degree[c] = 1
  BY <1>1
<1>3. Release(s, c) = [degree |-> degree, ordered |-> s.ordered,
                       queue |-> IF degree[c] = 0 THEN Append(s.queue, c) ELSE s.queue]
  BY DEF Release
<1> HIDE DEF degree
<1>4. Append(s.queue, c) \in Seq(IdSet(tasks))
  BY <1>1
<1> QED BY <1>1, <1>2, <1>3, <1>4 DEF KahnStates

\* h is the state after each release.
ReleaseSteps(h, seq) == \A n \in 1..Len(seq) : h[n] = Release(h[n - 1], seq[n])

\* ReleaseEach, a fold, is the last of its steps.
LEMMA ReleaseRun ==
    ASSUME NEW tasks, NEW start \in KahnStates(tasks), NEW children \in Seq(IdSet(tasks))
    PROVE  \E h : /\ Results(h, KahnStates(tasks), start, children,
                             ReleaseEach(start, children))
                  /\ ReleaseSteps(h, children)
<1> DEFINE B == KahnStates(tasks)
           A == IdSet(tasks)
           step(g, s) == IF s = {} THEN start ELSE Release(g[s \ {Max(s)}], children[Max(s)])
           iter == CHOOSE g : g = [s \in SUBSET DOMAIN children |-> step(g, s)]
           W == B \cup {iter[s] : s \in SUBSET DOMAIN children}
           F == [y \in W \X A |-> Release(y[1], y[2])]
<1>1. ReleaseEach(start, children) = iter[DOMAIN children]
  BY DEF ReleaseEach, FoldLeft, MapThenFoldSet
<1>2. /\ B \subseteq W /\ \A s \in SUBSET DOMAIN children : iter[s] \in W
      /\ \A b \in W, x \in A : F[<<b, x>>] = Release(b, x)
  OBVIOUS
<1> HIDE DEF iter, W, F
<1>3. start \in B /\ \A b \in B, x \in A : F[<<b, x>>] \in B
  BY <1>2, ReleasedState
<1>0. children \in Seq(A)
  OBVIOUS
<1> HIDE DEF B, A
<1>4. PICK g \in [SUBSET DOMAIN children -> B] :
          FoldEquation(F, start, children, DOMAIN children, g)
  BY <1>0, <1>3, FoldExists
<1>5. \A s \in SUBSET DOMAIN children :
         s # {} => s \ {Max(s)} \in SUBSET DOMAIN children /\ children[Max(s)] \in A
  BY <1>0, LastOfDomain
<1>6. g = [s \in SUBSET DOMAIN children |-> step(g, s)]
  BY <1>2, <1>4, <1>5 DEF FoldEquation
<1> HIDE DEF step
<1>7. iter = [s \in SUBSET DOMAIN children |-> step(iter, s)]
  BY <1>6 DEF iter
<1>8. FoldEquation(F, start, children, DOMAIN children, iter)
  BY <1>2, <1>5, <1>7 DEF FoldEquation, step
<1>9. PICK h : Results(h, B, start, children, iter[DOMAIN children]) /\ IsRun(h, F, children)
  BY <1>0, <1>3, <1>8, FoldRun
<1>10. ASSUME NEW n \in 1..Len(children) PROVE h[n] = Release(h[n - 1], children[n])
  <2>1. h[n - 1] \in B /\ children[n] \in A
    BY <1>0, <1>9 DEF Results
  <2> QED BY <1>2, <1>9, <2>1 DEF IsRun
<1> QED BY <1>1, <1>9, <1>10 DEF B, ReleaseSteps

\* Every dependent has one dependency less, and those without any are queued.
Released(tasks, start, done, s) ==
    /\ s.ordered = start.ordered
    /\ \A id \in IdSet(tasks) :
          s.degree[id] = IF id \in done THEN start.degree[id] - 1 ELSE start.degree[id]
    /\ \A id : id \in ToSet(s.queue)
                 <=> id \in ToSet(start.queue) \/ (id \in done /\ start.degree[id] = 1)
    /\ IsInjective(s.queue)

\* Releasing the dependents of one task, each once.
LEMMA ReleasedAll ==
    ASSUME NEW tasks, NEW start \in KahnStates(tasks), IsInjective(start.queue),
           NEW children \in Seq(IdSet(tasks)), IsInjective(children),
           ToSet(children) \cap ToSet(start.queue) = {}
    PROVE  /\ ReleaseEach(start, children) \in KahnStates(tasks)
           /\ Released(tasks, start, ToSet(children), ReleaseEach(start, children))
<1>1. PICK h : /\ Results(h, KahnStates(tasks), start, children,
                          ReleaseEach(start, children))
               /\ ReleaseSteps(h, children)
  BY ReleaseRun
<1>2. Len(children) \in Nat /\ DOMAIN children = 1..Len(children)
      /\ \A n \in 1..Len(children) : children[n] \in IdSet(tasks)
  OBVIOUS
<1> DEFINE T == {n \in 0..Len(children) : Released(tasks, start, UpTo(children, n), h[n])}
<1>3. 0 \in T
  <2>1. h[0] = start /\ UpTo(children, 0) = {}
    BY <1>1, UpToNext DEF Results
  <2> QED BY <1>2, <2>1 DEF Released
<1>4. ASSUME NEW n \in 0..(Len(children) - 1), n \in T PROVE n + 1 \in T
  <2> DEFINE c == children[n + 1]
             s == h[n]
             e == h[n + 1]
             U == UpTo(children, n)
  <2>1. /\ n \in Nat /\ n + 1 \in 1..Len(children) /\ n + 1 \in 0..Len(children)
        /\ (n + 1) - 1 = n /\ n \in 0..Len(children)
    BY <1>2
  <2>2. s \in KahnStates(tasks) /\ c \in IdSet(tasks)
    BY <1>1, <1>2, <2>1 DEF Results
  <2>3. e = Release(s, c)
    BY <1>1, <2>1 DEF ReleaseSteps
  <2>4. UpTo(children, n + 1) = U \cup {c}
    BY <2>1, UpToNext
  <2>5. c \notin U
    <3>1. \A i \in 1..n : i \in 1..Len(children) /\ i # n + 1
      BY <1>2
    <3> QED BY <1>2, <2>1, <3>1 DEF UpTo, IsInjective
  <2>6. c \notin ToSet(start.queue)
    BY <1>2, <2>1 DEF ToSet
  <2>7. Released(tasks, start, U, s)
    BY <1>4
  <2> HIDE DEF c, s, e, U
  <2>8. /\ e.ordered = s.ordered
        /\ \A id \in IdSet(tasks) :
              e.degree[id] = IF id = c THEN s.degree[id] - 1 ELSE s.degree[id]
        /\ e.queue = IF s.degree[c] = 1 THEN Append(s.queue, c) ELSE s.queue
    BY <2>2, <2>3, ReleasedState
  <2>9. s.degree[c] = start.degree[c] /\ c \notin ToSet(s.queue)
    BY <2>2, <2>5, <2>6, <2>7 DEF Released
  <2>10. s.queue \in Seq(IdSet(tasks))
    BY <2>2 DEF KahnStates
  <2>11. /\ ToSet(e.queue) = IF start.degree[c] = 1 THEN ToSet(s.queue) \cup {c}
                             ELSE ToSet(s.queue)
         /\ IsInjective(e.queue)
    <3>1. IsInjective(s.queue)
      BY <2>7 DEF Released
    <3>2. CASE start.degree[c] = 1
      <4>1. e.queue = Append(s.queue, c)
        BY <2>8, <2>9, <3>2
      <4> QED BY <2>2, <2>9, <2>10, <3>1, <3>2, <4>1, AppendSet
    <3>3. CASE start.degree[c] # 1
      BY <2>8, <2>9, <3>1, <3>3
    <3> QED BY <3>2, <3>3
  <2>12. \A id : id \in ToSet(e.queue)
                   <=> id \in ToSet(start.queue) \/ (id \in U \cup {c} /\ start.degree[id] = 1)
    BY <2>7, <2>11 DEF Released
  <2>13. \A id \in IdSet(tasks) :
            e.degree[id] = IF id \in U \cup {c} THEN start.degree[id] - 1 ELSE start.degree[id]
    BY <2>5, <2>7, <2>8 DEF Released
  <2>14. Released(tasks, start, U \cup {c}, e)
    BY <2>7, <2>8, <2>11, <2>12, <2>13 DEF Released
  <2> QED BY <2>1, <2>4, <2>14 DEF e
<1>5. Len(children) \in T
  <2> HIDE DEF T
  <2>1. 0..Len(children) \subseteq T
    BY <1>2, <1>3, <1>4, BoundedInduction
  <2> QED BY <1>2, <2>1
<1>6. UpTo(children, Len(children)) = ToSet(children)
  BY <1>2 DEF UpTo, ToSet
<1> QED BY <1>1, <1>2, <1>5, <1>6 DEF Results

\* One visit leaves a state of the sort.
LEMMA VisitedState ==
    ASSUME NEW tasks \in Seq(Tasks), IsInjective(Ids(tasks)), NEW s \in KahnStates(tasks)
    PROVE  /\ VisitNext(tasks, s) \in KahnStates(tasks)
           /\ s.queue = <<>> => VisitNext(tasks, s) = s
           /\ s.queue # <<>> =>
                \E start \in KahnStates(tasks) :
                    /\ start.degree = s.degree /\ start.queue = Tail(s.queue)
                    /\ start.ordered = Append(s.ordered, TaskById(tasks, Head(s.queue)))
                    /\ VisitNext(tasks, s) = ReleaseEach(start, Dependents(tasks, Head(s.queue)))
<1>1. CASE s.queue = <<>>
  BY <1>1 DEF VisitNext
<1>2. CASE s.queue # <<>>
  <2> DEFINE node == Head(s.queue)
             start == [degree |-> s.degree, queue |-> Tail(s.queue),
                       ordered |-> Append(s.ordered, TaskById(tasks, node))]
  <2>1. /\ s.degree \in [IdSet(tasks) -> Int] /\ s.queue \in Seq(IdSet(tasks))
        /\ s.ordered \in Seq(Tasks)
    BY DEF KahnStates
  <2>2. node \in IdSet(tasks) /\ Tail(s.queue) \in Seq(IdSet(tasks))
    BY <1>2, <2>1
  <2> HIDE DEF node
  <2>3. TaskById(tasks, node) \in Tasks
    BY <2>2, TaskOfId
  <2>4. start \in KahnStates(tasks)
    BY <2>1, <2>2, <2>3 DEF KahnStates
  <2>5. VisitNext(tasks, s) = ReleaseEach(start, Dependents(tasks, node))
    BY <1>2 DEF VisitNext, node
  <2>6. /\ start.degree = s.degree /\ start.queue = Tail(s.queue)
        /\ start.ordered = Append(s.ordered, TaskById(tasks, node))
    OBVIOUS
  <2> HIDE DEF start
  <2>7. PICK h : Results(h, KahnStates(tasks), start, Dependents(tasks, node),
                         ReleaseEach(start, Dependents(tasks, node)))
    BY <2>4, DependentsList, ReleaseRun
  <2>8. Len(Dependents(tasks, node)) \in 0..Len(Dependents(tasks, node))
    BY DependentsList
  <2>9. VisitNext(tasks, s) \in KahnStates(tasks)
    BY <2>5, <2>7, <2>8 DEF Results
  <2> QED BY <1>2, <2>4, <2>5, <2>6, <2>9 DEF node
<1> QED BY <1>1, <1>2

\* The rounds of the sort.
Rounds(tasks) == [i \in 1..(2 * Len(tasks)) |-> i]
VisitSteps(h, tasks) == \A n \in 1..(2 * Len(tasks)) : h[n] = VisitNext(tasks, h[n - 1])

\* The sort, a fold, is the last of its rounds.
LEMMA VisitRun ==
    ASSUME NEW tasks \in Seq(Tasks), IsInjective(Ids(tasks))
    PROVE  \E h : /\ Results(h, KahnStates(tasks), StartState(tasks), Rounds(tasks),
                             Visits(tasks))
                  /\ VisitSteps(h, tasks)
<1> DEFINE B == KahnStates(tasks)
           base == StartState(tasks)
           seq == Rounds(tasks)
           step(g, s) == IF s = {} THEN base ELSE VisitNext(tasks, g[s \ {Max(s)}])
           iter == CHOOSE g : g = [s \in SUBSET DOMAIN seq |-> step(g, s)]
           W == B \cup {iter[s] : s \in SUBSET DOMAIN seq}
           F == [y \in W \X Nat |-> VisitNext(tasks, y[1])]
<1>1. Visits(tasks) = iter[DOMAIN seq]
  BY DEF Visits, FoldLeft, MapThenFoldSet, Rounds
<1>2. /\ B \subseteq W /\ \A s \in SUBSET DOMAIN seq : iter[s] \in W
      /\ \A b \in W, x \in Nat : F[<<b, x>>] = VisitNext(tasks, b)
  OBVIOUS
<1> HIDE DEF iter, W, F
<1>3. base \in B /\ \A b \in B, x \in Nat : F[<<b, x>>] \in B
  BY <1>2, VisitedState, StartOfKahn
<1>0. seq \in Seq(Nat) /\ Len(seq) = 2 * Len(tasks)
  <2>1. 2 * Len(tasks) \in Nat
    OBVIOUS
  <2> QED BY <2>1 DEF Rounds
<1> HIDE DEF B, base, seq
<1>4. PICK g \in [SUBSET DOMAIN seq -> B] : FoldEquation(F, base, seq, DOMAIN seq, g)
  BY <1>0, <1>3, FoldExists
<1>5. \A s \in SUBSET DOMAIN seq :
         s # {} => s \ {Max(s)} \in SUBSET DOMAIN seq /\ seq[Max(s)] \in Nat
  BY <1>0, LastOfDomain
<1>6. g = [s \in SUBSET DOMAIN seq |-> step(g, s)]
  BY <1>2, <1>4, <1>5 DEF FoldEquation
<1> HIDE DEF step
<1>7. iter = [s \in SUBSET DOMAIN seq |-> step(iter, s)]
  BY <1>6 DEF iter
<1>8. FoldEquation(F, base, seq, DOMAIN seq, iter)
  BY <1>2, <1>5, <1>7 DEF FoldEquation, step
<1>9. PICK h : Results(h, B, base, seq, iter[DOMAIN seq]) /\ IsRun(h, F, seq)
  BY <1>0, <1>3, <1>8, FoldRun
<1>10. ASSUME NEW n \in 1..Len(seq) PROVE h[n] = VisitNext(tasks, h[n - 1])
  <2>0. seq \in Seq(Nat)
    BY <1>0
  <2>1. h[n - 1] \in B /\ seq[n] \in Nat
    BY <1>9, <2>0 DEF Results
  <2> QED BY <1>2, <1>9, <2>1 DEF IsRun
<1> QED BY <1>0, <1>1, <1>9, <1>10 DEF B, base, seq, VisitSteps

\* Kahn's invariant: what is ordered stands after what it depends on, the
\* degrees count what is missing, and the queue holds what is free.
KahnInv(tasks, s) ==
    /\ ToSet(s.ordered) \subseteq ToSet(tasks)
    /\ IsInjective(Ids(s.ordered))
    /\ \A i \in DOMAIN s.ordered :
          s.ordered[i].deps \subseteq {s.ordered[j].id : j \in 1..(i - 1)}
    /\ \A id \in IdSet(tasks) :
          s.degree[id] = Cardinality(TaskById(tasks, id).deps \ IdSet(s.ordered))
    /\ IsInjective(s.queue)
    /\ \A id : id \in ToSet(s.queue) <=>
          /\ id \in IdSet(tasks) \ IdSet(s.ordered)
          /\ TaskById(tasks, id).deps \subseteq IdSet(s.ordered)

\* The invariant holds before the first visit.
LEMMA KahnStarts ==
    ASSUME NEW tasks \in Seq(Tasks), IsInjective(Ids(tasks))
    PROVE  KahnInv(tasks, StartState(tasks))
<1> DEFINE s == StartState(tasks)
<1>1. /\ s \in KahnStates(tasks) /\ s.ordered = <<>> /\ IsInjective(s.queue)
      /\ \A id \in IdSet(tasks) :
            /\ s.degree[id] = Cardinality(TaskById(tasks, id).deps)
            /\ id \in ToSet(s.queue) <=> s.degree[id] = 0
  BY StartOfKahn
<1> HIDE DEF s
<1>2. ToSet(s.ordered) = {} /\ IdSet(s.ordered) = {} /\ IsInjective(Ids(s.ordered))
  BY <1>1 DEF ToSet, IdSet, Ids, IsInjective
<1>3. ToSet(s.queue) \subseteq IdSet(tasks)
  BY <1>1 DEF KahnStates, ToSet
<1>4. ASSUME NEW id \in IdSet(tasks)
      PROVE  /\ TaskById(tasks, id).deps \ {} = TaskById(tasks, id).deps
             /\ Cardinality(TaskById(tasks, id).deps) = 0 <=> TaskById(tasks, id).deps = {}
  <2>1. IsFiniteSet(TaskById(tasks, id).deps)
    BY TaskOfId DEF Tasks
  <2> QED BY <2>1, FS_EmptySet
<1>5. \A id : id \in ToSet(s.queue) <=>
          /\ id \in IdSet(tasks) \ IdSet(s.ordered)
          /\ TaskById(tasks, id).deps \subseteq IdSet(s.ordered)
  BY <1>1, <1>2, <1>3, <1>4
<1>6. \A id \in IdSet(tasks) :
          s.degree[id] = Cardinality(TaskById(tasks, id).deps \ IdSet(s.ordered))
  BY <1>1, <1>2, <1>4
<1>7. DOMAIN s.ordered = {}
  BY <1>1
<1>8. KahnInv(tasks, s)
  BY <1>1, <1>2, <1>5, <1>6, <1>7 DEF KahnInv
<1> QED BY <1>8 DEF s

\* One visit: the head of the queue is ordered and its dependents are released.
LEMMA KahnSteps ==
    ASSUME NEW tasks \in Seq(Tasks), IsInjective(Ids(tasks)),
           NEW s \in KahnStates(tasks), KahnInv(tasks, s), s.queue # <<>>
    PROVE  LET e == VisitNext(tasks, s)
           IN  KahnInv(tasks, e) /\ Len(e.ordered) = Len(s.ordered) + 1
<1> DEFINE node == Head(s.queue)
           task == TaskById(tasks, node)
           children == Dependents(tasks, node)
           e == VisitNext(tasks, s)
           E == IdSet(s.ordered)
<1>1. PICK start \in KahnStates(tasks) :
          /\ start.degree = s.degree /\ start.queue = Tail(s.queue)
          /\ start.ordered = Append(s.ordered, task)
          /\ e = ReleaseEach(start, children)
  BY VisitedState
<1>2. /\ node \in IdSet(tasks) /\ Tail(s.queue) \in Seq(IdSet(tasks))
      /\ ToSet(s.queue) = {node} \cup ToSet(Tail(s.queue))
      /\ node \notin ToSet(Tail(s.queue)) /\ IsInjective(Tail(s.queue))
  BY TailSet DEF KahnStates, KahnInv
<1>3. /\ s.ordered \in Seq(Tasks) /\ s.degree \in [IdSet(tasks) -> Int]
      /\ DOMAIN s.ordered = 1..Len(s.ordered) /\ Len(s.ordered) \in Nat
  BY DEF KahnStates
<1>4. /\ children \in Seq(IdSet(tasks)) /\ IsInjective(children)
      /\ \A id : id \in ToSet(children)
                   <=> id \in IdSet(tasks) /\ node \in TaskById(tasks, id).deps
  BY DependentsList
<1> HIDE DEF node, children, e, E
<1>5. task \in ToSet(tasks) /\ task.id = node /\ task \in Tasks
  BY <1>2, TaskOfId
<1>6. node \notin E /\ task.deps \subseteq E
  BY <1>2 DEF KahnInv, E
<1>7. ASSUME NEW id \in E PROVE TaskById(tasks, id).deps \subseteq E
  <2>1. PICK i \in DOMAIN s.ordered : s.ordered[i].id = id
    BY DEF E, IdSet
  <2>2. s.ordered[i] \in ToSet(tasks)
    BY <2>1 DEF KahnInv, ToSet
  <2>3. TaskById(tasks, id) = s.ordered[i]
    BY <2>1, <2>2, TaskOfId
  <2>4. \A j \in 1..(i - 1) : j \in DOMAIN s.ordered
    BY <1>3, <2>1
  <2>5. {s.ordered[j].id : j \in 1..(i - 1)} \subseteq E
    BY <2>4 DEF E, IdSet
  <2> QED BY <2>1, <2>3, <2>5 DEF KahnInv
<1>8. \A id \in ToSet(children) : id \notin E /\ id # node
  BY <1>4, <1>6, <1>7
<1>9. ToSet(children) \cap ToSet(Tail(s.queue)) = {}
  BY <1>2, <1>4, <1>6 DEF KahnInv, E
<1>10. /\ e \in KahnStates(tasks)
       /\ Released(tasks, start, ToSet(children), e)
  BY <1>1, <1>2, <1>4, <1>9, ReleasedAll
<1>11. /\ e.ordered = Append(s.ordered, task)
       /\ \A id \in IdSet(tasks) :
             e.degree[id] = IF id \in ToSet(children) THEN s.degree[id] - 1 ELSE s.degree[id]
       /\ \A id : id \in ToSet(e.queue) <=>
             \/ id \in ToSet(Tail(s.queue))
             \/ id \in ToSet(children) /\ s.degree[id] = 1
       /\ IsInjective(e.queue)
  BY <1>1, <1>10 DEF Released
<1> DEFINE o == e.ordered
<1>12. /\ DOMAIN o = 1..(Len(s.ordered) + 1) /\ Len(o) = Len(s.ordered) + 1
       /\ \A i \in 1..Len(s.ordered) : o[i] = s.ordered[i]
       /\ o[Len(s.ordered) + 1] = task
       /\ ToSet(o) = ToSet(s.ordered) \cup {task}
  BY <1>3, <1>5, <1>11, AppendSet
<1> HIDE DEF o, task
<1>13. \A i \in DOMAIN o : \/ i \in DOMAIN s.ordered /\ o[i] = s.ordered[i]
                           \/ i = Len(s.ordered) + 1 /\ o[i] = task
  <2>1. \A i \in 1..(Len(s.ordered) + 1) : i \in 1..Len(s.ordered) \/ i = Len(s.ordered) + 1
    BY <1>3
  <2> QED BY <1>3, <1>12, <2>1
<1>14. IdSet(o) = E \cup {node}
  <2>1. \A i \in DOMAIN s.ordered : i \in DOMAIN o /\ o[i] = s.ordered[i]
    BY <1>3, <1>12
  <2>2. Len(s.ordered) + 1 \in DOMAIN o
    BY <1>3, <1>12
  <2> QED BY <1>5, <1>12, <1>13, <2>1, <2>2 DEF E, IdSet
<1>15. IsInjective(Ids(o))
  <2>1. \A i \in DOMAIN s.ordered : s.ordered[i].id # node
    BY <1>6 DEF E, IdSet
  <2>2. \A i, j \in DOMAIN s.ordered : s.ordered[i].id = s.ordered[j].id => i = j
    BY DEF KahnInv, IsInjective, Ids
  <2>3. \A i, j \in DOMAIN o : o[i].id = o[j].id => i = j
    BY <1>5, <1>13, <2>1, <2>2
  <2> QED BY <2>3 DEF IsInjective, Ids
<1>16. ASSUME NEW i \in DOMAIN o
       PROVE  o[i].deps \subseteq {o[j].id : j \in 1..(i - 1)}
  <2>1. CASE i \in DOMAIN s.ordered /\ o[i] = s.ordered[i]
    <3>1. \A j \in 1..(i - 1) : j \in 1..Len(s.ordered)
      BY <1>3, <2>1
    <3>2. \A j \in 1..(i - 1) : o[j] = s.ordered[j]
      BY <1>12, <3>1
    <3>3. s.ordered[i].deps \subseteq {s.ordered[j].id : j \in 1..(i - 1)}
      BY <2>1 DEF KahnInv
    <3> QED BY <2>1, <3>2, <3>3
  <2>2. CASE i = Len(s.ordered) + 1 /\ o[i] = task
    <3>1. 1..(i - 1) = DOMAIN s.ordered
      BY <1>3, <2>2
    <3>2. \A j \in 1..(i - 1) : o[j] = s.ordered[j]
      BY <1>3, <1>12, <3>1
    <3>3. E = {s.ordered[j].id : j \in 1..(i - 1)}
      BY <3>1 DEF E, IdSet
    <3>4. E \subseteq {o[j].id : j \in 1..(i - 1)}
      BY <3>2, <3>3
    <3> QED BY <1>6, <2>2, <3>4
  <2> QED BY <1>13, <2>1, <2>2
<1>17. ASSUME NEW id \in IdSet(tasks)
       PROVE  LET D == TaskById(tasks, id).deps
              IN  /\ e.degree[id] = Cardinality(D \ (E \cup {node}))
                  /\ id \in ToSet(children) => (s.degree[id] = 1 <=> D \subseteq E \cup {node})
  <2> DEFINE D == TaskById(tasks, id).deps
  <2>1. IsFiniteSet(D)
    BY TaskOfId DEF Tasks
  <2>2. s.degree[id] = Cardinality(D \ E)
    BY DEF KahnInv, E
  <2>3. id \in ToSet(children) <=> node \in D
    BY <1>4
  <2> HIDE DEF D
  <2>4. /\ Cardinality(D \ E) \in Nat
        /\ Cardinality(D \ (E \cup {node})) = IF node \in D THEN Cardinality(D \ E) - 1
                                              ELSE Cardinality(D \ E)
        /\ node \in D => (Cardinality(D \ E) = 1 <=> D \subseteq E \cup {node})
    BY <1>6, <2>1, OneLess
  <2>5. /\ e.degree[id] = Cardinality(D \ (E \cup {node}))
        /\ id \in ToSet(children) => (s.degree[id] = 1 <=> D \subseteq E \cup {node})
    BY <1>11, <2>2, <2>3, <2>4
  <2> QED BY <2>5 DEF D
<1>18. ASSUME NEW id
       PROVE  id \in ToSet(e.queue) <=>
                 /\ id \in IdSet(tasks) \ (E \cup {node})
                 /\ TaskById(tasks, id).deps \subseteq E \cup {node}
  <2>1. id \in ToSet(Tail(s.queue)) <=>
            /\ id \in IdSet(tasks) \ E /\ id # node
            /\ TaskById(tasks, id).deps \subseteq E
    BY <1>2 DEF KahnInv, E
  <2>2. id \in ToSet(children) /\ s.degree[id] = 1 <=>
            /\ id \in IdSet(tasks) \ (E \cup {node})
            /\ node \in TaskById(tasks, id).deps
            /\ TaskById(tasks, id).deps \subseteq E \cup {node}
    BY <1>4, <1>8, <1>17
  <2> QED BY <1>11, <2>1, <2>2
<1>19. ToSet(o) \subseteq ToSet(tasks)
  BY <1>5, <1>12 DEF KahnInv
<1>20. KahnInv(tasks, e)
  BY <1>11, <1>14, <1>15, <1>16, <1>17, <1>18, <1>19 DEF KahnInv, o
<1> QED BY <1>12, <1>20 DEF e, o

\* No more is ordered than there is, and as much only if all is.
LEMMA OrderedCount ==
    ASSUME NEW tasks \in Seq(Tasks), IsInjective(Ids(tasks)), NEW s \in KahnStates(tasks),
           KahnInv(tasks, s)
    PROVE  /\ Len(s.ordered) \in Nat /\ Len(s.ordered) <= Len(tasks)
           /\ IdSet(s.ordered) \subseteq IdSet(tasks)
           /\ IdSet(s.ordered) = IdSet(tasks) => Len(s.ordered) = Len(tasks)
<1> DEFINE o == s.ordered
<1>1. o \in Seq(Tasks) /\ ToSet(o) \subseteq ToSet(tasks) /\ IsInjective(Ids(o))
  BY DEF KahnStates, KahnInv
<1> HIDE DEF o
<1>2. /\ IsFiniteSet(IdSet(o)) /\ Cardinality(IdSet(o)) = Len(o)
      /\ IsFiniteSet(IdSet(tasks)) /\ Cardinality(IdSet(tasks)) = Len(tasks)
  BY <1>1, IdsOf, InjectiveCount
<1>3. IdSet(o) \subseteq IdSet(tasks)
  BY <1>1 DEF IdSet, ToSet
<1>4. Len(o) \in Nat
  BY <1>1
<1>5. Cardinality(IdSet(o)) <= Cardinality(IdSet(tasks))
  BY <1>2, <1>3, FS_Subset
<1> QED BY <1>2, <1>3, <1>4, <1>5 DEF o

\* Each round orders one more task or finds the queue empty, so at the end the
\* queue is empty.
LEMMA QueueRunsEmpty ==
    ASSUME NEW tasks \in Seq(Tasks), IsInjective(Ids(tasks))
    PROVE  /\ Visits(tasks) \in KahnStates(tasks) /\ KahnInv(tasks, Visits(tasks))
           /\ Visits(tasks).queue = <<>>
<1> DEFINE N == 2 * Len(tasks)
<1>1. PICK h : /\ Results(h, KahnStates(tasks), StartState(tasks), Rounds(tasks),
                          Visits(tasks))
               /\ VisitSteps(h, tasks)
  BY VisitRun
<1>2. N \in Nat /\ Len(Rounds(tasks)) = N
  BY DEF Rounds
<1>3. /\ h \in [0..N -> KahnStates(tasks)] /\ h[0] = StartState(tasks) /\ h[N] = Visits(tasks)
      /\ \A n \in 1..N : h[n] = VisitNext(tasks, h[n - 1])
  BY <1>1, <1>2 DEF Results, VisitSteps
<1> HIDE DEF N
<1> DEFINE T == {n \in 0..N : /\ KahnInv(tasks, h[n])
                              /\ Len(h[n].ordered) = n \/ h[n].queue = <<>>}
<1>4. 0 \in T
  <2>1. StartState(tasks).ordered = <<>>
    BY DEF StartState
  <2> QED BY <1>2, <1>3, <2>1, KahnStarts
<1>5. ASSUME NEW n \in 0..(N - 1), n \in T PROVE n + 1 \in T
  <2>1. /\ n \in Nat /\ n + 1 \in 1..N /\ n + 1 \in 0..N /\ n \in 0..N /\ (n + 1) - 1 = n
    BY <1>2
  <2>2. h[n] \in KahnStates(tasks) /\ h[n + 1] = VisitNext(tasks, h[n])
    BY <1>3, <2>1
  <2>3. KahnInv(tasks, h[n]) /\ (Len(h[n].ordered) = n \/ h[n].queue = <<>>)
    BY <1>5
  <2>4. CASE h[n].queue = <<>>
    BY <2>1, <2>2, <2>3, <2>4, VisitedState
  <2>5. CASE h[n].queue # <<>>
    BY <2>1, <2>2, <2>3, <2>5, KahnSteps
  <2> QED BY <2>4, <2>5
<1>6. N \in T
  <2> HIDE DEF T
  <2>1. 0..N \subseteq T
    BY <1>2, <1>4, <1>5, BoundedInduction
  <2> QED BY <1>2, <2>1
<1> DEFINE s == Visits(tasks)
<1>7. s \in KahnStates(tasks) /\ KahnInv(tasks, s)
  BY <1>2, <1>3, <1>6
<1>8. Len(s.ordered) = N \/ s.queue = <<>>
  BY <1>3, <1>6
<1> HIDE DEF s
<1>9. ASSUME s.queue # <<>> PROVE FALSE
  <2>1. Head(s.queue) \in ToSet(s.queue)
    BY <1>7, <1>9, TailSet DEF KahnStates
  <2>2. Head(s.queue) \in IdSet(tasks) \ IdSet(s.ordered)
    BY <1>7, <2>1 DEF KahnInv
  <2>3. Len(tasks) \in Nat \ {0}
    <3>1. DOMAIN tasks # {}
      BY <2>2 DEF IdSet
    <3> QED BY <3>1
  <2>4. Len(s.ordered) <= Len(tasks) /\ Len(s.ordered) = 2 * Len(tasks)
    BY <1>7, <1>8, <1>9, OrderedCount DEF N
  <2> QED BY <2>3, <2>4
<1> QED BY <1>7, <1>9 DEF s

\* Kahn's algorithm orders every list whose dependencies are known and acyclic.
LEMMA KahnOrders ==
    ASSUME NEW tasks \in Seq(Tasks), IsInjective(Ids(tasks)),
           NamedBy(tasks, "deps") \subseteq IdSet(tasks), ~HasCycle(tasks)
    PROVE  LET o == KahnSort(tasks)
           IN  /\ Len(o) = Len(tasks) /\ ToSet(o) = ToSet(tasks) /\ IsInjective(Ids(o))
               /\ \A i \in DOMAIN o : o[i].deps \subseteq {o[j].id : j \in 1..(i - 1)}
<1> DEFINE s == Visits(tasks)
           E == IdSet(s.ordered)
           S == IdSet(tasks) \ E
<1>1. s \in KahnStates(tasks) /\ KahnInv(tasks, s) /\ s.queue = <<>>
  BY QueueRunsEmpty
<1>2. KahnSort(tasks) = s.ordered
  BY DEF KahnSort
<1> HIDE DEF s
<1>3. \A id \in S : ~(TaskById(tasks, id).deps \subseteq E)
  BY <1>1 DEF KahnInv, ToSet
<1>4. \A t \in ToSet(tasks) : t.deps \subseteq IdSet(tasks)
  BY DEF NamedBy, FieldSet, Fields, ToSet
<1> HIDE DEF E
<1>5. ASSUME S # {} PROVE HasCycle(tasks)
  <2>1. ASSUME NEW id \in S
        PROVE  \E i \in DOMAIN tasks :
                  /\ tasks[i].id = id /\ tasks[i].deps \cap S # {}
                  /\ \A j \in DOMAIN tasks : tasks[j].id = id => j <= i
    <3>1. PICK i \in DOMAIN tasks : tasks[i].id = id
      BY DEF IdSet
    <3>2. tasks[i] \in ToSet(tasks)
      BY DEF ToSet
    <3>3. TaskById(tasks, id) = tasks[i]
      BY <3>1, <3>2, TaskOfId
    <3>4. tasks[i].deps \cap S # {}
      BY <1>3, <1>4, <3>2, <3>3
    <3>5. \A j \in DOMAIN tasks : tasks[j].id = id => j = i
      BY <3>1 DEF IsInjective, Ids
    <3>6. i <= i
      OBVIOUS
    <3> QED BY <3>1, <3>4, <3>5, <3>6
  <2>2. S \in (SUBSET IdSet(tasks)) \ {{}}
    BY <1>5
  <2> HIDE DEF S
  <2> QED BY <2>1, <2>2 DEF HasCycle
<1>6. E = IdSet(tasks)
  BY <1>1, <1>5, OrderedCount DEF E
<1>7. ToSet(tasks) \subseteq ToSet(s.ordered)
  <2> SUFFICES ASSUME NEW t \in ToSet(tasks) PROVE t \in ToSet(s.ordered)
    OBVIOUS
  <2>1. t.id \in IdSet(s.ordered)
    BY <1>6, IdsOf DEF E
  <2>2. PICK i \in DOMAIN s.ordered : s.ordered[i].id = t.id
    BY <2>1 DEF IdSet
  <2>3. s.ordered[i] \in ToSet(tasks) /\ s.ordered[i] \in ToSet(s.ordered)
    BY <1>1 DEF KahnInv, ToSet
  <2> QED BY <2>2, <2>3, UniqueTask
<1>8. Len(s.ordered) = Len(tasks)
  BY <1>1, <1>6, OrderedCount DEF E
<1>9. /\ ToSet(s.ordered) = ToSet(tasks) /\ IsInjective(Ids(s.ordered))
      /\ \A i \in DOMAIN s.ordered :
            s.ordered[i].deps \subseteq {s.ordered[j].id : j \in 1..(i - 1)}
  BY <1>1, <1>7 DEF KahnInv
<1> QED BY <1>2, <1>8, <1>9

-----------------------------------------------------------------------------
(***************************************************************************)
(* From the gate to the developer: what a blocking gate passes can be      *)
(* scheduled.                                                              *)
(***************************************************************************)
\* A report of a gate that blocks on errors passes no list of tasks with one.
LEMMA PassedTasks ==
    ASSUME NEW d, NEW p, NEW md, NEW files, NEW gate, Blocking(gate),
           ~SentBack(DesignReport(d, p, md, files, gate), gate)
    PROVE  TaskRules(d) = {}
<1> DEFINE vs == DesignViolations(d, p, md, files, gate.strict)
           shown == ApplySemanticBlockOn(vs, gate)
<1>1. DesignReport(d, p, md, files, gate) = Report(vs, HitlRequired(d), gate)
  BY DEF DesignReport, Blocking
<1>2. TaskRules(d) \subseteq vs
  BY DEF DesignViolations
<1> HIDE DEF vs
<1>3. GatePassed(shown, "error", FALSE)
  <2>1. gate.block_on = "error" /\ SentBack(Report(vs, HitlRequired(d), gate), gate) = FALSE
    BY <1>1 DEF Blocking, SentBack
  <2>2. Report(vs, HitlRequired(d), gate).passed = TRUE
    BY <2>1 DEF SentBack, Report
  <2>3. GatePassed(shown, gate.block_on, FALSE)
    BY <2>2 DEF Report
  <2> QED BY <2>1, <2>3
<1>4. ASSUME NEW v \in TaskRules(d) PROVE FALSE
  <2>1. v.level = "error" /\ v.semantic = FALSE
    BY DEF TaskRules, When, Error
  <2>2. v \in shown
    BY <1>2, <2>1 DEF ApplySemanticBlockOn
  <2> HIDE DEF shown
  <2> QED BY <1>3, <2>1, <2>2 DEF GatePassed
<1> QED BY <1>4

\* What the rules on tasks pass, the sort puts in order, every task and file once.
LEMMA PassedDesignIsOrdered ==
    ASSUME NEW d, IsDesign(d), TaskRules(d) = {}
    PROVE  LET o == KahnSort(d.tasks)
           IN  /\ Len(o) = Len(d.tasks) /\ ToSet(o) = ToSet(d.tasks)
               /\ IsInjective(Ids(o)) /\ IsInjective(Fields(o, "path"))
               /\ \A i \in DOMAIN o : o[i].deps \subseteq {o[j].id : j \in 1..(i - 1)}
<1> DEFINE tasks == d.tasks
           o == KahnSort(tasks)
<1>1. tasks \in Seq(Tasks)
  BY DEF IsDesign
<1>2. /\ Repeated(Ids(tasks)) = {} /\ Repeated(Fields(tasks, "path")) = {}
      /\ NamedBy(tasks, "deps") \subseteq IdSet(tasks) /\ ~HasCycle(tasks)
  BY DEF TaskRules, When
<1> HIDE DEF tasks
<1>3. \A seq : Repeated(seq) = {} => IsInjective(seq)
  BY DEF Repeated, IsInjective, ToSet
<1>4. IsInjective(Ids(tasks)) /\ IsInjective(Fields(tasks, "path"))
  BY <1>2, <1>3
<1>5. /\ Len(o) = Len(tasks) /\ ToSet(o) = ToSet(tasks) /\ IsInjective(Ids(o))
      /\ \A i \in DOMAIN o : o[i].deps \subseteq {o[j].id : j \in 1..(i - 1)}
  BY <1>1, <1>2, <1>4, KahnOrders
<1> HIDE DEF o
<1>6. \A i, j \in DOMAIN o : o[i].path = o[j].path => i = j
  <2> SUFFICES ASSUME NEW i \in DOMAIN o, NEW j \in DOMAIN o, o[i].path = o[j].path
               PROVE  i = j
    OBVIOUS
  <2>1. o[i] \in ToSet(tasks) /\ o[j] \in ToSet(tasks)
    BY <1>5 DEF ToSet
  <2>2. PICK a \in DOMAIN tasks : o[i] = tasks[a]
    BY <2>1 DEF ToSet
  <2>3. PICK b \in DOMAIN tasks : o[j] = tasks[b]
    BY <2>1 DEF ToSet
  <2>4. a = b
    BY <1>4, <2>2, <2>3 DEF IsInjective, Fields
  <2> QED BY <1>5, <2>2, <2>3, <2>4 DEF IsInjective, Ids
<1>7. IsInjective(Fields(o, "path"))
  BY <1>6 DEF IsInjective, Fields
<1> QED BY <1>5, <1>7 DEF o, tasks

\* A design past a blocking gate breaks no rule on tasks, up to the sort.
PlanInv ==
    /\ pc \in {"design_hitl", "developer"} /\ Blocking(gates.design) => TaskRules(design) = {}
    /\ PassedDesignIsPlanned

\* The gate establishes it, the person keeps it, the sort relies on it.
LEMMA NextPlan == ArtifactsInv /\ PlanInv /\ [Next]_vars => PlanInv'
<1> SUFFICES ASSUME ArtifactsInv, PlanInv, [Next]_vars PROVE PlanInv'
  OBVIOUS
<1> USE DEF prdVars, designVars, rest
<1>1. CASE DesignValidate
  <2>1. /\ design' = design /\ gates' = gates
        /\ pc' \in {"gate_raised", "design_hitl", "developer", "limit", "architect"}
    BY <1>1 DEF DesignValidate
  <2>2. ASSUME pc' \in {"design_hitl", "developer"}, Blocking(gates.design)
        PROVE  TaskRules(design) = {}
    <3>1. ~SentBack(DesignReport(design, prd, designMd, mmd, gates.design), gates.design)
      BY <1>1, <2>2 DEF DesignValidate
    <3> QED BY <2>2, <3>1, PassedTasks
  <2>3. TaskRules(design)' = TaskRules(design) /\ Blocking(gates.design)' = Blocking(gates.design)
    BY <2>1
  <2> QED BY <2>1, <2>2, <2>3 DEF PlanInv, PassedDesignIsPlanned
<1>2. CASE DesignHitl
  <2>1. design' = design /\ gates' = gates /\ pc = "design_hitl" /\ pc' = "developer"
    BY <1>2 DEF DesignHitl
  <2>2. TaskRules(design)' = TaskRules(design) /\ Blocking(gates.design)' = Blocking(gates.design)
    BY <2>1
  <2> QED BY <2>1, <2>2 DEF PlanInv, PassedDesignIsPlanned
<1>3. CASE Developer
  <2>1. /\ design' = design /\ gates' = gates /\ pc = "developer"
        /\ plan' = KahnSort(design.tasks)
        /\ pc' = IF Len(plan') = Len(design.tasks) THEN "done" ELSE "unschedulable"
    BY <1>3 DEF Developer
  <2>2. IsDesign(design)
    BY <2>1 DEF ArtifactsInv, TypeOK
  <2>3. ASSUME Blocking(gates.design)
        PROVE  /\ pc' = "done" /\ ToSet(plan') = ToSet(design.tasks)
               /\ IsInjective(Ids(plan')) /\ IsInjective(Fields(plan', "path"))
               /\ \A i \in DOMAIN plan' :
                     plan'[i].deps \subseteq {plan'[j].id : j \in 1..(i - 1)}
    <3>1. TaskRules(design) = {}
      BY <2>1, <2>3 DEF PlanInv
    <3> DEFINE o == KahnSort(design.tasks)
    <3>2. /\ Len(o) = Len(design.tasks) /\ ToSet(o) = ToSet(design.tasks)
          /\ IsInjective(Ids(o)) /\ IsInjective(Fields(o, "path"))
          /\ \A i \in DOMAIN o : o[i].deps \subseteq {o[j].id : j \in 1..(i - 1)}
      BY <2>2, <3>1, PassedDesignIsOrdered
    <3>3. plan' = o
      BY <2>1
    <3> HIDE DEF o
    <3> QED BY <2>1, <3>2, <3>3
  <2>4. PassedDesignIsPlanned'
    <3>1. Blocking(gates.design)' = Blocking(gates.design)
      BY <2>1
    <3> QED BY <2>1, <2>3, <3>1 DEF PassedDesignIsPlanned
  <2>5. pc' \notin {"design_hitl", "developer"}
    BY <2>1
  <2> QED BY <2>4, <2>5 DEF PlanInv
<1>4. CASE UNCHANGED vars
  <2>1. /\ design' = design /\ gates' = gates /\ pc' = pc /\ plan' = plan
    BY <1>4 DEF vars
  <2>2. TaskRules(design)' = TaskRules(design) /\ Blocking(gates.design)' = Blocking(gates.design)
    BY <2>1
  <2>3. PassedDesignIsPlanned' = PassedDesignIsPlanned
    BY <2>1, <2>2 DEF PassedDesignIsPlanned
  <2> QED BY <2>1, <2>2, <2>3 DEF PlanInv
<1>5. CASE \/ Pm \/ PmMarkdown \/ PrdValidate \/ PrdHitl \/ Architect
           \/ ArchitectJson \/ ArchitectMarkdown \/ Crash \/ Continue
  <2>1. pc' \notin {"design_hitl", "developer", "done", "unschedulable"}
    BY <1>5 DEF Pm, PmMarkdown, PrdValidate, PrdHitl, Architect, ArchitectJson,
                ArchitectMarkdown, Crash, Continue
  <2> QED BY <2>1 DEF PlanInv, PassedDesignIsPlanned
<1> QED BY <1>1, <1>2, <1>3, <1>4, <1>5 DEF Next

\* What a gate that blocks on errors lets through, Kahn's algorithm sorts, for
\* lists of any length: the cycle check of the gate (design_rules.py) and the
\* sort of the developer (dev_task_scheduler.py) agree.
THEOREM PassedDesignsAreOrdered == Spec => []PassedDesignIsPlanned
<1>1. Init => PlanInv
  BY DEF Init, PlanInv, PassedDesignIsPlanned
<1>2. PlanInv => PassedDesignIsPlanned
  BY DEF PlanInv
<1>3. ArtifactsInv /\ PlanInv /\ [Next]_vars => (ArtifactsInv /\ PlanInv)'
  BY NextArtifacts, NextPlan
<1> QED BY <1>1, <1>2, <1>3, InitArtifacts, PTL DEF Spec
-----------------------------------------------------------------------------
(***************************************************************************)
(* A PRD that passed can be designed: PlainDesign breaks no rule of the    *)
(* design gate, and the enrichment has nothing to add to it.               *)
(***************************************************************************)
\* What the rules read of the plain design.
LEMMA PlainFields ==
    ASSUME NEW p
    PROVE  LET d == PlainDesign(p)
           IN  /\ DesignFields \subseteq DOMAIN d
               /\ d.tasks = <<PlainTask>> /\ d.cases = PlainCases(p)
               /\ d.modules = <<[name |-> "app", path |-> PlainPath, domain |-> "APP",
                                 described |-> TRUE]>>
               /\ d.nonGoals /\ d.contextView /\ d.crossCutting
               /\ d.nonFunctional /\ d.transactions /\ ~d.topTestStrategy
               /\ d.summary = "text" /\ d.strategy = "text" /\ d.delta = "text"
               /\ d.goals = {"sentence"} /\ d.trace = PlainTrace(p)
               /\ d.mentions = {} /\ d.filePlan = {} /\ d.tables = {}
               /\ d.entities = "columns" /\ d.deps = <<[kind |-> "none", domain |-> "none"]>>
               /\ d.errors = {[code |-> "E1", domain |-> "APP", wellFormed |-> TRUE,
                               anchored |-> FALSE]}
               /\ d.diagrams = {[kind |-> kind, file |-> "flow.mmd"] :
                                    kind \in {"sequence", "flowchart"}}
               /\ d.interfaces = <<[module |-> "app", operations |-> "complete",
                                    errors |-> {"E1"}]>>
BY DEF PlainDesign, DesignFields

\* The one task, which no escaping path holds.
LEMMA PlainTaskIsTask == PlainTask \in Tasks /\ PlainPath \notin EscapingPaths
<1>1. PlainPath \in TaskPaths /\ PlainPath \notin EscapingPaths
  BY TasksAssumption DEF PlainPath
<1>2. (CHOOSE id \in TaskIds : TRUE) \in TaskIds
  BY TasksAssumption
<1>3. {} \in {D \in SUBSET TaskIds : IsFiniteSet(D)}
  BY FS_EmptySet
<1> QED BY <1>1, <1>2, <1>3 DEF PlainTask, Tasks

LEMMA PlainIsDesign == ASSUME NEW p PROVE IsDesign(PlainDesign(p))
<1> DEFINE d == PlainDesign(p)
<1>1. /\ DesignFields \subseteq DOMAIN d
      /\ d.tasks = <<PlainTask>> /\ d.summary = "text" /\ d.delta = "text"
      /\ d.trace = PlainTrace(p)
  BY PlainFields
<1> HIDE DEF d
<1>2. d.tasks \in Seq(Tasks)
  BY <1>1, PlainTaskIsTask
<1>3. \A row \in d.trace : {"ref", "kind", "feature"} \subseteq DOMAIN row
  BY <1>1 DEF PlainTrace, PlainRow
<1>4. IsDesign(d)
  BY <1>1, <1>2, <1>3 DEF IsDesign, Texts
<1> QED BY <1>4 DEF d


\* The rows have their references, the diagrams their names.
LEMMA PlainRows ==
    ASSUME NEW p
    PROVE  /\ {CoerceRow(row) : row \in PlainTrace(p)} = PlainTrace(p)
           /\ \A x \in {[kind |-> kind, file |-> "flow.mmd"] :
                            kind \in {"sequence", "flowchart"}} :
                  [x EXCEPT !.kind = DiagramAlias(x.kind)] = x
<1>1. ASSUME NEW row \in PlainTrace(p) PROVE CoerceRow(row) = row
  <2>1. PICK id, kind : row = PlainRow(id, kind)
    BY DEF PlainTrace
  <2>2. id = "none" => [row EXCEPT !.ref = row.feature] = row
    BY <2>1 DEF PlainRow
  <2>3. row.ref = id
    BY <2>1 DEF PlainRow
  <2> QED BY <2>2, <2>3 DEF CoerceRow
<1>2. ASSUME NEW kind \in {"sequence", "flowchart"},
             NEW x, x = [kind |-> kind, file |-> "flow.mmd"]
      PROVE  [x EXCEPT !.kind = DiagramAlias(x.kind)] = x
  <2>1. DiagramAlias(x.kind) = kind
    BY <1>2 DEF DiagramAlias
  <2> QED BY <1>2, <2>1
<1> QED BY <1>1, <1>2

\* The coercion and the enrichment leave it as it is.
LEMMA PlainIsComplete ==
    ASSUME NEW p
    PROVE  Enrich(CoerceDesign(PlainDesign(p)), p) = PlainDesign(p)
<1> DEFINE d == PlainDesign(p)
           c == CoerceDesign(d)
<1>1. /\ d = [x \in DOMAIN d |-> d[x]] /\ DesignFields \subseteq DOMAIN d
      /\ d.tasks = <<PlainTask>> /\ d.nonGoals = TRUE /\ d.contextView = TRUE
      /\ d.crossCutting = TRUE /\ d.strategy = "text" /\ d.delta = "text"
      /\ d.goals = {"sentence"} /\ d.trace = PlainTrace(p) /\ d.entities = "columns"
      /\ d.diagrams = {[kind |-> kind, file |-> "flow.mmd"] :
                           kind \in {"sequence", "flowchart"}}
  BY PlainFields DEF PlainDesign
<1> HIDE DEF d
<1>2. /\ MergedStrategy(d) = "text"
      /\ (IF d.delta = "none" THEN d.topDelta ELSE d.delta) = "text"
      /\ (d.crossCutting \/ d.topTestStrategy) = TRUE
      /\ {CoerceRow(row) : row \in d.trace} = PlainTrace(p)
      /\ (IF d.entities = "aliased" THEN "columns" ELSE d.entities) = "columns"
      /\ {[x EXCEPT !.kind = DiagramAlias(x.kind)] : x \in d.diagrams} = d.diagrams
  <2>1. MergedStrategy(d) = "text"
    BY <1>1 DEF MergedStrategy
  <2>2. {[x EXCEPT !.kind = DiagramAlias(x.kind)] : x \in d.diagrams} = d.diagrams
    <3>1. \A x \in d.diagrams : [x EXCEPT !.kind = DiagramAlias(x.kind)] = x
      BY <1>1, PlainRows, Zenon
    <3> QED BY <3>1
  <2> QED BY <1>1, <2>1, <2>2, PlainRows
<1>3. c = d
  <2>1. c = [d EXCEPT !.strategy = "text", !.delta = "text", !.crossCutting = TRUE,
                      !.trace = PlainTrace(p), !.entities = "columns",
                      !.diagrams = d.diagrams]
    BY <1>2, Zenon DEF CoerceDesign
  <2>2. c = [x \in DOMAIN d |-> d[x]]
    BY <1>1, <2>1
  <2> QED BY <1>1, <2>2
<1>4. /\ DedupeByPath(d.tasks) = <<PlainTask>>
      /\ {CoerceRow(row) : row \in d.trace} = PlainTrace(p)
      /\ ExpandGoals(d.goals) = {"sentence"}
      /\ Architecture(d, p).strategy = "text" /\ Architecture(d, p).delta = "text"
  <2>1. <<PlainTask>> \in Seq(Tasks)
    BY PlainTaskIsTask
  <2>2. IsInjective(Fields(<<PlainTask>>, "path"))
    BY DEF IsInjective, Fields
  <2>3. DedupeByPath(d.tasks) = <<PlainTask>>
    BY <1>1, <2>1, <2>2, DedupedTasks
  <2>4. ExpandGoals(d.goals) = {"sentence"}
    BY <1>1 DEF ExpandGoals
  <2> QED BY <1>1, <1>2, <2>3, <2>4 DEF Architecture, Filled
<1>5. ~(d.goals \subseteq {"blank"})
  BY <1>1
<1>6. Enrich(d, p) = [d EXCEPT !.tasks = <<PlainTask>>, !.trace = PlainTrace(p),
                               !.nonGoals = TRUE, !.goals = {"sentence"},
                               !.contextView = TRUE, !.strategy = "text",
                               !.delta = "text", !.crossCutting = TRUE]
  BY <1>4, <1>5, Zenon DEF Enrich
<1>7. Enrich(d, p) = [x \in DOMAIN d |-> d[x]]
  BY <1>1, <1>6
<1>8. Enrich(c, p) = d
  BY <1>1, <1>3, <1>7
<1> QED BY <1>8 DEF d
\* A field of a list's members is a field of its elements.
LEMMA FieldsOfMembers ==
    ASSUME NEW items, NEW field
    PROVE  /\ FieldSet(items, field) = {x[field] : x \in ToSet(items)}
           /\ NamedBy(items, field) = UNION {x[field] : x \in ToSet(items)}
BY DEF NamedBy, FieldSet, Fields, ToSet

\* Tasks, overview, trace and paths.
LEMMA PlainTasks ==
    ASSUME NEW p
    PROVE  LET d == PlainDesign(p)
           IN  TaskRules(d) = {} /\ OverviewRules(d) = {} /\ PathRules(d) = {}
<1> DEFINE d == PlainDesign(p)
<1>1. /\ d.tasks = <<PlainTask>>
      /\ d.modules = <<[name |-> "app", path |-> PlainPath, domain |-> "APP",
                        described |-> TRUE]>>
      /\ d.nonGoals /\ d.contextView /\ d.crossCutting
      /\ d.strategy = "text" /\ d.delta = "text" /\ d.goals = {"sentence"}
      /\ d.filePlan = {}
  BY PlainFields
<1> HIDE DEF d
<1>2. PlainTask.path = PlainPath /\ PlainTask.deps = {} /\ PlainTask.described
  BY DEF PlainTask
<1>3. TaskRules(d) = {}
  <2>1. /\ d.tasks # <<>> /\ DOMAIN d.tasks = {1} /\ d.tasks[1] = PlainTask
        /\ ToSet(d.tasks) = {PlainTask}
    BY <1>1 DEF ToSet
  <2>2. Repeated(Ids(d.tasks)) = {} /\ Repeated(Fields(d.tasks, "path")) = {}
    BY <2>1 DEF Repeated, Ids, Fields
  <2>3. ~Some(d.tasks, LAMBDA t : ~t.described)
    BY <1>2, <2>1 DEF Some
  <2>4. NamedBy(d.tasks, "deps") = {}
    <3>1. NamedBy(d.tasks, "deps") = UNION {x["deps"] : x \in {PlainTask}}
      BY <2>1, FieldsOfMembers
    <3> QED BY <1>2, <3>1
  <2>5. ~HasCycle(d.tasks)
    BY <1>2, <2>1 DEF HasCycle
  <2> QED BY <2>1, <2>2, <2>3, <2>4, <2>5 DEF TaskRules, When
<1>4. OverviewRules(d) = {}
  BY <1>1 DEF OverviewRules, When, Filled
<1>5. PathRules(d) = {}
  <2>1. FieldSet(d.tasks, "path") = {PlainPath} /\ FieldSet(d.modules, "path") = {PlainPath}
    BY <1>1, <1>2 DEF FieldSet, Fields, ToSet
  <2> QED BY <1>1, <2>1, PlainTaskIsTask DEF PathRules, When
<1> QED BY <1>3, <1>4, <1>5 DEF d

\* Every criterion and every P0 feature has its row, and there is a row at all
\* if there is a criterion.
LEMMA PlainTraces ==
    ASSUME NEW p, IsPrd(p), p.criteria # <<>>
    PROVE  TraceRules(PlainDesign(p), p) = {}
<1> DEFINE d == PlainDesign(p)
<1>1. d.trace = PlainTrace(p) /\ d.nonFunctional /\ d.mentions = {}
  BY PlainFields
<1> HIDE DEF d
<1>2. \A id, kind : /\ PlainRow(id, kind).ref = id /\ PlainRow(id, kind).kind = kind
                    /\ PlainRow(id, kind).feature = "none"
  BY DEF PlainRow
<1>3. d.trace # {}
  <2>1. p.criteria \in Seq(ToSet(p.criteria))
    BY DEF IsPrd, IsList
  <2>2. 1 \in DOMAIN p.criteria
    BY <2>1
  <2>3. p.criteria[1].id \in IdSet(p.criteria)
    BY <2>2 DEF IdSet
  <2> QED BY <1>1, <2>3 DEF PlainTrace
<1>4. "none" \notin IdSet(Priority0(p))
  <2>1. p.features \in Seq(ToSet(p.features)) /\ "none" \notin IdSet(p.features)
    BY DEF IsPrd, IsList
  <2>2. ToSet(Priority0(p)) \subseteq ToSet(p.features)
    BY <2>1, KeptList DEF Priority0
  <2>3. \A items : IdSet(items) = {x.id : x \in ToSet(items)}
    BY DEF IdSet, ToSet
  <2> QED BY <2>1, <2>2, <2>3
<1>5. IdSet(Priority0(p)) \subseteq TracedRefs(d)
  <2>1. ASSUME NEW id \in IdSet(Priority0(p)) PROVE id \in TracedRefs(d)
    <3>1. PlainRow(id, "FEAT") \in d.trace
      BY <1>1 DEF PlainTrace
    <3>2. id # "none" /\ PlainRow(id, "FEAT").ref = id
      BY <1>2, <1>4
    <3> QED BY <3>1, <3>2 DEF TracedRefs
  <2> QED BY <2>1
<1>6. IdSet(p.criteria) \subseteq CoveredCriteria(d)
  <2>1. ASSUME NEW id \in IdSet(p.criteria) PROVE id \in CoveredCriteria(d)
    <3>1. PlainRow(id, "AC") \in d.trace
      BY <1>1 DEF PlainTrace
    <3> QED BY <1>2, <3>1 DEF CoveredCriteria
  <2> QED BY <2>1
<1>7. TraceRules(d, p) = {}
  BY <1>1, <1>3, <1>5, <1>6 DEF TraceRules, When
<1> QED BY <1>7 DEF d
\* Its test cases, one by one.
PlainCaseSet(p) ==
    {PlainCase(p, "HAP", "happy", "c1", "none"), PlainCase(p, "HAP", "happy", "c2", "none"),
     PlainCase(p, "NEG", "negative", "none", "E1"),
     PlainCase(p, "BND", "boundary", "none", "none")}

LEMMA PlainCasesList ==
    ASSUME NEW p
    PROVE  /\ PlainCases(p) \in Seq(PlainCaseSet(p)) /\ PlainCases(p) # <<>>
           /\ ToSet(PlainCases(p)) = PlainCaseSet(p)
<1> DEFINE a == PlainCase(p, "HAP", "happy", "c1", "none")
           b == PlainCase(p, "HAP", "happy", "c2", "none")
           c == PlainCase(p, "NEG", "negative", "none", "E1")
           e == PlainCase(p, "BND", "boundary", "none", "none")
<1>1. PlainCases(p) = <<a, b, c, e>> /\ PlainCaseSet(p) = {a, b, c, e}
  BY DEF PlainCases, PlainCaseSet
<1> HIDE DEF a, b, c, e
<1>2. ToSet(<<a, b, c, e>>) = {a, b, c, e}
  BY DEF ToSet
<1> QED BY <1>1, <1>2

\* What each of them holds.
LEMMA PlainCaseFields ==
    ASSUME NEW p, NEW segment, NEW kind, NEW class, NEW error
    PROVE  LET c == PlainCase(p, segment, kind, class, error)
           IN  /\ c.segment = segment /\ c.kind = kind /\ c.class = class /\ c.error = error
               /\ c.domain = "APP" /\ c.evidence = "SEM" /\ c.steps /\ c.input
               /\ c.covers = IdSet(p.criteria) \cup IdSet(p.semantics)
               /\ c.proves = NamedBy(p.semantics, "dimensions")
               /\ c.values = NamedBy(p.semantics, "oneOf")
BY DEF PlainCase

\* Modules, dependencies, storage, diagrams and tables.
LEMMA PlainCompleteness ==
    ASSUME NEW p
    PROVE  LET d == PlainDesign(p)
           IN  /\ ModuleRules(d) = {} /\ CompletenessRules(d, p) = {} /\ TableRules(d) = {}
<1> DEFINE d == PlainDesign(p)
<1>1. /\ d.modules = <<[name |-> "app", path |-> PlainPath, domain |-> "APP",
                        described |-> TRUE]>>
      /\ d.deps = <<[kind |-> "none", domain |-> "none"]>> /\ d.tables = {}
      /\ d.transactions /\ d.entities = "columns" /\ d.cases = PlainCases(p)
      /\ d.errors = {[code |-> "E1", domain |-> "APP", wellFormed |-> TRUE,
                      anchored |-> FALSE]}
      /\ d.diagrams = {[kind |-> kind, file |-> "flow.mmd"] :
                           kind \in {"sequence", "flowchart"}}
  BY PlainFields
<1> HIDE DEF d
<1>2. ModuleRules(d) = {}
  BY <1>1 DEF ModuleRules, When, Some
<1>3. TableRules(d) = {}
  BY <1>1 DEF TableRules, When
<1>4. CompletenessRules(d, p) = {}
  <2>1. d.deps # <<>> /\ d.errors # {} /\ d.cases # <<>>
    BY <1>1, PlainCasesList
  <2>2. IdSet(p.criteria) \subseteq NamedBy(d.cases, "covers")
    <3> DEFINE c == PlainCase(p, "HAP", "happy", "c1", "none")
    <3>1. c["covers"] = IdSet(p.criteria) \cup IdSet(p.semantics)
      BY PlainCaseFields
    <3>2. c \in ToSet(d.cases)
      BY <1>1, PlainCasesList DEF PlainCaseSet
    <3> HIDE DEF c
    <3>3. NamedBy(d.cases, "covers") = UNION {x["covers"] : x \in ToSet(d.cases)}
      BY FieldsOfMembers
    <3> QED BY <3>1, <3>2, <3>3
  <2>3. {"sequence", "flowchart"} \subseteq {x.kind : x \in d.diagrams}
    <3>1. ASSUME NEW kind \in {"sequence", "flowchart"} PROVE kind \in {x.kind : x \in d.diagrams}
      <4>1. [kind |-> kind, file |-> "flow.mmd"] \in d.diagrams
        BY <1>1
      <4>2. [kind |-> kind, file |-> "flow.mmd"].kind = kind
        OBVIOUS
      <4> QED BY <4>1, <4>2, Zenon
    <3> QED BY <3>1
  <2> QED BY <1>1, <2>1, <2>2, <2>3 DEF CompletenessRules, When
<1> QED BY <1>2, <1>3, <1>4 DEF d

\* The catalogue and the test cases fit each other, so no test id raises.
LEMMA PlainErrors ==
    ASSUME NEW p
    PROVE  LET d == PlainDesign(p)
           IN  ErrorRules(d) = {} /\ CaseRules(d) = {} /\ ~RaisesOnCaseId(d)
<1> DEFINE d == PlainDesign(p)
           tested == PlainCase(p, "NEG", "negative", "none", "E1")
<1>1. /\ d.cases = PlainCases(p)
      /\ d.errors = {[code |-> "E1", domain |-> "APP", wellFormed |-> TRUE,
                      anchored |-> FALSE]}
  BY PlainFields
<1> HIDE DEF d
<1>2. d.cases \in Seq(PlainCaseSet(p)) /\ ToSet(d.cases) = PlainCaseSet(p)
  BY <1>1, PlainCasesList
<1>3. Codes(d) = {"E1"} /\ ~\E e \in d.errors : ~e.wellFormed
  BY <1>1 DEF Codes
<1>4. \A c \in PlainCaseSet(p) : c.error \in {"E1", "none"} /\ c.segment \in DOMAIN KindOfSegment
                                 /\ c.kind = KindOfSegment[c.segment]
                                 /\ c.segment # "no_hyphen"
  BY PlainCaseFields DEF PlainCaseSet, KindOfSegment
<1>5. "E1" \in FieldSet(Cases(d, "negative"), "error")
  <2>1. tested \in PlainCaseSet(p) /\ tested.kind = "negative" /\ tested["error"] = "E1"
    BY PlainCaseFields DEF PlainCaseSet
  <2> HIDE DEF tested
  <2>2. ToSet(Cases(d, "negative"))
            = ToSet(d.cases) \cap {c \in ToSet(d.cases) : c.kind = "negative"}
    BY <1>2, KeptList DEF Cases
  <2>3. tested \in ToSet(Cases(d, "negative"))
    BY <1>2, <2>1, <2>2
  <2> QED BY <2>1, <2>3, FieldsOfMembers
<1>6. FieldSet(d.cases, "error") \subseteq {"E1", "none"}
  <2>1. FieldSet(d.cases, "error") = {c["error"] : c \in PlainCaseSet(p)}
    BY <1>2, FieldsOfMembers
  <2> QED BY <1>4, <2>1
<1>7. ErrorRules(d) = {}
  BY <1>3, <1>5, <1>6 DEF ErrorRules, When
<1>8. \A i \in DOMAIN d.cases : d.cases[i] \in PlainCaseSet(p)
  BY <1>2
<1>9. {"happy", "negative", "boundary"} \subseteq FieldSet(d.cases, "kind")
  <2>1. FieldSet(d.cases, "kind") = {c["kind"] : c \in PlainCaseSet(p)}
    BY <1>2, FieldsOfMembers
  <2> QED BY <2>1, PlainCaseFields DEF PlainCaseSet
<1>10. CaseRules(d) = {} /\ ~RaisesOnCaseId(d)
  BY <1>4, <1>8, <1>9 DEF CaseRules, When, Some, RaisesOnCaseId
<1> QED BY <1>7, <1>10 DEF d
\* Domains: the one module's is registered, and no dependency is real.
LEMMA PlainDomains ==
    ASSUME NEW p
    PROVE  DomainRules(PlainDesign(p)) = {}
<1> DEFINE d == PlainDesign(p)
<1>1. /\ d.modules = <<[name |-> "app", path |-> PlainPath, domain |-> "APP",
                        described |-> TRUE]>>
      /\ d.deps = <<[kind |-> "none", domain |-> "none"]>> /\ d.cases = PlainCases(p)
      /\ d.errors = {[code |-> "E1", domain |-> "APP", wellFormed |-> TRUE,
                      anchored |-> FALSE]}
  BY PlainFields
<1> HIDE DEF d
<1>2. ModuleDomains(d) = {"APP"}
  BY <1>1 DEF ModuleDomains, FieldSet, Fields, ToSet
<1>3. ~DuplicateDomain(d.modules)
  BY <1>1 DEF DuplicateDomain
<1>4. ToSet(RealDeps(d)) = {}
  <2>1. d.deps \in Seq({[kind |-> "none", domain |-> "none"]})
    BY <1>1
  <2>2. \A x \in ToSet(d.deps) : x.kind = "none"
    BY <1>1 DEF ToSet
  <2>3. ToSet(RealDeps(d)) = ToSet(d.deps) \cap {x \in ToSet(d.deps) : x.kind # "none"}
    BY <2>1, KeptList DEF RealDeps
  <2> QED BY <2>2, <2>3
<1>5. DOMAIN RealDeps(d) = {}
  BY <1>4 DEF ToSet
<1>6. "APP" \in RegisteredDomains(d)
  BY <1>2 DEF RegisteredDomains
<1>7. \A e \in d.errors : e.domain = "APP"
  BY <1>1
<1>8. FieldSet(d.cases, "domain") = {"APP"}
  <2>1. \A c \in PlainCaseSet(p) : c["domain"] = "APP"
    BY PlainCaseFields DEF PlainCaseSet
  <2>2. ToSet(d.cases) = PlainCaseSet(p) /\ PlainCaseSet(p) # {}
    BY <1>1, PlainCasesList DEF PlainCaseSet
  <2>3. FieldSet(d.cases, "domain") = {c["domain"] : c \in PlainCaseSet(p)}
    BY <2>2, FieldsOfMembers
  <2> QED BY <2>1, <2>2, <2>3
<1>9. \A i \in DOMAIN Cases(d, "negative") : Cases(d, "negative")[i].domain = "APP"
  <2>1. d.cases \in Seq(PlainCaseSet(p))
    BY <1>1, PlainCasesList
  <2>2. Cases(d, "negative") \in Seq(PlainCaseSet(p))
    BY <2>1, KeptList DEF Cases
  <2>3. \A c \in PlainCaseSet(p) : c.domain = "APP"
    BY PlainCaseFields DEF PlainCaseSet
  <2> QED BY <2>2, <2>3
<1>10. ~Some(Cases(d, "negative"), LAMBDA c :
            \E e \in d.errors : /\ e.code = c.error
                                /\ "none" \notin {c.domain, e.domain}
                                /\ e.domain # c.domain)
  BY <1>7, <1>9 DEF Some
<1>11. ~Some(RealDeps(d), LAMBDA x :
                \/ x.kind # "filesystem" /\ x.domain \in BadDomains \cup {"none"}
                \/ x.kind \in Middleware /\ x.domain \in ModuleDomains(d)
                \/ /\ x.kind = "filesystem"
                   /\ x.domain \notin {"none"} \cup ModuleDomains(d))
  BY <1>5 DEF Some
<1>12. {e.domain : e \in d.errors} \subseteq {"APP"}
  BY <1>7
<1>13. DomainRules(d) = {}
  BY <1>2, <1>3, <1>6, <1>8, <1>10, <1>11, <1>12, DomainsAssumption DEF DomainRules, When
<1> QED BY <1>13 DEF d

\* Interfaces: the module has one, which is complete and names a known code.
LEMMA PlainInterfaces ==
    ASSUME NEW p
    PROVE  InterfaceRules(PlainDesign(p)) = {}
<1> DEFINE d == PlainDesign(p)
           module == [name |-> "app", path |-> PlainPath, domain |-> "APP", described |-> TRUE]
           face == [module |-> "app", operations |-> "complete", errors |-> {"E1"}]
           public == Kept(d.modules, {m \in ToSet(d.modules) : m.domain # "SYS"})
           used(m) == Kept(d.interfaces, {f \in ToSet(d.interfaces) : f.module = m})
<1>1. /\ d.modules = <<module>> /\ d.interfaces = <<face>>
      /\ d.errors = {[code |-> "E1", domain |-> "APP", wellFormed |-> TRUE,
                      anchored |-> FALSE]}
  BY PlainFields
<1>2. /\ module.name = "app" /\ face.module = "app" /\ face.operations = "complete"
      /\ face.errors = {"E1"}
  OBVIOUS
<1> HIDE DEF d, module, face
<1>3. Codes(d) = {"E1"}
  BY <1>1 DEF Codes
<1>4. \A i \in DOMAIN public : public[i].name = "app"
  <2>1. d.modules \in Seq({module})
    BY <1>1
  <2>2. public \in Seq({module})
    BY <2>1, KeptList
  <2> HIDE DEF public
  <2> QED BY <1>2, <2>2
<1>5. used("app") \in Seq({face}) /\ used("app") # <<>>
  <2>1. d.interfaces \in Seq({face}) /\ ToSet(d.interfaces) = {face}
    BY <1>1 DEF ToSet
  <2>2. used("app") \in Seq({face})
    BY <2>1, KeptList
  <2>3. ToSet(used("app")) = ToSet(d.interfaces) \cap {f \in ToSet(d.interfaces) : f.module = "app"}
    BY <2>1, KeptList
  <2>4. face \in ToSet(used("app"))
    BY <1>2, <2>1, <2>3
  <2> HIDE DEF used
  <2> QED BY <2>2, <2>4 DEF ToSet
<1>6. \A j \in DOMAIN used("app") : used("app")[j] = face
  <2> HIDE DEF used
  <2> QED BY <1>5
<1> HIDE DEF public
<1>7. ~Some(public, LAMBDA m : used(m.name) = <<>>)
  <2> HIDE DEF used
  <2> QED BY <1>4, <1>5 DEF Some
<1>8. ~Some(public, LAMBDA m : Some(used(m.name), LAMBDA f : f.operations # "complete"))
  <2> HIDE DEF used
  <2> QED BY <1>2, <1>4, <1>6 DEF Some
<1>9. ~Some(public, LAMBDA m : Some(used(m.name), LAMBDA f : ~(f.errors \subseteq Codes(d))))
  <2> HIDE DEF used
  <2> QED BY <1>2, <1>3, <1>4, <1>6 DEF Some
<1>10. InterfaceRules(d) = {}
  BY <1>7, <1>8, <1>9, Zenon DEF InterfaceRules, When, public
<1> QED BY <1>10 DEF d

\* Diagrams: every file that is there holds both kinds.
LEMMA PlainDiagrams ==
    ASSUME NEW p, NEW old, NEW strict
    PROVE  MermaidRules(PlainDesign(p), p, Merged(old, DiagramFiles(PlainAnswer(p, old))),
                        strict) = {}
<1> DEFINE d == PlainDesign(p)
           new == [f \in DOMAIN old \cup {"flow.mmd"} |-> {"sequence", "flowchart"}]
           files == Merged(old, new)
<1>1. d.diagrams = {[kind |-> kind, file |-> "flow.mmd"] : kind \in {"sequence", "flowchart"}}
  BY PlainFields
<1>2. DiagramFiles(PlainAnswer(p, old)) = new
  <2>1. PlainAnswer(p, old).mmd_files = new
    BY DEF PlainAnswer
  <2>2. DOMAIN new # {}
    OBVIOUS
  <2> QED BY <2>1, <2>2 DEF DiagramFiles
<1> HIDE DEF d
<1>3. /\ DOMAIN files = DOMAIN old \cup {"flow.mmd"}
      /\ \A f \in DOMAIN files : files[f] = {"sequence", "flowchart"}
  BY DEF Merged
<1> HIDE DEF files, new
<1>4. "flow.mmd" \in DOMAIN files
  BY <1>3
<1>5. {"sequence", "flowchart"} \subseteq UNION {files[f] : f \in DOMAIN files}
  BY <1>3, <1>4
<1>6. ~\E f \in DOMAIN files : files[f] = {"empty"}
  BY <1>3
<1>7. \A x \in d.diagrams : x.file = "flow.mmd" /\ x.kind \in {"sequence", "flowchart"}
  BY <1>1
<1>8. {"sequence", "flowchart"} \subseteq {x.kind : x \in d.diagrams}
  <2>1. ASSUME NEW kind \in {"sequence", "flowchart"} PROVE kind \in {x.kind : x \in d.diagrams}
    <3>1. [kind |-> kind, file |-> "flow.mmd"] \in d.diagrams
      BY <1>1
    <3>2. [kind |-> kind, file |-> "flow.mmd"].kind = kind
      OBVIOUS
    <3> QED BY <3>1, <3>2, Zenon
  <2> QED BY <2>1
<1>9. MermaidRules(d, p, files, strict) = {}
  BY <1>3, <1>4, <1>5, <1>6, <1>7, <1>8 DEF MermaidRules, Graded, When
<1> QED BY <1>2, <1>9 DEF d, files
\* One semantic constraint: all four test cases are for it.
LEMMA PlainConstraint ==
    ASSUME NEW p, NEW s \in ToSet(p.semantics)
    PROVE  LET d == PlainDesign(p)
           IN  /\ KindRules(d, s) = {} /\ ExcludeRules(d, s) = {}
               /\ s.id \in NamedBy(d.cases, "covers")
<1> DEFINE d == PlainDesign(p)
           related == CasesFor(d, s)
           happy == Kept(related, {c \in ToSet(related) : c.kind = "happy"})
           shown == Kept(happy, {c \in ToSet(happy) : c.evidence # "none"})
           one == PlainCase(p, "HAP", "happy", "c1", "none")
           two == PlainCase(p, "HAP", "happy", "c2", "none")
           refused == PlainCase(p, "NEG", "negative", "none", "E1")
           edge == PlainCase(p, "BND", "boundary", "none", "none")
<1>1. d.cases \in Seq(PlainCaseSet(p)) /\ ToSet(d.cases) = PlainCaseSet(p)
  BY PlainFields, PlainCasesList
<1> HIDE DEF d
<1>2. PlainCaseSet(p) = {one, two, refused, edge}
  BY DEF PlainCaseSet
<1>3. /\ one.kind = "happy" /\ two.kind = "happy" /\ refused.kind = "negative"
      /\ edge.kind = "boundary" /\ one.class = "c1" /\ two.class = "c2"
  BY PlainCaseFields
<1>4. \A c \in PlainCaseSet(p) :
          /\ c.evidence = "SEM" /\ c.steps /\ c.input
          /\ c.covers = IdSet(p.criteria) \cup IdSet(p.semantics)
          /\ c.proves = NamedBy(p.semantics, "dimensions")
          /\ c.values = NamedBy(p.semantics, "oneOf")
  BY PlainCaseFields DEF PlainCaseSet
<1> HIDE DEF one, two, refused, edge
<1>5. s.id \in IdSet(p.semantics)
  BY DEF IdSet, ToSet
<1>6. related \in Seq(PlainCaseSet(p)) /\ ToSet(related) = PlainCaseSet(p)
  <2>1. ToSet(related) = ToSet(d.cases) \cap
            {c \in ToSet(d.cases) : s.id \in c.covers \/ c.evidence = s.id}
    BY <1>1, KeptList DEF CasesFor
  <2>2. related \in Seq(PlainCaseSet(p))
    BY <1>1, KeptList DEF CasesFor
  <2> QED BY <1>1, <1>4, <1>5, <2>1, <2>2
<1> HIDE DEF related
<1>7. happy \in Seq(PlainCaseSet(p)) /\ ToSet(happy) = {one, two}
  <2>1. /\ happy \in Seq(PlainCaseSet(p))
        /\ ToSet(happy) = ToSet(related) \cap {c \in ToSet(related) : c.kind = "happy"}
    BY <1>6, KeptList
  <2> HIDE DEF happy
  <2> QED BY <1>2, <1>3, <1>6, <2>1
<1> HIDE DEF happy
<1>8. ToSet(shown) = {one, two}
  <2>1. ToSet(shown) = ToSet(happy) \cap {c \in ToSet(happy) : c.evidence # "none"}
    BY <1>7, KeptList
  <2> HIDE DEF shown
  <2> QED BY <1>2, <1>4, <1>7, <2>1
<1> HIDE DEF shown
<1>9. EnoughClasses(shown)
  <2>1. FieldSet(shown, "class") = {c["class"] : c \in {one, two}}
    BY <1>8, FieldsOfMembers
  <2>2. FieldSet(shown, "class") \ {"none"} = {"c1", "c2"}
    BY <1>3, <2>1
  <2>3. Cardinality({"c1", "c2"}) = 2
    <3>1. IsFiniteSet({"c1"}) /\ Cardinality({"c1"}) = 1
      BY FS_Singleton
    <3>2. Cardinality({"c1"} \cup {"c2"}) = 2
      BY <3>1, FS_AddElement
    <3>3. {"c1"} \cup {"c2"} = {"c1", "c2"}
      OBVIOUS
    <3> QED BY <3>2, <3>3
  <2> QED BY <2>2, <2>3 DEF EnoughClasses
<1>10. \A items, field : one \in ToSet(items) => one[field] \subseteq NamedBy(items, field)
  BY FieldsOfMembers
<1>11. s.dimensions \subseteq NamedBy(shown, "proves") /\ s.oneOf \subseteq NamedBy(happy, "values")
  <2>1. /\ s["dimensions"] \subseteq NamedBy(p.semantics, "dimensions")
        /\ s["oneOf"] \subseteq NamedBy(p.semantics, "oneOf")
    BY FieldsOfMembers
  <2>2. /\ one["proves"] = NamedBy(p.semantics, "dimensions")
        /\ one["values"] = NamedBy(p.semantics, "oneOf")
    BY <1>2, <1>4
  <2>3. one["proves"] \subseteq NamedBy(shown, "proves")
    BY <1>8, <1>10
  <2>4. one["values"] \subseteq NamedBy(happy, "values")
    BY <1>7, <1>10
  <2> QED BY <2>1, <2>2, <2>3, <2>4
<1>12. ~Some(happy, LAMBDA c : ~c.input)
  BY <1>4, <1>7 DEF Some
<1>13. InputShapeRules(d, s) = {}
  BY <1>9, <1>11, <1>12, Zenon DEF InputShapeRules, When, shown, happy, related
<1>14. FieldSet(related, "kind") = {"happy", "negative", "boundary"}
  <2>1. FieldSet(related, "kind") = {c["kind"] : c \in {one, two, refused, edge}}
    BY <1>2, <1>6, FieldsOfMembers
  <2> QED BY <1>3, <2>1
<1>15. related # <<>> /\ Some(related, LAMBDA c : c.steps)
  <2>1. \E i \in DOMAIN related : related[i] = one
    BY <1>2, <1>6 DEF ToSet
  <2> QED BY <1>2, <1>4, <2>1 DEF Some
<1>16. KindRules(d, s) = {}
  BY <1>13, <1>14, <1>15, Zenon DEF KindRules, When, related
<1>17. refused \in ToSet(Cases(d, "negative"))
  <2>1. ToSet(Cases(d, "negative"))
            = ToSet(d.cases) \cap {c \in ToSet(d.cases) : c.kind = "negative"}
    BY <1>1, KeptList DEF Cases
  <2> QED BY <1>1, <1>2, <1>3, <2>1
<1>18. ExcludeRules(d, s) = {}
  <2>1. PICK i \in DOMAIN Cases(d, "negative") : Cases(d, "negative")[i] = refused
    BY <1>17 DEF ToSet
  <2>2. s.id \in refused.covers
    BY <1>2, <1>4, <1>5
  <2> QED BY <2>1, <2>2 DEF ExcludeRules, When, Some
<1>19. s.id \in NamedBy(d.cases, "covers")
  <2>1. one["covers"] \subseteq NamedBy(d.cases, "covers")
    BY <1>1, <1>2, <1>10
  <2>2. s.id \in one["covers"]
    BY <1>2, <1>4, <1>5
  <2> QED BY <2>1, <2>2
<1> QED BY <1>16, <1>18, <1>19 DEF d

\* All of them.
LEMMA PlainSemantics ==
    ASSUME NEW p, IsPrd(p)
    PROVE  DesignSemanticRules(PlainDesign(p), p) = {}
<1> DEFINE d == PlainDesign(p)
           checked == CheckedSemantics(p)
<1>1. d.errors = {[code |-> "E1", domain |-> "APP", wellFormed |-> TRUE, anchored |-> FALSE]}
  BY PlainFields
<1>2. \A s \in ToSet(checked) : s \in ToSet(p.semantics)
  <2>1. p.semantics \in Seq(ToSet(p.semantics))
    BY DEF IsPrd, IsList
  <2> QED BY <2>1, KeptList DEF CheckedSemantics
<1>3. \A s \in ToSet(checked) : /\ KindRules(d, s) = {} /\ ExcludeRules(d, s) = {}
                                /\ s.id \in NamedBy(d.cases, "covers")
  BY <1>2, PlainConstraint
<1> HIDE DEF d, checked
<1>4. (UNION {KindRules(d, s) \cup ExcludeRules(d, s) : s \in ToSet(checked)}) = {}
  BY <1>3
<1>5. IdSet(checked) \subseteq NamedBy(d.cases, "covers")
  BY <1>3 DEF IdSet, ToSet
<1>6. ~\E e \in d.errors : e.anchored
  BY <1>1
<1>7. DesignSemanticRules(d, p) = {}
  BY <1>4, <1>5, <1>6, Zenon DEF DesignSemanticRules, When, checked
<1> QED BY <1>7 DEF d
\* Of a PRD without a criterion the strict gate says so.
LEMMA PassedHasCriteria ==
    ASSUME NEW p, NEW md, NEW gate \in Gates,
           PrdReport(p, md, [gate EXCEPT !.block_on = "error", !.enabled = TRUE]).passed
    PROVE  p.criteria # <<>>
<1> DEFINE strict == [gate EXCEPT !.block_on = "error", !.enabled = TRUE]
           vs == PrdViolations(p, md)
<1>1. strict.block_on = "error" /\ strict.enabled = TRUE
  BY DEF Gates
<1> HIDE DEF strict
<1>2. Report(vs, FALSE, strict).passed
  BY <1>1 DEF PrdReport, strict
<1>3. GatePassed(ApplySemanticBlockOn(vs, strict), "error", FALSE)
  BY <1>1, <1>2 DEF Report
<1> SUFFICES ASSUME p.criteria = <<>> PROVE FALSE
  OBVIOUS
<1>4. Error("PRD-001") \in vs
  BY DEF PrdViolations, ScopeAndCriteria, When
<1>5. Error("PRD-001").semantic = FALSE /\ Error("PRD-001").level = "error"
  BY DEF Error
<1> HIDE DEF vs
<1>6. Error("PRD-001") \in ApplySemanticBlockOn(vs, strict)
  BY <1>4, <1>5 DEF ApplySemanticBlockOn
<1> QED BY <1>3, <1>5, <1>6 DEF GatePassed

\* The order of the tasks is at most warned about.
LEMMA PlanHarmless == ASSUME NEW d PROVE Harmless(ExecutionPlanRules(d))
<1>1. \A v \in ExecutionPlanRules(d) : \E rule : v = Warn(rule)
  BY DEF ExecutionPlanRules, When
<1>2. \A rule : Warn(rule).level = "warn"
                /\ [Warn(rule) EXCEPT !.level = "warn"].level = "warn"
  BY DEF Warn
<1> QED BY <1>1, <1>2 DEF Harmless

\* A report of warnings passes every gate.
LEMMA HarmlessPasses ==
    ASSUME NEW vs, Harmless(vs), NEW flagged, NEW gate
    PROVE  Report(vs, flagged, gate).passed
<1>1. ApplySemanticBlockOn({}, gate) = {}
  BY DEF ApplySemanticBlockOn
<1>2. Report({}, flagged, gate).passed
  BY <1>1 DEF Report, GatePassed
<1>3. Report({} \cup vs, flagged, gate).passed = Report({}, flagged, gate).passed
  BY WarningsNeverDecide
<1>4. {} \cup vs = vs
  OBVIOUS
<1> QED BY <1>2, <1>3, <1>4

\* So the plain design passes, whatever the gate and the files left behind.
LEMMA PlainPasses ==
    ASSUME NEW p, IsPrd(p), p.criteria # <<>>, NEW old, NEW md, NEW gate
    PROVE  DesignReport(PlainDesign(p), p, md,
                        Merged(old, DiagramFiles(PlainAnswer(p, old))), gate).passed
<1> DEFINE d == PlainDesign(p)
           files == Merged(old, DiagramFiles(PlainAnswer(p, old)))
           vs == DesignViolations(d, p, md, files, gate.strict)
<1>1. /\ TaskRules(d) = {} /\ ModuleRules(d) = {} /\ OverviewRules(d) = {}
      /\ TraceRules(d, p) = {} /\ PathRules(d) = {}
  BY PlainTasks, PlainCompleteness, PlainTraces
<1>2. /\ CompletenessRules(d, p) = {} /\ TableRules(d) = {} /\ ErrorRules(d) = {}
      /\ CaseRules(d) = {} /\ DomainRules(d) = {} /\ InterfaceRules(d) = {}
  BY PlainCompleteness, PlainErrors, PlainDomains, PlainInterfaces
<1>3. MermaidRules(d, p, files, gate.strict) = {} /\ DesignSemanticRules(d, p) = {}
  BY PlainDiagrams, PlainSemantics
<1> HIDE DEF d, files
<1>4. vs = ExecutionPlanRules(d) \cup DesignMdRules(d, p, md)
  BY <1>1, <1>2, <1>3 DEF DesignViolations
<1>5. Harmless(vs)
  BY <1>4, PlanHarmless, DesignMdHarmless, CupHarmless
<1> HIDE DEF vs
<1>6. Harmless({})
  BY DEF Harmless
<1>7. /\ Report(vs, HitlRequired(d), gate).passed
      /\ Report({}, FALSE, gate).passed
  BY <1>5, <1>6, HarmlessPasses
<1>8. DesignReport(d, p, md, files, gate).passed
  BY <1>7 DEF DesignReport, vs
<1> QED BY <1>8 DEF d, files

\* The architect finds a PRD, and the plain design is an answer to it.
LEMMA ArtifactsDesignable == ArtifactsInv => PassedPrdIsDesignable
<1> SUFFICES ASSUME ArtifactsInv, pc = "architect",
                    PrdReport(prd, prdMd, [gates.prd EXCEPT !.block_on = "error",
                                                            !.enabled = TRUE]).passed
             PROVE  PassedPrdIsDesignable
  BY DEF PassedPrdIsDesignable
<1> DEFINE answer == PlainAnswer(prd, mmd)
           written == Enrich(CoerceDesign(answer.design), prd)
<1>1. IsPrd(prd)
  BY PrdIsWritten DEF ArtifactsInv, TypeOK
<1>2. gates.prd \in Gates
  BY DEF ArtifactsInv, TypeOK
<1>3. prd.criteria # <<>>
  BY <1>2, PassedHasCriteria
<1>4. answer.design = PlainDesign(prd)
  BY DEF PlainAnswer
<1>5. written = PlainDesign(prd)
  BY <1>4, PlainIsComplete
<1>6. IsDesign(answer.design) /\ ~RaisesOnCaseId(written)
  BY <1>4, <1>5, PlainIsDesign, PlainErrors
<1>7. DesignReport(written, prd, RenderDesign(written),
                   Merged(mmd, DiagramFiles(answer)), gates.design).passed
  BY <1>1, <1>3, <1>5, PlainPasses
<1> QED BY <1>6, <1>7 DEF PassedPrdIsDesignable

\* No retry of the architect is hopeless: whatever PRD passed the strict gate
\* and whatever diagram files are left, a design made from that PRD alone
\* passes the design gate of every profile (design_rules*.py, mermaid.py,
\* design_semantic_rules.py, design_enrichment.py).
THEOREM PassedPrdsAreDesignable == Spec => []PassedPrdIsDesignable
BY InitArtifacts, NextArtifacts, ArtifactsDesignable, PTL DEF Spec
=============================================================================
