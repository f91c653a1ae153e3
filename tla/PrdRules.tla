------------------------------- MODULE PrdRules -------------------------------
(***************************************************************************)
(* The rules of the PRD gate (validators/prd_*.py) over an abstract PRD,   *)
(* and prd.md as renderers/prd_md.py writes it.  A free text is the set of *)
(* ids and keywords that occur in it; a regular expression over a text is  *)
(* a Boolean field of the item.  Rules that pydantic makes unfirable (a    *)
(* profile that is None, a revision below 1) are left out.                 *)
(***************************************************************************)
EXTENDS GateReport, Lists

CONSTANTS
    Within,        \* <<id, other>>: the text of the first is part of the second
    CriterionIds,  \* the strings that match AC-\d+
    ScopeKeywords  \* the texts _SCOPE_OUT_KEYWORDS finds something in

ASSUME WithinAssumption == \A pair \in Within : pair = <<pair[1], pair[2]>>

\* _text_refs_id: a substring test, so that US-1 is found in US-10.
TextRefs(text, id) == id \in text \/ \E word \in text : <<id, word>> \in Within

Ids(items) == [i \in DOMAIN items |-> items[i].id]
IdSet(items) == {items[i].id : i \in DOMAIN items}
Some(items, Test(_)) == \E i \in DOMAIN items : Test(items[i])
Every(items, Test(_)) == \A i \in DOMAIN items : Test(items[i])

Priority0(prd) == Kept(prd.features, {f \in ToSet(prd.features) : f.p0})

-----------------------------------------------------------------------------
(***************************************************************************)
(* prd_rules.py.                                                           *)
(***************************************************************************)
ScopeAndCriteria(prd) ==
    When(prd.criteria = <<>>, Error("PRD-001"))
    \cup When(Repeated(Ids(prd.criteria)) # {}, Error("PRD-002"))
    \cup When(prd.scopeIn = {}, Error("PRD-003"))
    \cup When(~Filled(prd.title) \/ ~Filled(prd.summary), Error("PRD-004"))

ProfileAndContext(prd) ==
    When(prd.profile # "own", Error("PRD-005"))
    \cup When(prd.language # "own", Error("PRD-006"))
    \cup When(~prd.contextFits, Error("PRD-007"))

UniqueIds(prd) ==
    When(\E items \in {prd.stories, prd.requirements, prd.features, prd.metrics} :
            Repeated(Ids(items)) # {}, Error("PRD-008"))
    \cup When(prd.features = <<>>, Error("PRD-009"))
    \cup When(Repeated(Ids(prd.features)) # {}, Error("PRD-010"))
    \cup When(\/ Repeated(Ids(prd.metrics)) # {}
              \/ Some(prd.metrics, LAMBDA m : ~Filled(m.target)), Error("PRD-012"))

-----------------------------------------------------------------------------
(***************************************************************************)
(* prd_rules_extended.py.                                                  *)
(***************************************************************************)
References(prd) ==
    When(prd.storage = "none", Error("PRD-017"))
    \cup When(Some(prd.requirements, LAMBDA r :
                r.feature \notin {"none"} \cup IdSet(prd.features)), Error("PRD-105"))
    \cup When(prd.scopeOut \cap prd.scopeIn # {}, Warn("PRD-103"))
    \cup When(prd.blankConstraint, Warn("PRD-104"))

\* A feature counts as traced when any criterion exists: covered_refs holds
\* the id of every criterion, and the test asks for one of them.
FeatureTrace(prd) ==
    When(Some(Priority0(prd), LAMBDA f :
            ~(\/ f.id \in IdSet(prd.criteria) \cup IdSet(prd.metrics)
              \/ prd.criteria # <<>>)), Warn("PRD-106"))
    \cup When(Some(prd.requirements, LAMBDA r : r.echo) /\ prd.features # <<>>,
              Warn("PRD-107"))

OperationAndConsistency(prd) ==
    When(prd.highConcurrency /\ prd.tier = "best_effort", Warn("PRD-108"))
    \cup When(prd.tier = "custom" /\ ~prd.tierNotes, Warn("PRD-109"))
    \cup When(prd.model = "custom" /\ ~prd.modelNotes, Error("PRD-111"))
    \cup When(prd.model = "eventual" /\ ~prd.modelNotes, Warn("PRD-110"))
    \cup When(prd.multiWriter /\ prd.conflict = "not_applicable", Warn("PRD-112"))
    \cup When(/\ prd.idempotent /\ prd.delivery = "at_least_once"
              /\ ~Some(prd.criteria, LAMBDA c : "retry" \in c.text)
              /\ ~Some(prd.metrics, LAMBDA m : "retry" \in m.text), Warn("PRD-113"))
    \cup When(prd.numbers # "none", Warn("PRD-114"))

Testability(prd) ==
    When(~Some(prd.criteria, LAMBDA c : c.automated), Warn("PRD-201"))
    \cup When(Some(prd.criteria, LAMBDA c : c.text = {}), Error("PRD-101"))
    \cup When(~prd.background, Warn("PRD-119"))
    \cup When(prd.glossary = "poor", Warn("PRD-118"))

\* _p0_user_story_ids: all stories when no P0 feature names one that exists.
P0Stories(prd) ==
    LET named == (UNION {Priority0(prd)[i].stories : i \in DOMAIN Priority0(prd)})
                    \cap IdSet(prd.stories)
    IN IF named = {} /\ Priority0(prd) # <<>> THEN IdSet(prd.stories) ELSE named

StoryTrace(prd) ==
    When(\E s \in P0Stories(prd) :
            /\ ~Some(prd.criteria, LAMBDA c : TextRefs(c.text, s))
            /\ ~Some(prd.metrics, LAMBDA m : m.manual /\ TextRefs(m.text, s)),
         Warn("PRD-102"))

-----------------------------------------------------------------------------
(***************************************************************************)
(* prd_semantic_triggers.py and prd_semantic_rules.py.                     *)
(***************************************************************************)
RequiresSemantics(prd) ==
    \/ prd.interface \in {"api", "web", "form"}
    \/ Some(prd.stories, LAMBDA s : s.freeform)
    \/ Some(prd.features, LAMBDA f : f.freeform)
    \/ prd.glossary = "input"

KnownRefs(prd) ==
    IdSet(prd.stories) \cup IdSet(prd.features) \cup IdSet(prd.requirements)

AllExcludes(prd) ==
    UNION {prd.semantics[i].excludes : i \in DOMAIN prd.semantics}

ConstraintRules(prd) ==
    When(Some(prd.semantics, LAMBDA s : s.source \notin KnownRefs(prd)),
         SemError("PRD-S02"))
    \cup When(\/ Some(prd.semantics, LAMBDA s : ~s.validRules)
              \/ \E x \in AllExcludes(prd) : ~x.validRule, SemWarn("PRD-S02b"))
    \cup When(Some(prd.semantics, LAMBDA s :
                /\ ~Some(prd.criteria, LAMBDA c : TextRefs(c.text, s.id))
                /\ ~Some(prd.requirements, LAMBDA r : TextRefs(r.text, s.id))),
              SemWarn("PRD-S05"))

\* A scoped-out topic wants a structured exclusion or a requirement.
ScopeOutRule(prd) ==
    When(\E item \in prd.scopeOut \cap ScopeKeywords :
            /\ ~\E x \in AllExcludes(prd) :
                   x.text \cap ScopeKeywords # {} \/ TextRefs(x.text, item)
            /\ ~Some(prd.requirements, LAMBDA r : TextRefs(r.text, item)),
         SemWarn("PRD-S03"))

WideFeatureRule(prd) ==
    When(Some(Priority0(prd), LAMBDA f :
            LET linked == SelectSeq(prd.stories, LAMBDA s : s.id \in f.stories)
            IN f.wide /\ linked # <<>> /\ Every(linked, LAMBDA s : s.narrow)),
         SemWarn("PRD-S04"))

PrdSemanticRules(prd, md) ==
    IF prd.semantics = <<>>
    THEN When(RequiresSemantics(prd), SemError("PRD-S01"))
    ELSE ConstraintRules(prd) \cup ScopeOutRule(prd) \cup WideFeatureRule(prd)
            \cup When(md.written /\ ~(IdSet(prd.semantics) \subseteq md.semantics),
                      SemWarn("PRD-S06"))

-----------------------------------------------------------------------------
(***************************************************************************)
(* prd.md: which sections it has, which criteria and which semantic        *)
(* constraints it names.                                                   *)
(***************************************************************************)
PrdSections ==
    {"overview", "acceptance", "scope", "metrics", "features", "nfr", "glossary",
     "background", "stories", "pool", "constraints", "included", "excluded",
     "stability", "consistency", "task_profile", "revision"}

NoPrdMd == [written |-> FALSE, sections |-> {}, criteria |-> {}, semantics |-> {}]

\* render_prd_md: every section always; ids wherever a text carries them.
RenderPrd(prd) ==
    LET texts == {IdSet(prd.criteria)}
                    \cup {prd.criteria[i].text : i \in DOMAIN prd.criteria}
                    \cup {prd.metrics[i].text : i \in DOMAIN prd.metrics}
                    \cup {prd.requirements[i].text : i \in DOMAIN prd.requirements}
    IN [written |-> TRUE, sections |-> PrdSections,
        criteria |-> CriterionIds \cap UNION texts,
        semantics |-> IdSet(prd.semantics)]

\* Faulty variant: a criterion that prd.md does not name is an error.
PrdMdRulesStrict(prd, md) ==
    When(md.criteria # IdSet(prd.criteria), Error("PRD-304"))

PrdMdRules(prd, md) ==
    IF ~md.written THEN {Warn("PRD-301")}
    ELSE When(PrdSections \ md.sections # {}, Warn("PRD-301..316"))
         \cup When(md.criteria # IdSet(prd.criteria), Warn("PRD-304"))

-----------------------------------------------------------------------------
\* run_prd_validate: the three groups of rules, in one list.
PrdViolations(prd, md) ==
    ScopeAndCriteria(prd) \cup ProfileAndContext(prd) \cup UniqueIds(prd)
    \cup References(prd) \cup FeatureTrace(prd) \cup OperationAndConsistency(prd)
    \cup Testability(prd) \cup StoryTrace(prd)
    \cup PrdMdRules(prd, md) \cup PrdSemanticRules(prd, md)

PrdReport(prd, md, gate) ==
    Report(IF gate.enabled THEN PrdViolations(prd, md) ELSE {}, FALSE, gate)

-----------------------------------------------------------------------------
(***************************************************************************)
(* schemas/prd.py and agents/normalizers/prd.py: what stands between the   *)
(* model's JSON and prd.json.  A profile or language the model leaves out  *)
(* or gets wrong is set; glossary entries that are no objects are dropped. *)
(***************************************************************************)
NormalizePrd(prd) == [prd EXCEPT !.profile = "own", !.language = "own"]
=============================================================================
