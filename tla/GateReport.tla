------------------------------ MODULE GateReport ------------------------------
(***************************************************************************)
(* The report of a validation gate: violations with their severities, the  *)
(* verdict drawn from them under a profile's policy, and what an agent is  *)
(* told of them.  A violation is a rule and a severity; several of one     *)
(* rule and severity are one here, since only their presence decides.      *)
(***************************************************************************)
EXTENDS SequencesExt, FiniteSetsExt

BlockOn == {"error", "warn", "never"}

\* ValidationGateConfig; "unset" is semantic_block_on = None,
\* strict is validate_mermaid.
Gates == [enabled : BOOLEAN, block_on : BlockOn, require_hitl : BOOLEAN,
          semantic_block_on : BlockOn \cup {"unset"}, strict : BOOLEAN]

\* semantic: the rule id starts with PRD-S or DES-S.
Error(rule)     == [rule |-> rule, level |-> "error", semantic |-> FALSE]
Warn(rule)      == [rule |-> rule, level |-> "warn",  semantic |-> FALSE]
SemError(rule)  == [rule |-> rule, level |-> "error", semantic |-> TRUE]
SemWarn(rule)   == [rule |-> rule, level |-> "warn",  semantic |-> TRUE]

When(condition, violation) == IF condition THEN {violation} ELSE {}

Errors(violations) == {v \in violations : v.level = "error"}
RulesOf(violations) == {v.rule : v \in violations}

\* Text as the rules see it: absent or empty, only white space, what the agent
\* wrote, or what a normalizer put in its place.
Texts == {"none", "blank", "text", "default"}
Filled(text) == text \in {"text", "default"}

Repeated(seq) == {x \in ToSet(seq) : \E i, j \in DOMAIN seq :
                                        i # j /\ seq[i] = x /\ seq[j] = x}

-----------------------------------------------------------------------------
ApplySemanticBlockOn(violations, gate) ==
    IF gate.semantic_block_on = "warn"
    THEN {IF v.semantic THEN [v EXCEPT !.level = "warn"] ELSE v : v \in violations}
    ELSE violations

\* Faulty variant: block_on = warn is read as "block on warnings".
GatePassedWarnBlocks(violations, block_on, semantic) ==
    \/ block_on = "never"
    \/ \A v \in violations : v.semantic = semantic =>
           v.level # "error" /\ block_on # "warn"

\* Faulty variant: any violation fails the gate.
GatePassedOnlyClean(violations, block_on, semantic) ==
    \/ block_on = "never"
    \/ \A v \in violations : v.semantic # semantic

GatePassed(violations, block_on, semantic) ==
    \/ block_on = "never"
    \/ \A v \in violations : v.semantic = semantic => v.level # "error"

EffectiveSemantic(gate) ==
    IF gate.semantic_block_on = "unset" THEN gate.block_on
    ELSE gate.semantic_block_on

\* build_gate_validation_report.
Report(violations, requireHitl, gate) ==
    LET normalized == ApplySemanticBlockOn(violations, gate)
    IN [passed |-> /\ GatePassed(normalized, gate.block_on, FALSE)
                   /\ GatePassed(normalized, EffectiveSemantic(gate), TRUE),
        violations |-> normalized,
        require_hitl |-> requireHitl]

NoReport == [passed |-> FALSE, violations |-> {}, require_hitl |-> FALSE]

\* Routing after a gate: a failed report sends the work back under "error" only.
SentBack(report, gate) == ~report.passed /\ gate.block_on = "error"

-----------------------------------------------------------------------------
\* format_*_validation_feedback: all violations of a failed report, or nothing.
FailureFeedback(report) == IF report.passed THEN {} ELSE report.violations

\* format_semantic_advisories: what a passed report still says about meaning.
SemanticAdvisories(report) == {v \in report.violations : v.semantic}
=============================================================================
