------------------------------- MODULE QaReport -------------------------------
(***************************************************************************)
(* What QA makes of the code under code_root (tools/run_tests.py and the   *)
(* parsers and detectors it calls): which sources lack a test, what the    *)
(* profile's test and coverage commands leave behind, and the test_report  *)
(* that follows from it.                                                   *)
(*                                                                         *)
(* `code` maps a path to what is in the file: "good", "wrong" (a test of   *)
(* it, or the test itself, fails), "inline" (good, with inline tests) or   *)
(* "absent".  `results` and `measured` are the files the commands write,   *)
(* which stay in code_root from one run to the next: the failing tests of  *)
(* the JUnit XML, and the coverage ("none": no file).                      *)
(***************************************************************************)
EXTENDS Naturals, SequencesExt, FiniteSetsExt

CONSTANTS
    Sources,   \* paths with a suffix of the profile's language, no tests
    Exempt,    \* those named __init__, main, mod or lib
    Others,    \* further paths: documents, configuration
    TestFiles, \* the test files, in the order the runner reports them
    Subject    \* the source whose stem a test file bears

ASSUME PathsAssumption ==
    /\ IsFiniteSet(Sources \cup Others) /\ Exempt \subseteq Sources
    /\ TestFiles \in Seq(ToSet(TestFiles))
    /\ Subject \in [ToSet(TestFiles) -> Sources]

Tests == ToSet(TestFiles)
Paths == Sources \cup Others \cup Tests

Present(code, p) == code[p] # "absent"

\* A file that is not there, for the manifest and the results.
Absent == [written |-> FALSE]

-----------------------------------------------------------------------------
(***************************************************************************)
(* tests_missing.py.  design = [tasks, plan]: the paths of dev_tasks and   *)
(* of file_plan; manifest: the files dev_manifest.json says are changed.   *)
(***************************************************************************)
DevTaskPaths(design, manifest) ==
    IF ~manifest.written \/ design.tasks \cap manifest.files = {}
    THEN design.tasks
    ELSE design.tasks \cap manifest.files

ManifestPaths(manifest) == IF manifest.written THEN manifest.files \ Tests ELSE {}

\* The first collection that is not empty; tests among the dev_tasks stay in.
SourcePaths(scope, design, manifest) ==
    IF scope = "dev_tasks" /\ design.tasks # {} THEN DevTaskPaths(design, manifest)
    ELSE IF ManifestPaths(manifest) # {} THEN ManifestPaths(manifest)
    ELSE design.plan \ Tests

\* The stem of a test file counts as it is and without its mark.
HasMatchingTest(code, p, inlineTests) ==
    \/ p \in Exempt
    \/ inlineTests /\ code[p] = "inline"
    \/ \E t \in Tests : Present(code, t) /\ p \in {t, Subject[t]}

DetectTestsMissing(profile, code, design, manifest) ==
    IF ~profile.missing.enabled \/ ~profile.missing.glob THEN {}
    ELSE {p \in SourcePaths(profile.missing.scope, design, manifest) \ Others :
             ~HasMatchingTest(code, p, profile.missing.inline)}

-----------------------------------------------------------------------------
(***************************************************************************)
(* The test command: a process of the toolchain.  It runs the tests, or    *)
(* dies before it writes anything.                                         *)
(***************************************************************************)
FailingTests(code) ==
    {t \in Tests : /\ Present(code, t)
                   /\ code[t] = "wrong" \/ code[Subject[t]] \in {"wrong", "absent"}}

PresentTests(code) == {t \in Tests : Present(code, t)}

\* pytest exits with 5 when it collects nothing, the other runners with 0.
Finished(profile, code) ==
    LET failing == FailingTests(code)
        ok == failing = {} /\ (PresentTests(code) # {} \/ profile.tolerant)
    IN [exit |-> IF ok THEN 0 ELSE 1, seen |-> PresentTests(code),
        failing |-> failing, wrote |-> TRUE]

Died == [exit |-> 1, seen |-> {}, failing |-> {}, wrote |-> FALSE]

CommandResults(profile, code) == {Finished(profile, code), Died}

ResultsFile(profile, old, command) ==
    IF profile.parser = "junit_xml" /\ command.wrote
    THEN [written |-> TRUE, failing |-> command.failing] ELSE old

-----------------------------------------------------------------------------
(***************************************************************************)
(* test_parsers: exit_code, summary.failed, the ids in failures, and whose *)
(* output raw_output_tail holds.                                           *)
(***************************************************************************)
Parsed(command, failed, failures) ==
    [exit |-> command.exit, failed |-> failed, failures |-> failures,
     tail |-> command.failing]

\* The verdict of the exit code, with one failure that stands for it.
ByExitCode(command, id) ==
    IF command.exit = 0 THEN Parsed(command, 0, {}) ELSE Parsed(command, 1, {id})

ParseExitCodeOnly(command) == ByExitCode(command, "exit_code")

\* go_json, cargo_json and forge_json read what the command printed.
ParseEvents(command) ==
    IF command.seen = {} THEN ByExitCode(command, "no_events")
    ELSE Parsed(command, Cardinality(command.failing), command.failing)

\* junit_xml reads the files that are there, whoever wrote them.
ParseJunitXml(command, results) ==
    IF results.written THEN Parsed(command, Cardinality(results.failing), results.failing)
    ELSE ByExitCode(command, "junit_xml_missing")

ParseTests(profile, command, results) ==
    CASE profile.parser = "exit_code_only" -> ParseExitCodeOnly(command)
      [] profile.parser = "events"         -> ParseEvents(command)
      [] profile.parser = "junit_xml"      -> ParseJunitXml(command, results)

-----------------------------------------------------------------------------
(***************************************************************************)
(* Coverage: the command may fail and may leave the old file; any          *)
(* violation, thresholds or not, makes coverage.passed false.              *)
(***************************************************************************)
Measurements == {"low", "high"}

MeasuredFiles(profile, old) ==
    IF profile.coverage.enabled THEN {old} \cup Measurements ELSE {old}

CoverageExits(profile) == IF profile.coverage.enabled THEN {0, 1} ELSE {0}

CoverageReport(profile, exit, measured) ==
    IF ~profile.coverage.enabled THEN "none"
    ELSE IF /\ measured # "none" /\ exit = 0
            /\ profile.coverage.threshold => measured = "high"
         THEN "passed" ELSE "failed"

-----------------------------------------------------------------------------
(***************************************************************************)
(* ac_traceability.py: the designed criteria that are not met.             *)
(***************************************************************************)
ToolchainIgnoringExitCode(parsed) == parsed.failed = 0

ToolchainOk(parsed) == parsed.exit = 0 /\ parsed.failed = 0

UnmetCriteria(profile, design, parsed) ==
    IF ~profile.trace.enabled \/ ToolchainOk(parsed) THEN {} ELSE design.covered

TraceabilityBlocks(unmet, profile) == profile.trace.block_on /\ unmet # {}

(***************************************************************************)
(* _finalize_test_report and classify_qa_block_reason.                     *)
(***************************************************************************)
MissingBlocks(missing, profile) ==
    missing # {} /\ profile.missing.enabled /\ profile.missing.block_on

CoverageBlocks(coverage, profile) ==
    coverage = "failed" /\ profile.coverage.enabled /\ profile.coverage.block_on

WithPassed(passed, parsed, missing, coverage, unmet) ==
    [written |-> TRUE, passed |-> passed, exit |-> parsed.exit,
     failed |-> parsed.failed, failures |-> parsed.failures, tail |-> parsed.tail,
     missing |-> missing, coverage |-> coverage, unmet |-> unmet]

\* Faulty variant: coverage blocks whatever coverage.block_on says.
FinalizeBlockingOnCoverage(profile, parsed, missing, coverage, unmet) ==
    WithPassed(/\ ToolchainOk(parsed)
               /\ ~MissingBlocks(missing, profile)
               /\ coverage # "failed"
               /\ ~TraceabilityBlocks(unmet, profile),
               parsed, missing, coverage, unmet)

FinalizeTestReport(profile, parsed, missing, coverage, unmet) ==
    WithPassed(/\ ToolchainOk(parsed)
               /\ ~MissingBlocks(missing, profile)
               /\ ~CoverageBlocks(coverage, profile)
               /\ ~TraceabilityBlocks(unmet, profile),
               parsed, missing, coverage, unmet)

\* Setup or build failed: no tests, no coverage, no traceability.
EarlyReport(profile, missing) ==
    FinalizeTestReport(profile, ParseExitCodeOnly(Died), missing, "none", {})

TestReport(profile, code, design, manifest, command, results, exit, measured) ==
    LET parsed == ParseTests(profile, command, results)
    IN FinalizeTestReport(profile, parsed,
           DetectTestsMissing(profile, code, design, manifest),
           CoverageReport(profile, exit, measured),
           UnmetCriteria(profile, design, parsed))

BlockReason(report, profile) ==
    IF report.passed THEN "passed"
    ELSE IF ~ToolchainOk(report) THEN "toolchain"
    ELSE IF MissingBlocks(report.missing, profile) THEN "tests_missing"
    ELSE IF CoverageBlocks(report.coverage, profile) THEN "coverage"
    ELSE IF TraceabilityBlocks(report.unmet, profile) THEN "acceptance_traceability"
    ELSE "unknown"
=============================================================================
