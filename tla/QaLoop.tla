-------------------------------- MODULE QaLoop --------------------------------
(***************************************************************************)
(* One session from the developer to the deployment: the developer writes  *)
(* files, QA runs the profile's commands over code_root, the reviewer      *)
(* reads the report, and each of them may send the developer back with a   *)
(* bundle, or the design back to its author.                               *)
(*                                                                         *)
(* Redesign stands for the PM, the architect and their gates               *)
(* (ValidationGate); continue and the run directory are Pipeline's.        *)
(***************************************************************************)
EXTENDS RetryContext

CONSTANTS
    Profiles,      \* profiles: commands, parsers, policies
    Designs,       \* [tasks, plan, covered, flagged]
    Leftovers,     \* what an earlier session may have left in code_root:
                   \* [code, results, measured]
    Patches(_),    \* what the developer may write, given whether it has a bundle
    Reviews,       \* [written, approved, next_stage, findings]
    MaxRetries,    \* max_impl_retries
    MaxRevisions   \* max_design_revisions

Findings == [file : Paths, fix : BOOLEAN, blocking : BOOLEAN]

ASSUME LimitAssumption == MaxRetries \in Nat /\ MaxRevisions \in Nat
ASSUME InputAssumption ==
    /\ \A p \in Profiles : p.parser \in {"exit_code_only", "events", "junit_xml"}
    /\ \A d \in Designs : d.tasks \subseteq Paths /\ d.plan \subseteq Paths
    /\ \A left \in Leftovers :
          /\ DOMAIN left.code = Paths
          /\ left.results.written => left.results.failing \subseteq Tests
    /\ \A informed \in BOOLEAN : \A patch \in Patches(informed) : DOMAIN patch \subseteq Paths
    /\ \A r \in Reviews : r.written /\ r.findings \in Seq(Findings)

VARIABLES
    pc,
    profile,
    design,
    code,          \* the files under code_root
    results,       \* the JUnit XML there
    measured,      \* the coverage file there
    manifest,      \* dev_manifest.json
    report,        \* test_report.json
    review,        \* review.json
    retries,       \* impl_retry_count
    revisions,     \* design_revision_count
    bundle,        \* the retry_bundle of the developer's last call
    asked,         \* history: the code when that bundle was made
    tested,        \* history: the code and the command's result at the last QA
    snapshots,     \* test_report.impl-<n>.json of this session
    hitl           \* the deploy stage was recorded

root    == <<code, results, measured>>
history == <<asked, tested>>
vars == <<pc, profile, design, root, manifest, report, review, retries,
          revisions, bundle, history, snapshots, hitl>>

Init ==
    /\ pc = "developer"
    /\ profile \in Profiles
    /\ design \in Designs
    /\ \E left \in Leftovers :
          code = left.code /\ results = left.results /\ measured = left.measured
    /\ manifest = Absent /\ report = Absent /\ review = Absent
    /\ retries = 0 /\ revisions = 0
    /\ bundle = Absent /\ asked = code
    /\ tested = Absent
    /\ snapshots = <<>>
    /\ hitl = FALSE

\* What `old` maps, but for what `new` does.
Overlaid(new, old) ==
    [x \in DOMAIN new \cup DOMAIN old |-> IF x \in DOMAIN new THEN new[x] ELSE old[x]]

-----------------------------------------------------------------------------
(***************************************************************************)
(* agents/developer.py: the bundle, the call, the files, the manifest of   *)
(* these files alone.                                                      *)
(***************************************************************************)
Developer ==
    /\ pc = "developer"
    /\ bundle' = RetryBundle(profile, code, design, manifest, report, review, retries)
    /\ asked' = code
    /\ \E patch \in Patches(bundle'.written) :
          /\ code' = Overlaid(patch, code)
          /\ manifest' = [written |-> TRUE, files |-> DOMAIN patch]
    /\ pc' = "qa"
    /\ UNCHANGED <<profile, design, results, measured, report, review, retries,
                   revisions, tested, snapshots, hitl>>

-----------------------------------------------------------------------------
(***************************************************************************)
(* agents/qa.py with decide_after_test.  A report that failed is kept as   *)
(* test_report.impl-<impl_retry_count>.json as well.                       *)
(***************************************************************************)
\* Faulty variant: every failed report goes to the first snapshot.
SnapshotIndexConstant(count) == 0

SnapshotIndex(count) == count

\* Faulty variant: the loop runs once more than it may.
AtRetryLimitOffByOne == retries > MaxRetries

AtRetryLimit == retries >= MaxRetries

RetryDeveloper ==
    IF AtRetryLimit THEN pc' = "limit" /\ UNCHANGED retries
    ELSE pc' = "developer" /\ retries' = retries + 1

\* run_tests: setup or build fails, or the test and coverage commands run.
SetupFails ==
    /\ report' = EarlyReport(profile, DetectTestsMissing(profile, code, design, manifest))
    /\ tested' = [written |-> TRUE, code |-> code, exit |-> 1]
    /\ UNCHANGED <<results, measured>>

TestsRun ==
    \E command \in CommandResults(profile, code), exit \in CoverageExits(profile) :
        /\ results' = ResultsFile(profile, results, command)
        /\ measured' \in MeasuredFiles(profile, measured)
        /\ report' = TestReport(profile, code, design, manifest, command,
                                results', exit, measured')
        /\ tested' = [written |-> TRUE, code |-> code, exit |-> command.exit]

Qa ==
    /\ pc = "qa"
    /\ SetupFails \/ TestsRun
    /\ IF report'.passed
       THEN pc' = "reviewer" /\ UNCHANGED <<retries, snapshots>>
       ELSE /\ snapshots' = Overlaid([n \in {SnapshotIndex(retries)} |-> report'], snapshots)
            /\ RetryDeveloper
    /\ UNCHANGED <<profile, design, code, manifest, review, revisions, bundle,
                   asked, hitl>>

-----------------------------------------------------------------------------
(***************************************************************************)
(* agents/reviewer.py and decide_after_review.                             *)
(***************************************************************************)
Reviewer ==
    /\ pc = "reviewer"
    /\ review' \in Reviews
    /\ pc' = "route_after_reviewer"
    /\ UNCHANGED <<profile, design, root, manifest, report, retries, revisions,
                   bundle, history, snapshots, hitl>>

ReviewDeploys == review.next_stage = "deploy" /\ review.approved

\* Back to the architect: what was built on the design leaves the state, but
\* impl_retry_count stays.
Escalate ==
    IF revisions >= MaxRevisions
    THEN pc' = "limit" /\ UNCHANGED <<revisions, manifest, report, review>>
    ELSE /\ pc' = "redesign"
         /\ revisions' = revisions + 1
         /\ manifest' = Absent /\ report' = Absent /\ review' = Absent

RouteAfterReviewer ==
    /\ pc = "route_after_reviewer"
    /\ \/ /\ ReviewDeploys
          /\ pc' = "deploy_hitl"
          /\ UNCHANGED <<manifest, report, review, retries, revisions>>
       \/ /\ ~ReviewDeploys
          /\ review.next_stage \in {"deploy", "developer"}
          /\ RetryDeveloper
          /\ UNCHANGED <<manifest, report, review, revisions>>
       \/ /\ review.next_stage = "architect"
          /\ Escalate
          /\ UNCHANGED retries
    /\ UNCHANGED <<profile, design, root, bundle, history, snapshots, hitl>>

Redesign ==
    /\ pc = "redesign"
    /\ design' \in Designs
    /\ pc' = "developer"
    /\ UNCHANGED <<profile, root, manifest, report, review, retries, revisions,
                   bundle, history, snapshots, hitl>>

-----------------------------------------------------------------------------
(***************************************************************************)
(* nodes/deploy_hitl.py and nodes/deploy.py.                               *)
(***************************************************************************)
DeployHitlRequired ==
    \/ design.flagged
    \/ manifest.files \cap profile.sensitive # {}

DeployHitl ==
    /\ pc = "deploy_hitl"
    /\ hitl' = DeployHitlRequired
    /\ pc' = "deploy"
    /\ UNCHANGED <<profile, design, root, manifest, report, review, retries,
                   revisions, bundle, history, snapshots>>

Deploy ==
    /\ pc = "deploy"
    /\ pc' = "done"
    /\ UNCHANGED <<profile, design, root, manifest, report, review, retries,
                   revisions, bundle, history, snapshots, hitl>>

Next ==
    \/ Developer \/ Qa \/ Reviewer \/ RouteAfterReviewer \/ Redesign
    \/ DeployHitl \/ Deploy

Spec == Init /\ [][Next]_vars

-----------------------------------------------------------------------------
(***************************************************************************)
(* Properties.                                                             *)
(***************************************************************************)
\* Both loops keep to their limits, and a node has what it reads.
TypeOK ==
    /\ pc \in {"developer", "qa", "reviewer", "route_after_reviewer", "redesign",
               "deploy_hitl", "deploy", "done", "limit"}
    /\ retries \in 0..MaxRetries /\ revisions \in 0..MaxRevisions
    /\ DOMAIN code = Paths
    /\ pc = "qa" => manifest.written
    /\ pc \in {"reviewer", "route_after_reviewer", "deploy_hitl", "deploy", "done"}
         => report.written /\ manifest.written
    /\ DOMAIN snapshots \subseteq 0..retries

\* What is deployed is the code QA ran its commands on, and they succeeded on
\* it: neither a file an earlier command left behind nor a report of an
\* earlier version lets other code through (run_tests.py, junit_xml.py).
DeployedCodeWasTested ==
    pc \in {"deploy_hitl", "deploy", "done"} =>
        report.passed /\ tested.code = code /\ tested.exit = 0 /\ FailingTests(code) = {}

\* The reason that is logged for a report agrees with the gates that made it:
\* a report that blocks has one, and the gates it names did block
\* (qa_diagnostics.py against run_tests.py).
FailuresAreClassified ==
    report.written =>
        LET reason == BlockReason(report, profile)
        IN /\ report.passed <=> reason = "passed"
           /\ reason # "unknown"
           /\ reason \in {"tests_missing", "coverage"} => ToolchainOk(report)

\* A developer that gets a bundle is shown the code that was refused, and the
\* refusal: a report that failed, or the review that did not approve.  (One
\* that approves and names the developer all the same is not in the bundle.)
RetryIsInformed ==
    pc = "qa" /\ bundle.written =>
        /\ tested.code = asked
        /\ bundle.report = report /\ report.written
        /\ \/ QaFailed(report)
           \/ review.written /\ ~review.approved /\ bundle.review = review
           \/ review.written /\ review.approved

\* A test or a review that sent the developer back reaches it: every retry on
\* the same design has a bundle.
RejectionReachesDeveloper ==
    pc = "qa" /\ retries > 0 /\ revisions = 0 => bundle.written

\* However many failures, frames and findings there are, the budget holds.
ContextWithinBudget ==
    bundle.written =>
        /\ bundle.context.lines <= MaxLines
        /\ bundle.context.functions <= MaxFunctions
        /\ Cardinality(bundle.context.files) <= MaxFiles

\* A file that was asked for and can be read is shown or named as left out.
NothingDroppedSilently ==
    bundle.written =>
        \A p \in bundle.wanted :
            Present(asked, p) => p \in bundle.context.files
                                         \cup bundle.context.omittedPaths
                                         \cup bundle.context.omittedFrames

\* A snapshot of this session is never overwritten by a later failure, though
\* redesigns keep impl_retry_count where it is (agents/qa.py).
SnapshotsKept ==
    [][\A n \in DOMAIN snapshots : n \in DOMAIN snapshots' /\ snapshots'[n] = snapshots[n]]_vars
=============================================================================
