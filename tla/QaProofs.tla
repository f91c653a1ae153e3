------------------------------- MODULE QaProofs -------------------------------
(***************************************************************************)
(* Theorems about the loop of developer, QA and reviewer, for any profile, *)
(* code, commands that succeed, fail or die, and reviews.                  *)
(***************************************************************************)
EXTENDS QaLoop, SequenceProofs

(***************************************************************************)
(* What a report says of the run it was made from.                         *)
(***************************************************************************)
\* passed is what the gates made of the report's own fields.
Consistent(r) ==
    /\ r.written
    /\ r.passed <=> /\ ToolchainOk(r)
                    /\ ~MissingBlocks(r.missing, profile)
                    /\ ~CoverageBlocks(r.coverage, profile)
                    /\ ~TraceabilityBlocks(r.unmet, profile)

LEMMA FinalizedIsConsistent ==
    ASSUME NEW parsed, NEW missing, NEW coverage, NEW unmet
    PROVE  LET r == FinalizeTestReport(profile, parsed, missing, coverage, unmet)
           IN Consistent(r) /\ r.exit = parsed.exit
BY DEF Consistent, FinalizeTestReport, WithPassed, ToolchainOk

\* Every parser keeps the exit code of the command.
LEMMA ParsersKeepExit ==
    ASSUME profile \in Profiles, NEW command, NEW old
    PROVE  ParseTests(profile, command, old).exit = command.exit
BY InputAssumption DEF ParseTests, ParseExitCodeOnly, ParseEvents, ParseJunitXml,
                       ByExitCode, Parsed

LEMMA SetupReport ==
    ASSUME NEW missing
    PROVE  LET r == EarlyReport(profile, missing)
           IN Consistent(r) /\ ~r.passed
<1>1. ParseExitCodeOnly(Died).exit = 1
  BY DEF ParseExitCodeOnly, ByExitCode, Parsed, Died
<1>2. /\ Consistent(EarlyReport(profile, missing))
      /\ EarlyReport(profile, missing).exit = 1
  BY <1>1, FinalizedIsConsistent DEF EarlyReport
<1> QED BY <1>2 DEF Consistent, ToolchainOk

\* A report that passed was made from a command that succeeded, and such a
\* command ran every test there is and saw none fail.
LEMMA RunReport ==
    ASSUME profile \in Profiles, NEW command \in CommandResults(profile, code),
           NEW old, NEW exit, NEW measurement
    PROVE  LET r == TestReport(profile, code, design, manifest, command, old,
                               exit, measurement)
           IN /\ Consistent(r)
              /\ r.passed => command.exit = 0 /\ FailingTests(code) = {}
<1> DEFINE r == TestReport(profile, code, design, manifest, command, old,
                           exit, measurement)
<1>1. Consistent(r) /\ r.exit = command.exit
  BY FinalizedIsConsistent, ParsersKeepExit DEF TestReport
<1>2. command.exit = 0 => FailingTests(code) = {}
  BY DEF CommandResults, Finished, Died
<1> HIDE DEF r
<1>3. r.passed => r.exit = 0
  BY <1>1 DEF Consistent, ToolchainOk
<1> QED BY <1>1, <1>2, <1>3 DEF r

\* Both ways a QA run may go.
LEMMA QaResult ==
    ASSUME profile \in Profiles, SetupFails \/ TestsRun
    PROVE  /\ Consistent(report')
           /\ tested'.written /\ tested'.code = code
           /\ report'.passed => tested'.exit = 0 /\ FailingTests(code) = {}
<1>1. CASE SetupFails
  BY <1>1, SetupReport DEF SetupFails
<1>2. CASE TestsRun
  <2>1. PICK command \in CommandResults(profile, code), exit \in CoverageExits(profile) :
            /\ report' = TestReport(profile, code, design, manifest, command,
                                    results', exit, measured')
            /\ tested' = [written |-> TRUE, code |-> code, exit |-> command.exit]
    BY <1>2 DEF TestsRun
  <2> QED BY <2>1, RunReport
<1> QED BY <1>1, <1>2

-----------------------------------------------------------------------------
(***************************************************************************)
(* The inductive invariant.                                                *)
(***************************************************************************)
Accepted == {"reviewer", "route_after_reviewer", "deploy_hitl", "deploy", "done"}

\* What the last QA run is known by: it was of this code.
Judged == report.written /\ tested.written /\ tested.code = code

\* Why a developer that has a manifest is there.
Rejected == Judged /\ (QaFailed(report) \/ review.written)

QaInv ==
    /\ TypeOK
    /\ profile \in Profiles
    /\ report.written => Consistent(report)
    /\ pc \in Accepted =>
           /\ Judged
           /\ report.passed /\ tested.exit = 0 /\ FailingTests(code) = {}
    /\ pc = "route_after_reviewer" => review.written
    /\ pc = "redesign" => revisions > 0 /\ ~manifest.written
    /\ pc = "developer" /\ manifest.written => Rejected
    /\ pc = "developer" /\ retries > 0 /\ revisions = 0 => manifest.written
    /\ RetryIsInformed
    /\ RejectionReachesDeveloper
    /\ pc # "limit" => \A n \in DOMAIN snapshots : n < retries

LEMMA InitQaInv == Init => QaInv
<1> SUFFICES ASSUME Init PROVE QaInv
  OBVIOUS
<1>1. DOMAIN code = Paths
  BY InputAssumption DEF Init
<1>2. DOMAIN snapshots = {}
  BY DEF Init
<1>3. TypeOK
  BY <1>1, <1>2, LimitAssumption DEF Init, TypeOK, Absent
<1> QED BY <1>2, <1>3 DEF Init, QaInv, Accepted, RetryIsInformed,
                          RejectionReachesDeveloper, Absent

\* A bundle is made from a manifest and a report, and carries what it tells.
LEMMA BundleContents ==
    ASSUME NEW d, NEW m, NEW r, NEW v, NEW n \in Nat
    PROVE  LET b == RetryBundle(profile, code, d, m, r, v, n)
           IN /\ b.written <=> n > 0 /\ m.written /\ ~NothingToTell(r, v)
              /\ b.written => /\ b.report = r
                              /\ NotApproved(v) => b.review = v
BY DEF RetryBundle, Absent

LEMMA ReportIsTold ==
    ASSUME NEW r, NEW v, r.written PROVE ~NothingToTell(r, v)
BY DEF NothingToTell

LEMMA DeveloperQaInv == QaInv /\ Developer => QaInv'
<1> SUFFICES ASSUME QaInv, Developer PROVE QaInv'
  OBVIOUS
<1> DEFINE b == RetryBundle(profile, code, design, manifest, report, review, retries)
<1>1. PICK patch \in Patches(b.written) :
          /\ code' = Overlaid(patch, code)
          /\ manifest' = [written |-> TRUE, files |-> DOMAIN patch]
  BY DEF Developer
<1>2. /\ pc = "developer" /\ pc' = "qa" /\ bundle' = b /\ asked' = code
      /\ UNCHANGED <<profile, report, review, retries, revisions, tested, snapshots>>
  BY DEF Developer
<1>3. retries \in Nat
  BY LimitAssumption DEF QaInv, TypeOK
<1>4. /\ b.written <=> retries > 0 /\ manifest.written /\ ~NothingToTell(report, review)
      /\ b.written => b.report = report /\ (NotApproved(review) => b.review = review)
  BY <1>3, BundleContents
<1>5. b.written \in BOOLEAN
  BY DEF RetryBundle, Absent
<1> HIDE DEF b
<1>6. DOMAIN code' = Paths
  <2>1. DOMAIN patch \subseteq Paths
    BY <1>1, <1>5, InputAssumption
  <2> QED BY <1>1, <2>1 DEF Overlaid, QaInv, TypeOK
<1>7. TypeOK'
  BY <1>1, <1>2, <1>6 DEF QaInv, TypeOK
<1>8. b.written => Rejected
  BY <1>2, <1>4 DEF QaInv
<1>9. RetryIsInformed'
  BY <1>2, <1>4, <1>8 DEF RetryIsInformed, Rejected, Judged, NotApproved, QaFailed
<1>10. RejectionReachesDeveloper'
  <2>1. ASSUME retries > 0, revisions = 0 PROVE b.written
    <3>1. manifest.written /\ report.written
      BY <1>2, <2>1 DEF QaInv, Rejected, Judged
    <3> QED BY <1>4, <2>1, <3>1, ReportIsTold
  <2> QED BY <1>2, <2>1 DEF RejectionReachesDeveloper
<1>11. Consistent(report)' <=> Consistent(report)
  BY <1>2 DEF Consistent, ToolchainOk, MissingBlocks, CoverageBlocks, TraceabilityBlocks
<1> QED BY <1>2, <1>7, <1>9, <1>10, <1>11 DEF QaInv, Accepted

\* The number of a snapshot is new.
LEMMA QaSnapshots ==
    ASSUME QaInv, Qa
    PROVE  /\ \A n \in DOMAIN snapshots : n \in DOMAIN snapshots'
                                          /\ snapshots'[n] = snapshots[n]
           /\ DOMAIN snapshots' \subseteq DOMAIN snapshots \cup {retries}
<1>1. retries \in Nat /\ pc = "qa" /\ \A n \in DOMAIN snapshots : n < retries
  BY LimitAssumption DEF Qa, QaInv, TypeOK
<1>2. CASE snapshots' = snapshots
  BY <1>2
<1>3. CASE snapshots' = Overlaid([n \in {SnapshotIndex(retries)} |-> report'], snapshots)
  <2>1. retries \notin DOMAIN snapshots
    BY <1>1
  <2> QED BY <1>3, <2>1 DEF Overlaid, SnapshotIndex
<1> QED BY <1>2, <1>3 DEF Qa

LEMMA RetryBounded ==
    ASSUME QaInv, RetryDeveloper
    PROVE  \/ pc' = "limit" /\ retries' = retries
           \/ pc' = "developer" /\ retries' = retries + 1 /\ retries' \in 0..MaxRetries
BY LimitAssumption DEF QaInv, TypeOK, RetryDeveloper, AtRetryLimit

LEMMA QaQaInv == QaInv /\ Qa => QaInv'
<1> SUFFICES ASSUME QaInv, Qa PROVE QaInv'
  OBVIOUS
<1>1. /\ pc = "qa" /\ manifest.written /\ profile \in Profiles
      /\ UNCHANGED <<profile, design, code, manifest, review, revisions, bundle, asked>>
  BY DEF Qa, QaInv, TypeOK
<1>2. /\ Consistent(report') /\ tested'.written /\ tested'.code = code
      /\ report'.passed => tested'.exit = 0 /\ FailingTests(code) = {}
  BY <1>1, QaResult DEF Qa
<1>3. \/ report'.passed /\ pc' = "reviewer" /\ UNCHANGED <<retries, snapshots>>
      \/ /\ ~report'.passed /\ RetryDeveloper
         /\ DOMAIN snapshots' \subseteq DOMAIN snapshots \cup {retries}
  BY QaSnapshots DEF Qa
<1>4. /\ retries \in Nat /\ \A n \in DOMAIN snapshots : n \in Nat /\ n < retries
  BY <1>1, LimitAssumption DEF QaInv, TypeOK
<1>5. report'.written
  BY <1>2 DEF Consistent
<1>6. Consistent(report)'
  BY <1>1, <1>2 DEF Consistent, ToolchainOk, MissingBlocks, CoverageBlocks, TraceabilityBlocks
<1>7. FailingTests(code)' = FailingTests(code)
  BY <1>1 DEF FailingTests, Present
<1>8. CASE report'.passed
  <2>1. pc' = "reviewer" /\ UNCHANGED <<retries, snapshots>>
    BY <1>3, <1>8
  <2>2. TypeOK'
    BY <1>1, <1>5, <2>1 DEF QaInv, TypeOK
  <2> QED BY <1>1, <1>2, <1>5, <1>6, <1>7, <1>8, <2>1, <2>2
          DEF QaInv, Accepted, Judged, RetryIsInformed, RejectionReachesDeveloper
<1>9. CASE ~report'.passed
  <2>1. /\ RetryDeveloper
        /\ DOMAIN snapshots' \subseteq DOMAIN snapshots \cup {retries}
    BY <1>3, <1>9
  <2>2. \/ pc' = "limit" /\ retries' = retries
        \/ pc' = "developer" /\ retries' = retries + 1 /\ retries' \in 0..MaxRetries
    BY <2>1, RetryBounded
  <2>3. TypeOK'
    BY <1>1, <1>4, <1>5, <2>1, <2>2, LimitAssumption DEF QaInv, TypeOK
  <2>4. Rejected'
    BY <1>1, <1>2, <1>5, <1>9 DEF Rejected, Judged, QaFailed
  <2>5. pc' # "limit" => \A n \in DOMAIN snapshots' : n < retries'
    BY <1>4, <2>1, <2>2
  <2> QED BY <1>1, <1>6, <2>2, <2>3, <2>4, <2>5
          DEF QaInv, Accepted, RetryIsInformed, RejectionReachesDeveloper
<1> QED BY <1>8, <1>9

LEMMA ReviewerQaInv == QaInv /\ Reviewer => QaInv'
<1> SUFFICES ASSUME QaInv, Reviewer PROVE QaInv'
  OBVIOUS
<1>1. /\ pc = "reviewer" /\ pc' = "route_after_reviewer" /\ review'.written
      /\ UNCHANGED <<profile, code, manifest, report, retries, revisions, bundle,
                     asked, tested, snapshots>>
  BY InputAssumption DEF Reviewer, root, history
<1>2. Consistent(report)' <=> Consistent(report)
  BY <1>1 DEF Consistent, ToolchainOk, MissingBlocks, CoverageBlocks, TraceabilityBlocks
<1>3. FailingTests(code)' = FailingTests(code)
  BY <1>1 DEF FailingTests, Present
<1>4. TypeOK'
  BY <1>1 DEF QaInv, TypeOK, Accepted, Judged
<1> QED BY <1>1, <1>2, <1>3, <1>4 DEF QaInv, Accepted, Judged, RetryIsInformed,
                                     RejectionReachesDeveloper

LEMMA RouteQaInv == QaInv /\ RouteAfterReviewer => QaInv'
<1> SUFFICES ASSUME QaInv, RouteAfterReviewer PROVE QaInv'
  OBVIOUS
<1>1. /\ pc = "route_after_reviewer" /\ review.written /\ Judged /\ manifest.written
      /\ retries \in Nat /\ revisions \in 0..MaxRevisions
      /\ UNCHANGED <<profile, code, bundle, asked, tested, snapshots>>
  BY LimitAssumption DEF RouteAfterReviewer, root, history, QaInv, TypeOK, Accepted
<1>2. CASE /\ pc' \in {"deploy_hitl", "limit"}
           /\ UNCHANGED <<manifest, report, review, retries, revisions>>
  <2>1. Consistent(report)' <=> Consistent(report)
    BY <1>1, <1>2 DEF Consistent, ToolchainOk, MissingBlocks, CoverageBlocks, TraceabilityBlocks
  <2>2. FailingTests(code)' = FailingTests(code)
    BY <1>1 DEF FailingTests, Present
  <2>3. TypeOK'
    BY <1>1, <1>2 DEF QaInv, TypeOK, Accepted, Judged
  <2> QED BY <1>1, <1>2, <2>1, <2>2, <2>3
          DEF QaInv, Accepted, Judged, RetryIsInformed, RejectionReachesDeveloper
<1>3. CASE /\ pc' = "developer" /\ retries' = retries + 1 /\ retries' \in 0..MaxRetries
           /\ UNCHANGED <<manifest, report, review, revisions>>
  <2>1. Consistent(report)' <=> Consistent(report)
    BY <1>1, <1>3 DEF Consistent, ToolchainOk, MissingBlocks, CoverageBlocks, TraceabilityBlocks
  <2>2. TypeOK'
    BY <1>1, <1>3, LimitAssumption DEF QaInv, TypeOK
  <2>3. Rejected'
    BY <1>1, <1>3 DEF Rejected, Judged
  <2>4. \A n \in DOMAIN snapshots : n \in Nat /\ n < retries
    BY <1>1 DEF QaInv, TypeOK
  <2> QED BY <1>1, <1>3, <2>1, <2>2, <2>3, <2>4
          DEF QaInv, Accepted, RetryIsInformed, RejectionReachesDeveloper
<1>4. CASE /\ pc' = "redesign" /\ revisions' = revisions + 1 /\ revisions < MaxRevisions
           /\ manifest' = Absent /\ report' = Absent /\ review' = Absent
           /\ UNCHANGED retries
  <2>1. revisions' \in 0..MaxRevisions /\ revisions' > 0
    BY <1>1, <1>4, LimitAssumption
  <2>2. TypeOK'
    BY <1>1, <1>4, <2>1 DEF QaInv, TypeOK
  <2> QED BY <1>1, <1>4, <2>1, <2>2
          DEF QaInv, Accepted, RetryIsInformed, RejectionReachesDeveloper, Absent
<1>5. \/ pc' = "deploy_hitl" /\ UNCHANGED <<manifest, report, review, retries, revisions>>
      \/ RetryDeveloper /\ UNCHANGED <<manifest, report, review, revisions>>
      \/ Escalate /\ UNCHANGED retries
  BY DEF RouteAfterReviewer
<1>6. CASE RetryDeveloper /\ UNCHANGED <<manifest, report, review, revisions>>
  BY <1>2, <1>3, <1>6, RetryBounded
<1>7. CASE Escalate /\ UNCHANGED retries
  <2>1. CASE revisions >= MaxRevisions
    BY <1>2, <1>7, <2>1 DEF Escalate
  <2>2. CASE ~(revisions >= MaxRevisions)
    BY <1>1, <1>4, <1>7, <2>2, LimitAssumption DEF Escalate
  <2> QED BY <2>1, <2>2
<1> QED BY <1>2, <1>5, <1>6, <1>7

\* Steps that touch nothing the invariant speaks of but the program counter.
LEMMA OtherQaInv ==
    QaInv /\ (Redesign \/ DeployHitl \/ Deploy \/ UNCHANGED vars) => QaInv'
<1> SUFFICES ASSUME QaInv, Redesign \/ DeployHitl \/ Deploy \/ UNCHANGED vars
             PROVE  QaInv'
  OBVIOUS
<1>1. /\ UNCHANGED <<profile, code, manifest, report, review, retries, revisions,
                     bundle, asked, tested, snapshots>>
      /\ \/ pc = "redesign" /\ pc' = "developer"
         \/ pc = "deploy_hitl" /\ pc' = "deploy"
         \/ pc = "deploy" /\ pc' = "done"
         \/ pc' = pc
  BY DEF Redesign, DeployHitl, Deploy, vars, root, history
<1>2. Consistent(report)' <=> Consistent(report)
  BY <1>1 DEF Consistent, ToolchainOk, MissingBlocks, CoverageBlocks, TraceabilityBlocks
<1>3. FailingTests(code)' = FailingTests(code)
  BY <1>1 DEF FailingTests, Present
<1>4. TypeOK'
  BY <1>1 DEF QaInv, TypeOK
<1>5. revisions \in Nat
  BY LimitAssumption DEF QaInv, TypeOK
<1> QED BY <1>1, <1>2, <1>3, <1>4, <1>5
        DEF QaInv, Accepted, Judged, Rejected, QaFailed, RetryIsInformed,
            RejectionReachesDeveloper

LEMMA NextQaInv == QaInv /\ [Next]_vars => QaInv'
BY DeveloperQaInv, QaQaInv, ReviewerQaInv, RouteQaInv, OtherQaInv DEF Next

\* What the loop stands on: which run the report is of, and why a developer
\* is where it is.
THEOREM QaInductive == Spec => []QaInv
BY InitQaInv, NextQaInv, PTL DEF Spec

-----------------------------------------------------------------------------
(***************************************************************************)
(* The retry context: what it is made of are paths.                        *)
(***************************************************************************)
LEMMA PathsAreFinite ==
    /\ IsFiniteSet(Paths) /\ IsFiniteSet(Tests)
    /\ TestFiles \in Seq(Tests) /\ \A t \in Tests : t \in Paths /\ Subject[t] \in Paths
<1>1. TestFiles \in Seq(Tests)
  BY PathsAssumption DEF Tests
<1>2. IsFiniteSet(Tests)
  BY <1>1, ListIsFinite DEF Tests
<1>3. IsFiniteSet(Paths)
  BY <1>2, PathsAssumption, FS_Union DEF Paths
<1> QED BY <1>1, <1>3, <1>2, PathsAssumption DEF Paths, Tests

LEMMA PrintedFramesArePaths ==
    ASSUME NEW c, NEW t \in Tests PROVE PrintedFrames(c, t) \in Seq(Paths)
BY PathsAreFinite DEF PrintedFrames

LEMMA InOrderList ==
    ASSUME NEW tests PROVE InOrder(tests) \in Seq(Tests)
BY PathsAreFinite, KeptList DEF InOrder

LEMMA TailFramesArePaths ==
    ASSUME NEW c, NEW r PROVE RawOutputTail(c, r) \in Seq(Paths)
<1> DEFINE tests == InOrder(r.tail)
           printed == [i \in DOMAIN tests |-> PrintedFrames(c, tests[i])]
<1>1. tests \in Seq(Tests)
  BY InOrderList
<1> HIDE DEF tests
<1>2. \A i \in DOMAIN tests : PrintedFrames(c, tests[i]) \in Seq(Paths)
  BY <1>1, PrintedFramesArePaths
<1>3. printed \in Seq(Seq(Paths))
  BY <1>1, <1>2
<1> HIDE DEF printed
<1>4. Joined(printed) \in Seq(Paths)
  BY <1>3, JoinedList
<1> QED BY <1>4 DEF RawOutputTail, printed, tests

\* WithoutRepeats is a fold of which only the type matters.
LEMMA WithoutRepeatsList ==
    ASSUME NEW A, NEW seq \in Seq(A)
    PROVE  WithoutRepeats(seq) \in Seq(A)
<1> DEFINE B == Seq(A)
           step(g, s) == IF s = {} THEN <<>> ELSE AddNew(g[s \ {Max(s)}], seq[Max(s)])
           iter == CHOOSE g : g = [s \in SUBSET DOMAIN seq |-> step(g, s)]
           W == B \cup {iter[s] : s \in SUBSET DOMAIN seq}
           F == [y \in W \X A |-> AddNew(y[1], y[2])]
<1>1. WithoutRepeats(seq) = iter[DOMAIN seq]
  BY DEF WithoutRepeats, FoldLeft, MapThenFoldSet
<1>2. /\ B \subseteq W /\ \A s \in SUBSET DOMAIN seq : iter[s] \in W
      /\ \A b \in W, x \in A : F[<<b, x>>] = AddNew(b, x)
  OBVIOUS
<1> HIDE DEF iter, W, F
<1>3. <<>> \in B /\ \A b \in B, x \in A : F[<<b, x>>] \in B
  <2>1. \A b \in B, x \in A : AddNew(b, x) \in B
    BY DEF AddNew
  <2> QED BY <1>2, <2>1
<1> HIDE DEF B
<1>4. PICK g \in [SUBSET DOMAIN seq -> B] : FoldEquation(F, <<>>, seq, DOMAIN seq, g)
  BY <1>3, FoldExists
<1>5. \A s \in SUBSET DOMAIN seq :
         s # {} => s \ {Max(s)} \in SUBSET DOMAIN seq /\ seq[Max(s)] \in A
  BY LastOfDomain
<1>6. g = [s \in SUBSET DOMAIN seq |-> step(g, s)]
  BY <1>2, <1>4, <1>5 DEF FoldEquation
<1> HIDE DEF step
<1>7. iter = [s \in SUBSET DOMAIN seq |-> step(iter, s)]
  BY <1>6 DEF iter
<1>8. FoldEquation(F, <<>>, seq, DOMAIN seq, iter)
  BY <1>2, <1>5, <1>7 DEF FoldEquation, step
<1>9. PICK h : Results(h, B, <<>>, seq, iter[DOMAIN seq]) /\ IsRun(h, F, seq)
  BY <1>3, <1>8, FoldRun
<1>10. Len(seq) \in 0..Len(seq)
  OBVIOUS
<1> QED BY <1>1, <1>9, <1>10 DEF Results, B

LEMMA FramesArePaths ==
    ASSUME NEW p, NEW c, NEW r, NEW failure, NEW d, NEW m
    PROVE  FramesOf(p, c, r, failure, d, m) \in Seq(Paths)
<1> DEFINE own == IF failure \in Tests THEN PrintedFrames(c, failure) ELSE <<>>
           tail == RawOutputTail(c, r)
<1>1. own \in Seq(Paths) /\ tail \in Seq(Paths)
  BY PrintedFramesArePaths, TailFramesArePaths
<1> HIDE DEF own, tail
<1>2. own \o tail \in Seq(Paths)
  BY <1>1
<1>3. WithoutRepeats(own \o tail) \in Seq(Paths)
  BY <1>2, WithoutRepeatsList
<1>4. Reverse(WithoutRepeats(own \o tail)) \in Seq(Paths)
  BY <1>3, ReverseList
<1>5. CallPath(p, c, r, failure) \in Seq(Paths)
  BY <1>4 DEF CallPath, own, tail
<1>6. ClosureFrames(p, failure, d, m) \in Seq(Paths)
  <2>1. CASE failure \notin Tests \/ p.trace_format = "none"
    BY <2>1 DEF ClosureFrames
  <2>2. CASE failure \in Tests /\ p.trace_format # "none"
    <3>1. failure \in Paths /\ Subject[failure] \in Paths
      BY <2>2, PathsAreFinite
    <3> QED BY <2>2, <3>1 DEF ClosureFrames
  <2> QED BY <2>1, <2>2
<1> QED BY <1>5, <1>6 DEF FramesOf

\* What a report must hold for its failures to be told.
SoundReport(r) == IsFiniteSet(r.failures) /\ r.missing \subseteq Paths

LEMMA FailureFramesArePaths ==
    ASSUME NEW p, NEW c, NEW r, NEW d, NEW m, r.written => SoundReport(r)
    PROVE  FailureFrames(p, c, r, d, m) \in Seq(Paths)
<1> DEFINE known == InOrder(r.failures)
           other == SetToSeq(r.failures \ Tests)
           failures == IF r.written THEN known \o other ELSE <<>>
           frames == [i \in DOMAIN failures |-> FramesOf(p, c, r, failures[i], d, m)]
           F == Tests \cup r.failures
<1>1. failures \in Seq(F)
  <2>1. CASE ~r.written
    BY <2>1
  <2>2. CASE r.written
    <3>1. known \in Seq(Tests)
      BY InOrderList
    <3>2. IsFiniteSet(r.failures \ Tests)
      BY <2>2, FS_Difference DEF SoundReport
    <3>3. other \in Seq(r.failures \ Tests)
      BY <3>2, SetToSeqList
    <3> HIDE DEF known, other
    <3>4. known \in Seq(F) /\ other \in Seq(F)
      BY <3>1, <3>3
    <3> QED BY <2>2, <3>4
  <2> QED BY <2>1, <2>2
<1> HIDE DEF failures
<1>2. frames \in Seq(Seq(Paths))
  BY <1>1, FramesArePaths
<1> HIDE DEF frames
<1>3. Joined(frames) \in Seq(Paths)
  BY <1>2, JoinedList
<1> QED BY <1>3 DEF FailureFrames, frames, failures

LEMMA FurtherPathsArePaths ==
    ASSUME NEW r, r.written => SoundReport(r), NEW findings \in Seq(Findings)
    PROVE  FurtherPaths(r, findings) \in Seq(Paths)
<1> DEFINE counted == Kept(findings, {f \in ToSet(findings) : f.fix \/ f.blocking})
           missing == IF r.written THEN SetToSeq(r.missing) ELSE <<>>
<1>1. counted \in Seq(Findings)
  BY KeptList
<1> HIDE DEF counted
<1>2. \A f \in Findings : f.file \in Paths
  BY DEF Findings
<1>3. [i \in DOMAIN counted |-> counted[i].file] \in Seq(Paths)
  BY <1>1, <1>2
<1>4. FindingFrames(findings) \in Seq(Paths)
  BY <1>3 DEF FindingFrames, counted
<1>5. missing \in Seq(Paths)
  <2>1. CASE ~r.written
    BY <2>1
  <2>2. CASE r.written
    <3>1. r.missing \subseteq Paths /\ IsFiniteSet(r.missing)
      BY <2>2, PathsAreFinite, FS_Subset DEF SoundReport
    <3>2. SetToSeq(r.missing) \in Seq(r.missing)
      BY <3>1, SetToSeqList
    <3> QED BY <2>2, <3>1, <3>2
  <2> QED BY <2>1, <2>2
<1> HIDE DEF missing
<1>6. missing \o FindingFrames(findings) \in Seq(Paths)
  BY <1>4, <1>5
<1> QED BY <1>6 DEF FurtherPaths, missing

-----------------------------------------------------------------------------
(***************************************************************************)
(* The retry context: its budget.                                          *)
(***************************************************************************)
Budgets ==
    {b \in [lines : Nat, functions : Nat, files : SUBSET Paths,
            omittedPaths : SUBSET Paths, omittedFrames : SUBSET Paths] :
        /\ b.lines <= MaxLines
        /\ b.functions <= MaxFunctions
        /\ Cardinality(b.files) <= MaxFiles}

\* What is shown, or said to be left out.
Named(b) == b.files \cup b.omittedPaths \cup b.omittedFrames

LEMMA NoneUsed == EmptyBudget \in Budgets
<1>1. Cardinality({}) = 0
  BY FS_EmptySet
<1> QED BY <1>1, BudgetAssumption DEF EmptyBudget, Budgets

LEMMA ExtractKeepsBudget ==
    ASSUME NEW b \in Budgets, NEW c, NEW p \in Paths
    PROVE  /\ TryExtractFrame(b, c, p) \in Budgets
           /\ ExtractIfRoom(b, c, p) \in Budgets
<1>1. /\ LinesOf[p] \in Nat /\ MaxLines \in Nat /\ MaxFunctions \in Nat /\ MaxFiles \in Nat
      /\ IsFiniteSet(b.files) /\ Cardinality(b.files) \in Nat
  BY BudgetAssumption, PathsAreFinite, FS_Subset, FS_CardinalityType DEF Budgets
<1>2. Cardinality(b.files \cup {p}) = IF p \in b.files THEN Cardinality(b.files)
                                      ELSE Cardinality(b.files) + 1
  BY <1>1, FS_AddElement
<1>3. OmitPath(b, p) \in Budgets /\ OmitFrame(b, p) \in Budgets
      /\ OmitFrame(OmitPath(b, p), p) \in Budgets
  BY DEF OmitPath, OmitFrame, Budgets
<1>4. ASSUME b.functions < MaxFunctions, b.lines + LinesOf[p] <= MaxLines,
             p \in b.files \/ Cardinality(b.files) < MaxFiles
      PROVE  Show(b, p) \in Budgets
  <2>1. Cardinality(b.files \cup {p}) <= MaxFiles
    BY <1>1, <1>2, <1>4 DEF Budgets
  <2>2. /\ b.lines + LinesOf[p] \in Nat /\ b.functions + 1 \in Nat
        /\ b.functions + 1 <= MaxFunctions /\ b.files \cup {p} \in SUBSET Paths
    BY <1>1, <1>4 DEF Budgets
  <2> QED BY <1>4, <2>1, <2>2 DEF Show, Budgets
<1>5. b.functions \in Nat /\ b.lines \in Nat
  BY DEF Budgets
<1>6. TryExtractFrame(b, c, p) \in Budgets
  BY <1>1, <1>3, <1>4, <1>5 DEF TryExtractFrame
<1>7. [TryExtractFrame(b, c, p) EXCEPT !.omittedFrames = b.omittedFrames] \in Budgets
  BY <1>6 DEF Budgets
<1> QED BY <1>3, <1>6, <1>7 DEF ExtractIfRoom

LEMMA ExtractNames ==
    ASSUME NEW b \in Budgets, NEW c, NEW p \in Paths
    PROVE  /\ Named(b) \subseteq Named(TryExtractFrame(b, c, p))
           /\ Named(b) \subseteq Named(ExtractIfRoom(b, c, p))
           /\ Present(c, p) => /\ p \in Named(TryExtractFrame(b, c, p))
                               /\ p \in Named(ExtractIfRoom(b, c, p))
<1>1. /\ Named(OmitPath(b, p)) = Named(b) \cup {p}
      /\ Named(OmitFrame(b, p)) = Named(b) \cup {p}
      /\ Named(OmitFrame(OmitPath(b, p), p)) = Named(b) \cup {p}
      /\ Named(Show(b, p)) = Named(b) \cup {p}
  BY DEF Named, OmitPath, OmitFrame, Show, Budgets
<1>2. Named(TryExtractFrame(b, c, p)) = Named(b) \cup {p}
  BY <1>1 DEF TryExtractFrame
<1> DEFINE b2 == [TryExtractFrame(b, c, p) EXCEPT !.omittedFrames = b.omittedFrames]
<1>3. ASSUME b.functions < MaxFunctions
      PROVE  Named(b) \subseteq Named(b2) /\ (Present(c, p) => p \in Named(b2))
  <2>1. b.functions \in Nat /\ MaxFunctions \in Nat /\ ~(b.functions >= MaxFunctions)
    BY <1>3, BudgetAssumption DEF Budgets
  <2>2. CASE TryExtractFrame(b, c, p) = OmitFrame(OmitPath(b, p), p)
    BY <2>2 DEF Named, OmitPath, OmitFrame, Budgets
  <2>3. CASE TryExtractFrame(b, c, p) = OmitFrame(b, p) /\ ~Present(c, p)
    BY <2>3 DEF Named, OmitFrame, Budgets
  <2>4. CASE TryExtractFrame(b, c, p) = Show(b, p)
    BY <2>4 DEF Named, Show, Budgets
  <2> QED BY <2>1, <2>2, <2>3, <2>4 DEF TryExtractFrame
<1>4. b.functions \in Nat /\ MaxFunctions \in Nat
  BY BudgetAssumption DEF Budgets
<1> QED BY <1>1, <1>2, <1>3, <1>4 DEF ExtractIfRoom

\* A run over a list of paths that loses nothing.
Keeps(h, c, seq) ==
    \A n \in 1..Len(seq) : /\ Named(h[n - 1]) \subseteq Named(h[n])
                           /\ Present(c, seq[n]) => seq[n] \in Named(h[n])

LEMMA NothingLost ==
    ASSUME NEW seq \in Seq(Paths), NEW c, NEW start, NEW value, NEW h,
           Results(h, Budgets, start, seq, value), Keeps(h, c, seq)
    PROVE  /\ value \in Budgets
           /\ Named(start) \subseteq Named(value)
           /\ \A p \in ToSet(seq) : Present(c, p) => p \in Named(value)
<1>1. Len(seq) \in Nat /\ DOMAIN seq = 1..Len(seq)
  OBVIOUS
<1> DEFINE T == {n \in 0..Len(seq) :
                    /\ Named(start) \subseteq Named(h[n])
                    /\ \A i \in 1..n : Present(c, seq[i]) => seq[i] \in Named(h[n])}
<1>2. 0 \in T
  BY <1>1 DEF Results
<1>3. ASSUME NEW n \in 0..(Len(seq) - 1), n \in T PROVE n + 1 \in T
  <2>1. n + 1 \in 1..Len(seq) /\ (n + 1) - 1 = n /\ n + 1 \in 0..Len(seq)
    BY <1>1
  <2>2. /\ Named(h[n]) \subseteq Named(h[n + 1])
        /\ Present(c, seq[n + 1]) => seq[n + 1] \in Named(h[n + 1])
    BY <2>1 DEF Keeps
  <2>3. \A i \in 1..(n + 1) : i \in 1..n \/ i = n + 1
    BY <1>1
  <2> QED BY <1>3, <2>1, <2>2, <2>3
<1>4. Len(seq) \in T
  <2> HIDE DEF T
  <2>1. 0..Len(seq) \subseteq T
    BY <1>1, <1>2, <1>3, BoundedInduction
  <2> QED BY <1>1, <2>1
<1> QED BY <1>1, <1>4 DEF Results, ToSet

LEMMA FramesWithinBudget ==
    ASSUME NEW seq \in Seq(Paths), NEW c, NEW start \in Budgets
    PROVE  /\ ExtractFrames(start, c, seq) \in Budgets
           /\ Named(start) \subseteq Named(ExtractFrames(start, c, seq))
           /\ \A p \in ToSet(seq) : Present(c, p) => p \in Named(ExtractFrames(start, c, seq))
<1> DEFINE step(g, s) == IF s = {} THEN start
                         ELSE TryExtractFrame(g[s \ {Max(s)}], c, seq[Max(s)])
           iter == CHOOSE g : g = [s \in SUBSET DOMAIN seq |-> step(g, s)]
           W == Budgets \cup {iter[s] : s \in SUBSET DOMAIN seq}
           F == [y \in W \X Paths |-> TryExtractFrame(y[1], c, y[2])]
<1>1. ExtractFrames(start, c, seq) = iter[DOMAIN seq]
  BY DEF ExtractFrames, FoldLeft, MapThenFoldSet
<1>2. /\ Budgets \subseteq W /\ \A s \in SUBSET DOMAIN seq : iter[s] \in W
      /\ \A b \in W, p \in Paths : F[<<b, p>>] = TryExtractFrame(b, c, p)
  OBVIOUS
<1> HIDE DEF iter, W, F
<1>3. \A b \in Budgets, p \in Paths : F[<<b, p>>] \in Budgets
  BY <1>2, ExtractKeepsBudget
<1>4. PICK g \in [SUBSET DOMAIN seq -> Budgets] : FoldEquation(F, start, seq, DOMAIN seq, g)
  BY <1>3, FoldExists
<1>5. \A s \in SUBSET DOMAIN seq :
         s # {} => s \ {Max(s)} \in SUBSET DOMAIN seq /\ seq[Max(s)] \in Paths
  BY LastOfDomain
<1>6. g = [s \in SUBSET DOMAIN seq |-> step(g, s)]
  BY <1>2, <1>4, <1>5 DEF FoldEquation
<1> HIDE DEF step
<1>7. iter = [s \in SUBSET DOMAIN seq |-> step(iter, s)]
  BY <1>6 DEF iter
<1>8. FoldEquation(F, start, seq, DOMAIN seq, iter)
  BY <1>2, <1>5, <1>7 DEF FoldEquation, step
<1>9. PICK h : Results(h, Budgets, start, seq, iter[DOMAIN seq]) /\ IsRun(h, F, seq)
  BY <1>3, <1>8, FoldRun
<1>10. Keeps(h, c, seq)
  <2> SUFFICES ASSUME NEW n \in 1..Len(seq)
               PROVE  /\ Named(h[n - 1]) \subseteq Named(h[n])
                      /\ Present(c, seq[n]) => seq[n] \in Named(h[n])
    BY DEF Keeps
  <2>1. h[n - 1] \in Budgets /\ seq[n] \in Paths
    BY <1>9 DEF Results
  <2>2. h[n] = TryExtractFrame(h[n - 1], c, seq[n])
    BY <1>2, <1>9, <2>1 DEF IsRun
  <2> QED BY <2>1, <2>2, ExtractNames
<1> QED BY <1>1, <1>9, <1>10, NothingLost

LEMMA PathsWithinBudget ==
    ASSUME NEW seq \in Seq(Paths), NEW c, NEW start \in Budgets
    PROVE  /\ ExtractEach(start, c, seq) \in Budgets
           /\ Named(start) \subseteq Named(ExtractEach(start, c, seq))
           /\ \A p \in ToSet(seq) : Present(c, p) => p \in Named(ExtractEach(start, c, seq))
<1> DEFINE step(g, s) == IF s = {} THEN start
                         ELSE ExtractIfRoom(g[s \ {Max(s)}], c, seq[Max(s)])
           iter == CHOOSE g : g = [s \in SUBSET DOMAIN seq |-> step(g, s)]
           W == Budgets \cup {iter[s] : s \in SUBSET DOMAIN seq}
           F == [y \in W \X Paths |-> ExtractIfRoom(y[1], c, y[2])]
<1>1. ExtractEach(start, c, seq) = iter[DOMAIN seq]
  BY DEF ExtractEach, FoldLeft, MapThenFoldSet
<1>2. /\ Budgets \subseteq W /\ \A s \in SUBSET DOMAIN seq : iter[s] \in W
      /\ \A b \in W, p \in Paths : F[<<b, p>>] = ExtractIfRoom(b, c, p)
  OBVIOUS
<1> HIDE DEF iter, W, F
<1>3. \A b \in Budgets, p \in Paths : F[<<b, p>>] \in Budgets
  BY <1>2, ExtractKeepsBudget
<1>4. PICK g \in [SUBSET DOMAIN seq -> Budgets] : FoldEquation(F, start, seq, DOMAIN seq, g)
  BY <1>3, FoldExists
<1>5. \A s \in SUBSET DOMAIN seq :
         s # {} => s \ {Max(s)} \in SUBSET DOMAIN seq /\ seq[Max(s)] \in Paths
  BY LastOfDomain
<1>6. g = [s \in SUBSET DOMAIN seq |-> step(g, s)]
  BY <1>2, <1>4, <1>5 DEF FoldEquation
<1> HIDE DEF step
<1>7. iter = [s \in SUBSET DOMAIN seq |-> step(iter, s)]
  BY <1>6 DEF iter
<1>8. FoldEquation(F, start, seq, DOMAIN seq, iter)
  BY <1>2, <1>5, <1>7 DEF FoldEquation, step
<1>9. PICK h : Results(h, Budgets, start, seq, iter[DOMAIN seq]) /\ IsRun(h, F, seq)
  BY <1>3, <1>8, FoldRun
<1>10. Keeps(h, c, seq)
  <2> SUFFICES ASSUME NEW n \in 1..Len(seq)
               PROVE  /\ Named(h[n - 1]) \subseteq Named(h[n])
                      /\ Present(c, seq[n]) => seq[n] \in Named(h[n])
    BY DEF Keeps
  <2>1. h[n - 1] \in Budgets /\ seq[n] \in Paths
    BY <1>9 DEF Results
  <2>2. h[n] = ExtractIfRoom(h[n - 1], c, seq[n])
    BY <1>2, <1>9, <2>1 DEF IsRun
  <2> QED BY <2>1, <2>2, ExtractNames
<1> QED BY <1>1, <1>9, <1>10, NothingLost

\* Whatever a report and a review ask for is shown within the budget, or named.
LEMMA ContextIsSound ==
    ASSUME NEW p, NEW c, NEW d, NEW m, NEW r, r.written => SoundReport(r),
           NEW findings \in Seq(Findings)
    PROVE  LET context == FailureContexts(p, c, r, d, m, findings)
               wanted  == ToSet(FailureFrames(p, c, r, d, m) \o FurtherPaths(r, findings))
           IN /\ context \in Budgets
              /\ \A x \in wanted : Present(c, x) => x \in Named(context)
<1> DEFINE frames == FailureFrames(p, c, r, d, m)
           further == FurtherPaths(r, findings)
           first == ExtractFrames(EmptyBudget, c, frames)
           context == ExtractEach(first, c, further)
<1>1. frames \in Seq(Paths) /\ further \in Seq(Paths)
  BY FailureFramesArePaths, FurtherPathsArePaths
<1>2. FailureContexts(p, c, r, d, m, findings) = context
  BY DEF FailureContexts
<1> HIDE DEF frames, further
<1>3. ToSet(frames \o further) = ToSet(frames) \cup ToSet(further)
  BY <1>1, ConcatSet
<1>4. first \in Budgets /\ \A x \in ToSet(frames) : Present(c, x) => x \in Named(first)
  BY <1>1, NoneUsed, FramesWithinBudget
<1> HIDE DEF first
<1>5. /\ context \in Budgets /\ Named(first) \subseteq Named(context)
      /\ \A x \in ToSet(further) : Present(c, x) => x \in Named(context)
  BY <1>1, <1>4, PathsWithinBudget
<1> HIDE DEF context
<1>6. \A x \in ToSet(frames \o further) : Present(c, x) => x \in Named(context)
  BY <1>3, <1>4, <1>5
<1> QED BY <1>2, <1>5, <1>6 DEF frames, further
-----------------------------------------------------------------------------
(***************************************************************************)
(* What follows from it.                                                   *)
(***************************************************************************)
\* Both loops keep to their limits, and every node has what it reads.
THEOREM QaTypes == Spec => []TypeOK
<1>1. QaInv => TypeOK
  BY DEF QaInv
<1> QED BY <1>1, QaInductive, PTL

\* What is deployed is the code the last QA ran on, with success: no file that
\* an earlier command left, no report of an earlier version and no order of
\* retries and redesigns lets other code through (run_tests.py, junit_xml.py).
THEOREM OnlyTestedCodeIsDeployed == Spec => []DeployedCodeWasTested
<1>1. QaInv => DeployedCodeWasTested
  BY DEF QaInv, DeployedCodeWasTested, Accepted, Judged
<1> QED BY <1>1, QaInductive, PTL

\* The logged reason of every report agrees with the gates that made it
\* (qa_diagnostics.py, run_tests.py).
THEOREM ReasonsAgree == Spec => []FailuresAreClassified
<1>1. QaInv => FailuresAreClassified
  BY DEF QaInv, FailuresAreClassified, Consistent, BlockReason
<1> QED BY <1>1, QaInductive, PTL

\* A developer with a bundle is shown the code that was refused, with the
\* report or the review that refused it (prompt_context.py).
THEOREM RetriesAreInformed == Spec => []RetryIsInformed
<1>1. QaInv => RetryIsInformed
  BY DEF QaInv
<1> QED BY <1>1, QaInductive, PTL

\* Until a redesign, every retry has a bundle (prompt_context.py).
THEOREM RejectionsArrive == Spec => []RejectionReachesDeveloper
<1>1. QaInv => RejectionReachesDeveloper
  BY DEF QaInv
<1> QED BY <1>1, QaInductive, PTL

\* No failed report of a session is overwritten by a later one (agents/qa.py).
THEOREM SnapshotsAreKept == Spec => SnapshotsKept
<1>1. QaInv /\ [Next]_vars =>
        [\A n \in DOMAIN snapshots :
            n \in DOMAIN snapshots' /\ snapshots'[n] = snapshots[n]]_vars
  <2> SUFFICES ASSUME QaInv, [Next]_vars
               PROVE  \A n \in DOMAIN snapshots :
                         n \in DOMAIN snapshots' /\ snapshots'[n] = snapshots[n]
    OBVIOUS
  <2>1. CASE Qa
    BY <2>1, QaSnapshots
  <2>2. CASE \/ Developer \/ Reviewer \/ RouteAfterReviewer \/ Redesign
             \/ DeployHitl \/ Deploy \/ UNCHANGED vars
    <3>1. snapshots' = snapshots
      BY <2>2 DEF Developer, Reviewer, RouteAfterReviewer, Redesign, DeployHitl,
                  Deploy, vars
    <3> QED BY <3>1
  <2> QED BY <2>1, <2>2 DEF Next
<1> QED BY <1>1, QaInductive, PTL DEF Spec, SnapshotsKept

-----------------------------------------------------------------------------
(***************************************************************************)
(* What a developer is shown.                                              *)
(***************************************************************************)
ContextInv ==
    /\ design \in Designs
    /\ manifest.written => manifest.files \subseteq Paths
    /\ results.written => results.failing \subseteq Tests
    /\ report.written => SoundReport(report)
    /\ review.written => review \in Reviews
    /\ ContextWithinBudget /\ NothingDroppedSilently

\* The parsers report tests, or one id that stands for the whole run.
LEMMA ParsedFailuresAreFinite ==
    ASSUME NEW p \in Profiles, NEW c, NEW command \in CommandResults(p, c),
           NEW old, old.written => old.failing \subseteq Tests
    PROVE  IsFiniteSet(ParseTests(p, command, old).failures)
<1>1. command.failing \subseteq Tests
  BY DEF CommandResults, Finished, Died, FailingTests
<1>2. \A S : S \subseteq Tests => IsFiniteSet(S)
  BY PathsAreFinite, FS_Subset
<1>3. \A id : IsFiniteSet({id})
  BY FS_Singleton
<1>4. IsFiniteSet({})
  BY FS_EmptySet
<1>5. \A id : IsFiniteSet(ByExitCode(command, id).failures)
  BY <1>3, <1>4 DEF ByExitCode, Parsed
<1>6. IsFiniteSet(ParseExitCodeOnly(command).failures)
  BY <1>5 DEF ParseExitCodeOnly
<1>7. IsFiniteSet(ParseEvents(command).failures)
  BY <1>1, <1>2, <1>5 DEF ParseEvents, Parsed
<1>8. IsFiniteSet(ParseJunitXml(command, old).failures)
  BY <1>2, <1>5 DEF ParseJunitXml, Parsed
<1> QED BY <1>6, <1>7, <1>8, InputAssumption DEF ParseTests

LEMMA MissingArePaths ==
    ASSUME NEW p, NEW c, NEW d \in Designs, NEW m, m.written => m.files \subseteq Paths
    PROVE  DetectTestsMissing(p, c, d, m) \subseteq Paths
<1>1. d.tasks \subseteq Paths /\ d.plan \subseteq Paths
  BY InputAssumption
<1>2. ManifestPaths(m) \subseteq Paths /\ DevTaskPaths(d, m) \subseteq Paths
  BY <1>1 DEF ManifestPaths, DevTaskPaths
<1>3. SourcePaths(p.missing.scope, d, m) \subseteq Paths
  BY <1>1, <1>2 DEF SourcePaths
<1> QED BY <1>3 DEF DetectTestsMissing

LEMMA FinalizedIsSound ==
    ASSUME NEW p, NEW parsed, NEW missing \in SUBSET Paths, NEW coverage, NEW unmet,
           IsFiniteSet(parsed.failures)
    PROVE  SoundReport(FinalizeTestReport(p, parsed, missing, coverage, unmet))
BY DEF SoundReport, FinalizeTestReport, WithPassed

LEMMA InitContextInv == Init => ContextInv
<1> SUFFICES ASSUME Init PROVE ContextInv
  OBVIOUS
<1>1. design \in Designs /\ ~manifest.written /\ ~report.written /\ ~review.written
      /\ ~bundle.written
  BY DEF Init, Absent
<1>2. results.written => results.failing \subseteq Tests
  BY InputAssumption DEF Init
<1> QED BY <1>1, <1>2 DEF ContextInv, ContextWithinBudget, NothingDroppedSilently

LEMMA DeveloperContextInv == QaInv /\ ContextInv /\ Developer => ContextInv'
<1> SUFFICES ASSUME QaInv, ContextInv, Developer PROVE ContextInv'
  OBVIOUS
<1> DEFINE b == RetryBundle(profile, code, design, manifest, report, review, retries)
           findings == IF NotApproved(review) THEN review.findings ELSE <<>>
           context == FailureContexts(profile, code, report, design, manifest, findings)
           wanted == ToSet(FailureFrames(profile, code, report, design, manifest)
                           \o FurtherPaths(report, findings))
<1>1. PICK patch \in Patches(b.written) :
          manifest' = [written |-> TRUE, files |-> DOMAIN patch]
  BY DEF Developer
<1>2. /\ bundle' = b /\ asked' = code
      /\ UNCHANGED <<design, results, report, review>>
  BY DEF Developer
<1>3. b.written \in BOOLEAN
  BY DEF RetryBundle, Absent
<1>4. b.written => b.context = context /\ b.wanted = wanted
  BY DEF RetryBundle, Absent
<1>5. findings \in Seq(Findings)
  BY InputAssumption DEF ContextInv, NotApproved
<1> HIDE DEF b, findings
<1>6. context \in Budgets /\ \A x \in wanted : Present(code, x) => x \in Named(context)
  BY <1>5, ContextIsSound DEF ContextInv
<1> HIDE DEF context, wanted
<1>7. manifest'.files \subseteq Paths
  BY <1>1, <1>3, InputAssumption
<1>8. ContextWithinBudget'
  BY <1>2, <1>4, <1>6 DEF ContextWithinBudget, Budgets
<1>9. NothingDroppedSilently'
  BY <1>2, <1>4, <1>6 DEF NothingDroppedSilently, Named
<1> QED BY <1>2, <1>7, <1>8, <1>9 DEF ContextInv

LEMMA QaContextInv == QaInv /\ ContextInv /\ Qa => ContextInv'
<1> SUFFICES ASSUME QaInv, ContextInv, Qa PROVE ContextInv'
  OBVIOUS
<1> DEFINE missing == DetectTestsMissing(profile, code, design, manifest)
<1>1. UNCHANGED <<design, manifest, review, bundle, asked>>
  BY DEF Qa
<1>2. missing \in SUBSET Paths /\ profile \in Profiles
  BY MissingArePaths DEF ContextInv, QaInv
<1> HIDE DEF missing
<1>3. (results'.written => results'.failing \subseteq Tests) /\ SoundReport(report')
  <2>1. CASE SetupFails
    <3>1. results' = results /\ report' = EarlyReport(profile, missing)
      BY <2>1 DEF SetupFails, missing
    <3>2. IsFiniteSet(ParseExitCodeOnly(Died).failures)
      BY FS_Singleton, FS_EmptySet DEF ParseExitCodeOnly, ByExitCode, Parsed
    <3>3. SoundReport(report')
      BY <1>2, <3>1, <3>2, FinalizedIsSound DEF EarlyReport
    <3> QED BY <3>1, <3>3 DEF ContextInv
  <2>2. CASE TestsRun
    <3>1. PICK command \in CommandResults(profile, code), exit \in CoverageExits(profile) :
              /\ results' = ResultsFile(profile, results, command)
              /\ report' = TestReport(profile, code, design, manifest, command,
                                      results', exit, measured')
      BY <2>2 DEF TestsRun
    <3>2. command.failing \subseteq Tests
      BY DEF CommandResults, Finished, Died, FailingTests
    <3>3. results'.written => results'.failing \subseteq Tests
      BY <3>1, <3>2 DEF ResultsFile, ContextInv
    <3> DEFINE parsed == ParseTests(profile, command, results')
    <3>4. IsFiniteSet(parsed.failures)
      BY <1>2, <3>3, ParsedFailuresAreFinite
    <3>5. report' = FinalizeTestReport(profile, parsed, missing,
                        CoverageReport(profile, exit, measured'),
                        UnmetCriteria(profile, design, parsed))
      BY <3>1 DEF TestReport, missing
    <3> HIDE DEF parsed
    <3>6. SoundReport(report')
      BY <1>2, <3>4, <3>5, FinalizedIsSound
    <3> QED BY <3>3, <3>6
  <2> QED BY <2>1, <2>2 DEF Qa
<1> QED BY <1>1, <1>3
        DEF ContextInv, ContextWithinBudget, NothingDroppedSilently, Present

LEMMA OtherContextInv ==
    /\ ContextInv
    /\ \/ Reviewer \/ RouteAfterReviewer \/ Redesign \/ DeployHitl \/ Deploy
       \/ UNCHANGED vars
    => ContextInv'
<1> SUFFICES ASSUME ContextInv,
                    \/ Reviewer \/ RouteAfterReviewer \/ Redesign \/ DeployHitl
                    \/ Deploy \/ UNCHANGED vars
             PROVE  ContextInv'
  OBVIOUS
<1>1. /\ results' = results /\ bundle' = bundle /\ asked' = asked
      /\ design' = design \/ design' \in Designs
      /\ review' = review \/ review' \in Reviews \/ ~review'.written
      /\ manifest' = manifest \/ ~manifest'.written
      /\ report' = report \/ ~report'.written
  <2>1. CASE RouteAfterReviewer
    <3>1. \/ UNCHANGED <<manifest, report, review>>
          \/ manifest' = Absent /\ report' = Absent /\ review' = Absent
      BY <2>1 DEF RouteAfterReviewer, Escalate
    <3>2. UNCHANGED <<results, bundle, asked, design>>
      BY <2>1 DEF RouteAfterReviewer, root, history
    <3> QED BY <3>1, <3>2 DEF Absent
  <2>2. CASE Reviewer \/ Redesign \/ DeployHitl \/ Deploy \/ UNCHANGED vars
    BY <2>2 DEF Reviewer, Redesign, DeployHitl, Deploy, vars, root, history
  <2> QED BY <2>1, <2>2
<1> QED BY <1>1 DEF ContextInv, ContextWithinBudget, NothingDroppedSilently, Present

\* What a bundle is made of is sound, and so is what it shows.
THEOREM ContextInductive == Spec => []ContextInv
<1>1. QaInv /\ ContextInv /\ [Next]_vars => ContextInv'
  BY DeveloperContextInv, QaContextInv, OtherContextInv DEF Next
<1> QED BY <1>1, InitContextInv, QaInductive, PTL DEF Spec

\* However many failures, frames and findings there are, however long the
\* snippets: a bundle never has more lines, pieces or files than the limits
\* allow (retry_context.py, prompt_context.py).
THEOREM ContextsKeepToTheBudget == Spec => []ContextWithinBudget
<1>1. ContextInv => ContextWithinBudget
  BY DEF ContextInv
<1> QED BY <1>1, ContextInductive, PTL

\* Every readable file that a failure, a missing test or a finding points to
\* is shown, or named in one of the two lists of what was left out.
THEOREM NothingIsDropped == Spec => []NothingDroppedSilently
<1>1. ContextInv => NothingDroppedSilently
  BY DEF ContextInv
<1> QED BY <1>1, ContextInductive, PTL
=============================================================================
