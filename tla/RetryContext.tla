----------------------------- MODULE RetryContext -----------------------------
(***************************************************************************)
(* What a developer is told on a retry (prompt_context.build_retry_bundle, *)
(* retry_context.py): why it was called back, and pieces of the code, one  *)
(* for each frame of each failure, within a budget of lines, of pieces     *)
(* ("functions") and of files.                                             *)
(*                                                                         *)
(* A frame is the path of its file.  LinesOf says how long the snippet of  *)
(* a path is; where in the file it is cut, and a function's name, are left *)
(* out.                                                                    *)
(***************************************************************************)
EXTENDS QaReport, Lists

CONSTANTS
    LinesOf,       \* Paths -> the lines of its snippet
    MaxLines,      \* SNIPPET_MAX_TOTAL_LINES
    MaxFunctions,  \* SNIPPET_MAX_FUNCTIONS
    MaxFiles       \* SNIPPET_MAX_FILES

ASSUME BudgetAssumption ==
    /\ LinesOf \in [Paths -> Nat]
    /\ MaxLines \in Nat /\ MaxFunctions \in Nat /\ MaxFiles \in Nat

-----------------------------------------------------------------------------
(***************************************************************************)
(* Where a failure comes from.  parse_traceback reads the failure's own    *)
(* output, its message and the tail of the whole output as one text, drops *)
(* a frame that occurred before, and reverses what is left.                *)
(***************************************************************************)
\* What the runner prints for one failing test, outermost frame first.
PrintedFrames(code, t) ==
    IF code[t] = "wrong" THEN <<t>> ELSE <<t, Subject[t]>>

InOrder(tests) == Kept(TestFiles, tests)

RawOutputTail(code, report) ==
    Joined([i \in DOMAIN InOrder(report.tail) |->
               PrintedFrames(code, InOrder(report.tail)[i])])

AddNew(seen, f) == IF f \in ToSet(seen) THEN seen ELSE Append(seen, f)

WithoutRepeats(frames) == FoldLeft(LAMBDA seen, f : AddNew(seen, f), <<>>, frames)

\* No frame is found when the language's parser knows no such format.
CallPath(profile, code, report, failure) ==
    IF profile.trace_format # "frames" THEN <<>>
    ELSE Reverse(WithoutRepeats(
             (IF failure \in Tests THEN PrintedFrames(code, failure) ELSE <<>>)
             \o RawOutputTail(code, report)))

\* paired_paths: the source a test is named after, if design or manifest know
\* it.  A failure of no test has no file.
ClosureFrames(profile, failure, design, manifest) ==
    IF failure \notin Tests \/ profile.trace_format = "none" THEN <<>>
    ELSE <<failure>> \o (IF Subject[failure] \in design.plan \cup manifest.files
                         THEN <<Subject[failure]>> ELSE <<>>)

FramesOf(profile, code, report, failure, design, manifest) ==
    LET path == CallPath(profile, code, report, failure)
    IN IF path # <<>> THEN path
       ELSE ClosureFrames(profile, failure, design, manifest)

\* _finding_frames: a finding for the developer, or a blocking one.
FindingFrames(findings) ==
    LET counted == Kept(findings, {f \in ToSet(findings) : f.fix \/ f.blocking})
    IN [i \in DOMAIN counted |-> counted[i].file]

-----------------------------------------------------------------------------
(***************************************************************************)
(* The budget: what was used, what is shown, and the two lists that name   *)
(* what is not - omitted_frames of the failure at hand, and the bundle's   *)
(* code_snippets_omitted_paths.                                            *)
(***************************************************************************)
EmptyBudget ==
    [lines |-> 0, functions |-> 0, files |-> {}, omittedPaths |-> {},
     omittedFrames |-> {}]

OmitFrame(budget, p) == [budget EXCEPT !.omittedFrames = @ \cup {p}]
OmitPath(budget, p)  == [budget EXCEPT !.omittedPaths = @ \cup {p}]

Show(budget, p) ==
    [budget EXCEPT !.lines = @ + LinesOf[p], !.functions = @ + 1, !.files = @ \cup {p}]

\* Faulty variant: a snippet is taken as long as any line is left.
TryExtractFrameWhileRoom(budget, code, p) ==
    IF budget.functions >= MaxFunctions THEN OmitFrame(budget, p)
    ELSE IF p \notin budget.files /\ Cardinality(budget.files) >= MaxFiles
         THEN OmitFrame(OmitPath(budget, p), p)
    ELSE IF ~Present(code, p) THEN OmitFrame(budget, p)
    ELSE IF budget.lines >= MaxLines THEN OmitFrame(OmitPath(budget, p), p)
    ELSE Show(budget, p)

TryExtractFrame(budget, code, p) ==
    IF budget.functions >= MaxFunctions THEN OmitFrame(budget, p)
    ELSE IF p \notin budget.files /\ Cardinality(budget.files) >= MaxFiles
         THEN OmitFrame(OmitPath(budget, p), p)
    ELSE IF ~Present(code, p) THEN OmitFrame(budget, p)
    ELSE IF budget.lines + LinesOf[p] > MaxLines THEN OmitFrame(OmitPath(budget, p), p)
    ELSE Show(budget, p)

\* Faulty variant: a path beyond the budget is passed over.
ExtractIfRoomSilently(budget, code, p) ==
    IF budget.functions >= MaxFunctions THEN budget
    ELSE [TryExtractFrame(budget, code, p) EXCEPT !.omittedFrames = budget.omittedFrames]

\* For tests_missing and findings an omitted frame is dropped with its context.
ExtractIfRoom(budget, code, p) ==
    IF budget.functions >= MaxFunctions THEN OmitPath(budget, p)
    ELSE [TryExtractFrame(budget, code, p) EXCEPT !.omittedFrames = budget.omittedFrames]

(***************************************************************************)
(* build_failure_contexts: the failures, the sources without a test, the   *)
(* findings.  report is the last one, or Absent.                           *)
(***************************************************************************)
FailureFrames(profile, code, report, design, manifest) ==
    LET failures == IF report.written
                    THEN InOrder(report.failures) \o SetToSeq(report.failures \ Tests)
                    ELSE <<>>
    IN Joined([i \in DOMAIN failures |->
           FramesOf(profile, code, report, failures[i], design, manifest)])

FurtherPaths(report, findings) ==
    (IF report.written THEN SetToSeq(report.missing) ELSE <<>>) \o FindingFrames(findings)

ExtractFrames(start, code, frames) ==
    FoldLeft(LAMBDA budget, p : TryExtractFrame(budget, code, p), start, frames)

ExtractEach(start, code, paths) ==
    FoldLeft(LAMBDA budget, p : ExtractIfRoom(budget, code, p), start, paths)

FailureContexts(profile, code, report, design, manifest, findings) ==
    ExtractEach(ExtractFrames(EmptyBudget, code,
                    FailureFrames(profile, code, report, design, manifest)),
                code, FurtherPaths(report, findings))

-----------------------------------------------------------------------------
(***************************************************************************)
(* _resolve_retry_cause and build_retry_bundle.                            *)
(***************************************************************************)
QaFailed(report) == report.written /\ ~report.passed

ReviewRejected(review) ==
    review.written /\ ~review.approved /\ review.next_stage = "developer"

RetryCause(report, review) ==
    CASE QaFailed(report) /\ ReviewRejected(review)   -> "both"
      [] QaFailed(report) /\ ~ReviewRejected(review)  -> "qa_failure"
      [] ~QaFailed(report) /\ ReviewRejected(review)  -> "review_rejection"
      [] ~QaFailed(report) /\ ~ReviewRejected(review) -> "none"

\* Faulty variant: only a failed QA is worth a bundle.
NothingToTellWithoutFailure(report, review) == ~QaFailed(report)

NothingToTell(report, review) ==
    RetryCause(report, review) = "none" /\ ~report.written

\* Faulty variant: feedback only from a review that names the developer.
NotApprovedForDeveloper(review) == ReviewRejected(review)

NotApproved(review) == review.written /\ ~review.approved

RetryBundle(profile, code, design, manifest, report, review, retries) ==
    IF retries <= 0 \/ ~manifest.written \/ NothingToTell(report, review) THEN Absent
    ELSE LET findings == IF NotApproved(review) THEN review.findings ELSE <<>>
         IN [written |-> TRUE,
             cause   |-> IF RetryCause(report, review) = "none" THEN "qa_failure"
                         ELSE RetryCause(report, review),
             report  |-> report,
             review  |-> IF NotApproved(review) THEN review ELSE Absent,
             files   |-> manifest.files,
             wanted  |-> ToSet(FailureFrames(profile, code, report, design, manifest)
                               \o FurtherPaths(report, findings)),
             context |-> FailureContexts(profile, code, report, design, manifest, findings)]
=============================================================================
