# A TLA+ model of multi-agent-code-factory

The factory turns a request into code by running five LLM agents (PM, architect,
developer, QA, reviewer) through a LangGraph graph with validation gates, three
nested retry loops, escalations backwards, and a run directory
`docs/runs/<task-id>/` from which another process can `continue` a task. The
difficult part is not what an agent says but what happens around it: which node
runs next, what each loop may cost, which artifact is still about the present
version of another, what a gate makes of an answer, what an agent that is called back
is told, what a process that dies leaves behind. This directory models
that part, model-checks it with TLC and proves the central invariants with TLAPS.

File names below are relative to `src/multi_agent_code_factory/`.

## 1. The system

| Component | State | Operations | Talks to |
|---|---|---|---|
| Pipeline graph and routing (`graph/`, `graph_routing.py`) | the next node, `PipelineState` | 17 nodes; four routing decisions that count a retry, clear artifacts, mark files stale | every node by its returned patch; run directory |
| Agents as nodes (`agents/*.py`) | none of their own | write one artifact, return it | LLM invocation, run directory |
| Gates and HITL (`nodes/*`) | none | validation report; `hitl.json` | validators, run directory |
| Run directory (`tools/run_artifacts/`, `artifact_loader.py`) | `run_meta.json` (status, counters, stale names, budget), artifact files | init, update, mark_stale, prepare_continue, hydrate | every node, the CLI |
| Continue (`checkpoint.py`, `graph/runner.py`, `__main__.py`) | the reentry node | infer the node, check preconditions, run the gate, enter the graph | run directory, graph |
| Developer task batches (`dev_task_scheduler.py`, `batch_closure.py`, `agents/developer*.py`) | the plan, the manifest being merged, files below `code_root` | sort, group, gate, invoke, gate, apply, merge | LLM invocation, code tree |
| LLM invocation (`agents/llm/`) | used budget, usage log | check, attempt, retry, charge, log | `run_meta.json`, `llm_usage.json` |
| Retry and prompt context (`retry_context.py`, `prompt_context*.py`) | none | select and trim what an agent sees | artifacts |
| QA tools (`tools/`) | none | run tests, find missing tests, trace acceptance criteria, combine into `test_report` | external tools |
| Validators (`validators/`) | none | rules on PRD and design, verdict by `block_on` | artifacts, profile |
| Configuration and profiles (`config.py`, `profile_config/`) | none | merge defaults, YAML, environment, command line | all |
| Renderers, parsers, providers, logging, prompts | none | text in, text out | - |

`PROJECT.json` lists each part with its sources and status.

What is hard in it, and what correctness means there:

- *Stale knowledge.* A verdict in the state or on disk may be about an older
  version of what it judges; every backward edge must clear it. Correct: nothing
  is deployed unless the whole chain of artifacts is current (`ReleaseGate`).
- *Nested loops.* A review may throw a run back to any agent while other counters
  are half spent. Correct: counters stay in their limits and every session ends.
- *Crash and continue.* Nodes write a file, then the graph takes their patch;
  counters reach the disk only in the two terminal nodes. Correct: what continue
  loads is what the session held; a failed run can be taken up; a completed one
  cannot.
- *Partial work.* The developer runs a plan of batches, each with its own retries,
  under a budget that may end between any two calls. Correct: what counts as done
  is delivered, and a partial result is returned for one reason only.
- *Two records of one event.* A call is charged in `run_meta.json` and logged in
  `llm_usage.json`.
- *Rules that repeat one another.* The renderer writes the sections the gate looks
  for, the enrichment fills what the rules ask for, the scheduler sorts what the gate
  let through; each is written on its own. Correct: they agree (`gate`).
- *Files that outlive a run.* Test results and coverage lie in `code_root` until the
  next command overwrites them, if it does. Correct: only code that was tested as it
  is gets deployed (`DeployedCodeWasTested`).
- *A retry that knows nothing.* Mode and content of the developer's call are decided
  from different fields, and three budgets cut the content. Correct: every retry is
  told why, and what was cut is named.

## 2. The modules

```
Routing          the four decisions of graph_routing.py (operators, no state)
  RunArtifacts   run_meta.json, artifact files, reentry inference (operators)
    Pipeline     the state machine of one task across processes
      PipelineClaims   what documents say and the code does not do
        MCPipeline     constants for TLC
      PipelineProofs, ReleaseProofs, ContinueProofs
ReleaseProtocol  the abstract promise Pipeline implements

DevTaskScheduler Kahn's sort and the grouping into batches   \  both extended by
LlmInvoke        one structured call with retries and budget /
  TaskBatch      the developer node, entry by entry
    TaskBatchClaims, MCTaskBatch
    BudgetProofs, DeveloperProofs

Lists            list comprehension and list.extend as folds, for the next two
SequenceProofs   lemmas on folds and lists, for the proofs of all components but Pipeline

GateReport       verdict and feedback of a validation report (operators)
  PrdRules       normalizer, rules and Markdown of the PRD (operators)
    DesignRules  rules and Markdown of the design (operators)
      DesignEnrichment   from a model's answer to design.json (operators)
        ValidationGate   PM, architect, both gates, file by file
          MCValidation, GateProofs

QaReport         commands, parsers, detectors, the test report (operators)
  RetryContext   the retry bundle and its budget (operators)
    QaLoop       developer, QA, reviewer, deployment over one code_root
      QaClaims, MCQa, QaProofs
```

### Pipeline

| In the model | In the code |
|---|---|
| `pc` | the LangGraph node that runs next; `hydrate` and `gate` are the two phases of `continue_pipeline` before the graph |
| `doc`, `count` | the artifact fields and counters of `PipelineState` |
| `meta`, `disk` | `run_meta.json`, the artifact files with the verdict in each |
| `reentry`, `sessions` | the node a `continue` enters at; how many processes were started |
| `chain` | history only: how many artifacts of prd, prd_validation, design, design_validation, dev_manifest, test_report, review are each made from the present version of those before it |
| `Pm` ... `Fail` | one action per graph node, with its write, patch and counters |
| `StartRun`, `ContinueBegin`, `ContinueAt...`, `ExecuteGate` | `run_pipeline`, `continue_pipeline` |
| `Abort` | a killed process, or an exception that leaves a node: status stays `running` |

An artifact is the verdict the routing reads in it. What an agent or a gate
answers is a free choice among the verdicts its schema allows. A process that dies
between the write of a node and its patch is the node's action followed by `Abort`,
since the process's memory is lost in both.

`InvokeRestarts` is the one external assumption. `graph/runner.py:366` calls
`app.invoke` with a non-empty input on a thread it has just updated with
`update_state(as_node=...)`. LangGraph takes an input as a new pass from START
(TRUE); the design notes describe `invoke(None)`, which resumes after the node
(FALSE). LangGraph is not in the repository, so both are modelled, one per run, and
every theorem says which it holds for. In the TRUE semantics the routes of
`continue` still run their gate first, then the whole graph.

### The developer

`DevTaskScheduler` has one step per iteration of `kahn_sort_tasks` and of
`schedule`. `LlmInvoke` has one step for the budget check, for a failed attempt,
for the charge and for the log entry of a successful one, so that a process can die
between the last two. `TaskBatch` puts them into the developer node: `Enter...`
picks a mode as `resolve_impl_mode` does; the batch loop refreshes, gates, checks
the budget, invokes, gates the output, asks at most once more, applies and merges;
`SaveManifest` writes `dev_manifest.json` once at the end. `lines` is the code tree.
Between entries other agents use the same budget (`OtherAgentInvokes`). `continue`
resets the used budget and does not restore the `task_batch` section of the
configuration, so a later entry uses `DefaultThreshold`.

An output of the model is a set of claimed tasks and a line count for each file.
The gates of the output are modelled rule by rule except `paths_safe`; of the
prompt only that it may be refused (`ContextRefused`).

### The gates

A PRD and a design are records of what the rules look at. A text is one of `Texts`:
absent, blank, what the agent wrote, what a normalizer put in its place; a list whose
order or repetition a rule depends on is a sequence, any other a set. A violation is
its rule and severity. `GateReport` is what all reports share: relabelling by
`semantic_block_on`, the verdict, the routing's test, the feedback. `PrdRules` and
`DesignRules` have one operator per group of rules, as the validators have one
function; `RenderPrd` and `RenderDesign` say which sections and ids a Markdown file
has, as the Markdown rules look for them. `DesignEnrichment` is what happens to a
model's answer before it is written: aliases of the schema, joined tasks, defaults.

`ValidationGate` runs them: `Pm` and `Architect` write the diagrams, the JSON file and
the Markdown file in the order of the code, one action each, so that `Crash` can fall
between them and `Continue` find an old `design.md` beside a new `design.json`. Agents
answer from `RawPrds` and `Answers`, which see the last report, and may ignore it.
`Developer` is the sort of the tasks, again without recursion, on the list as it is:
repeated ids and unknown dependencies included, which `DevTaskScheduler` rules out.
`IsPrd`, `IsDesign` and `Tasks` are the schemas as far as a rule reads them; since a schema
refuses an answer or fills in a default, `AnswersAssumption` lets nothing else through. A
task carries whether its description is blank and how long it is, because joining two tasks
keeps the longer one, be it blank.

### The test loop

`code` maps a path to good, wrong, good with inline tests, or absent; the test command
is external and its verdict a function of `code`, or it dies and writes nothing.
`results` and `measured` are the files it leaves, which are read again if a later
command does not replace them. `QaReport` turns them into `test_report` in the order of
`run_tests`: detection of missing tests, command, parser, coverage, traceability,
`FinalizeTestReport`; `BlockReason` is the other reading of the same gates.
`RetryContext` builds what the developer is told: the cause, the failures, and for
each frame a piece of code as long as lines, pieces and files last, with what was left
out. `QaLoop` runs both with the reviewer and the four routes; `Redesign` stands for
everything behind the escalation to the architect. `asked` and `tested` are history
variables.

## 3. What the runs show

Every passing run checks each property against a faulty variant of the code too
(an operator whose comment begins "Faulty variant", paired in `PROJECT.json`).

| Run | Question | Bounds |
|---|---|---|
| `resume` | Crashes and plain `continue`: is anything current lost, can failed runs be taken up, is the promise kept? (`InvokeRestarts` FALSE) | 4 sessions, one retry per loop, escalation at limits, PRD HITL |
| `operator` | An operator who names nodes, takes up completed tasks and forces new runs (`InvokeRestarts` TRUE) | 3 sessions, one retry per loop |
| `developer` | Batches, repeats, budget and crashes in the developer node | 3 tasks, 5 graphs, 7 outputs, 3 entries, 4 calls, 3 tokens, 2 attempts |
| `gate` | Do gates, enrichment, renderers, routing and scheduler agree? | 17 PRDs, about 100 designs, 6 policies, one revision of each artifact, one crash |
| `qa` | What is deployed, and what is a developer told that is called back? | 3 sources, 2 tests, 6 profiles, 2 designs, 2 states of `code_root`, 2 retries, 1 redesign; 5 lines, 3 pieces, 2 files |
| `stale`, `completed`, `restart`, `escalation`, `schedule`, `budget`, `uninformed` | One documented statement each that the code does not keep | as small as shows it |

The bounds are large enough for the cases that matter. One retry per loop reaches
both sides of every limit comparison and all nestings of the three loops. Two
sessions are needed to lose something, three to lose it in a session that was
itself continued. Three tasks give a task with two dependencies, a chain, a cycle
and an unknown id; with a required-path budget of two and one extra path, outputs
exist that are within the rules and still change a file of another task. Four calls
let a plan of three batches finish with one repeat, or stop in the middle. Three
entries are the first one, a retry patch and a continuation after it.

In `gate` the PRDs and designs are one good one each, changed at one place at a time
(and a few at two), so that every rule has an artifact that breaks it and one that does
not; one revision gives a report that is about an artifact already replaced, and one
crash each mixture of old and new files. In `qa` two failing tests of which one is long
are more than the budget holds, so each of the three limits is the one that bites in
some state; two retries give a bundle made from a report that was itself a retry's,
and the redesign the state in which counter and report disagree.

Properties of `Pipeline`: `TypeOK`; `LoopsBounded`; `EveryStepNearerTheEnd` (each
step of a session lowers a rank, hence a session takes at most
19 + 13·prd + 9·design + 5·impl steps); `SessionEnds`; `ReleaseGate`;
`CrashLosesNothing`; `FailedRunContinues`; `FailedMeansLimitReached`;
`ImplementsReleaseProtocol` (refinement of `ReleaseProtocol`).

Properties of `TaskBatch`: `TypeOK`; `BatchesRespectDependencies` (the plan is a
topological order of the batches, with one task to a batch); `BatchesRunAreDelivered`;
`DependenciesAreDone` (the `deps_satisfied` gate never fires); `PartialOnlyOnBudget`;
`BudgetHolds` (calls never pass their maximum, tokens by less than one call);
`LedgerAgreesWithLog`; `EveryDeveloperStepNearerTheEnd` (every step lowers `Work`: batches,
items of the batch, outputs of the item, what is left of the call); `DeveloperEnds`.

Properties of `ValidationGate`: `TypeOK`; `PassedDesignIsPlanned` (what a blocking gate
let through the developer can sort, each task and file once); `RejectionsAreExplained`;
`LenientNeverStricter` (a profile that blocks less sends back less); `RenderedDesignAgrees`
(a fresh `design.md` lacks a section only if the design lacks the matter);
`PassedPrdIsDesignable` (for a PRD that passed, and whatever diagram files are left, a
design made from that PRD alone, `PlainDesign`, passes); `EnrichmentRepairs`
(delta and cross-cutting sections are there afterwards; a strategy, unless it is copied from
a blank text; goals, if the PRD has a title, a summary or a P0 feature);
`EnrichmentBreaksOnlyOrder`; `FlaggedDesignIsReviewed`; `MarkdownNeverDecides`.

Properties of `QaLoop`: `TypeOK`; `DeployedCodeWasTested` (the code that is deployed is
the code a command succeeded on); `FailuresAreClassified`; `RetryIsInformed` (a bundle is
about the code that was tested and the refusal that was made); `RejectionReachesDeveloper`
(on one design, every retry has a bundle); `ContextWithinBudget`;
`NothingDroppedSilently`; `SnapshotsKept`.

### Where the code disagrees with its documents

Each has a run whose counterexample shows the story; `PROJECT.json` quotes the lines.

- `stale`: nothing ever takes a name off `stale_artifacts`, so after one PRD retry a
  failed design gate is invisible to `continue`.
- `completed`: `continue --reenter` takes up a completed task.
- `restart`: with LangGraph's treatment of an input, the PM runs again after
  `continue`.
- `escalation`: the route that sends a run back clears the review the next agent is
  said to read.
- `schedule`: with more than one task to a batch, grouping puts a task ahead of the
  one it depends on.
- `budget`: a budget that runs out before the second output of a batch raises, and
  the finished batches never reach `dev_manifest.json`.
- `uninformed`: a redesign clears report, review and manifest but keeps
  `impl_retry_count`: the developer works in `retry_patch` mode without a bundle.

What follows was met while modelling; the model does what the code does, and no run is
spent on it.

- *Continue.* Reentry at the architect needs no PRD validation, only no failed one
  (`checkpoint.py:154-159` against `docs/design/pipeline/artifact-continue-design.md:179`).
  `--force-new` keeps the old artifact files (`graph/runner.py:199`), and a crash before
  the PM's first write lets `continue` work on them: hence the condition of
  `NothingIsLost`. After a continue, the snapshots of failed reports are numbered from
  the counter in `run_meta.json` and may replace those of an earlier session. Where a gate does not
  block (`block_on` other than `error`), `continue` still runs the gate of a failed report again;
  if it passes and the process dies, the next `continue` cannot see that the products behind
  it were to be made anew and goes on with the old ones: hence `BlockPrd` and `BlockDesign`
  in `ReleaseGuardedOnResume`.
- *Gates.* A test id without a hyphen raises `IndexError` in the design gate
  (`design_rules_extended.py:263`). A registered diagram path that is no `.mmd` file
  aborts the architect. A disabled gate drops `require_hitl`. `semantic_block_on: error`
  is without effect when `block_on` is not `error`, and leaving it unset differs from
  writing `warn` under `block_on: warn`. A repeated module name hides a repeated domain
  (DES-027). PRD-106 cannot fail once there is any criterion. DES-032 does not ask whether
  `module_ref` names a module. Old `*.mmd` files are never removed. Joining the tasks of one
  path can make a task depend on itself (DES-005) or on an id that is gone (DES-004), and
  a missing strategy discards the rest of `architecture`. For a PRD without title, summary
  and P0 feature the enrichment finds no goals: an earlier form of `EnrichmentRepairs` said
  it does, which no PRD of the run refuted and no proof would go through for.
- *QA.* Coverage with the default parser `exit_code_only` raises `ValueError`
  (`models.py:64` against the registry). The results of an earlier command are read when
  this one dies; the exit code still fails the report, but the failures named are the old
  ones. A retry patch narrows the search for missing tests to its own files
  (`tests_missing.py:160`), and its manifest hides the sensitive paths of the first one
  from `deploy_hitl`.
- *Retry context.* A review that is not approved and names no stage is labelled
  `qa_failure`; one that approves and names the developer gives a bundle with a passed
  report and no review. The tail of the raw output belongs to every failure's text and
  frames are read in reverse, so each failure's first frame is the last failure's
  innermost (`retry_context.py:118-130`; the specification calls the tail a fallback).

### Fairness and deadlock

`WF_vars(SessionStep)` and `WF_vars(DeveloperStep)`: both are sequential code in one
process that waits for nobody but a model, whose client returns or raises. Nothing
obliges an operator to start a process (`StartRun`, `ContinueBegin`, `Enter...`) and
nothing obliges one to die. `ValidationGate` and `QaLoop` state no fairness: their
loops are those of `Pipeline`, whose end is shown there. The runs say
`CHECK_DEADLOCK FALSE` because a task may rest: completed, failed, or at the bound on
processes.

## 4. What is proved

Every theorem is an invariance (or step) argument for all values of the constants.
What it takes for granted is only the named ASSUMEs of the modules, which say that
limits are natural numbers, that sets of ids are finite, that `sorted()` lists a set
without repetition, that parsers and policies are among those the code knows, that a
patch stays in the paths of the model, that an answer is one the schemas let through; TLC
evaluates them in every run. Further
conditions stand in the theorem itself.

**Types, counters, length of a session** (`PipelineProofs`). The inductive invariant is
`IInv`: `TypeOK`, `LoopsBounded` and `IdleIsEmpty` (the counters in memory are zero until
`hydrate` has loaded those of `run_meta.json`). `LoopsBounded` speaks of both copies of the
counters and is not inductive alone: a route is only known to spend a retry of the loop
whose limit it looked at if the verdict it reads is one the schema allows, which is
`TypeOK`. `IdleIsEmpty` is what lets the rank fall when the counters are loaded. From
`IInv`: `TypeCorrect`, `CountersBounded`, and `SessionsShrink`. The last is the argument for
termination: `Rank` is the distance to the end of the graph plus, for each loop, what its
remaining retries may cost, and every step of a session lowers it, forward steps by the
distance and backward ones by a retry that outweighs it.

**Failure** (`FailureExplained`). Strengthened by `FailInv`: whoever stands at `fail` or
`escalation_hitl` has a counter at its limit now. Each routing decision is shown `Forced`
separately from the step that takes it. Holds for every operator and both semantics.

**Release** (`ReleaseGuarded`, assumes `InvokeRestarts`). `GateInv` says for each node how
much of the chain is current when it runs (`Made`) and which gates have passed
(`BehindPrd`, `BehindDesign`, ...); the node `deploy` is the last row. It holds for
every operator, one who forces new runs on old artifacts included.

**Release after a resume** (`ReleaseGuardedOnResume` in `ContinueProofs`; assumes that
`InvokeRestarts` is FALSE, both gates block, nobody uses `--force-new` or names the node).
The rows of `GateInv` at the nodes a session may enter now rest on what it loads, and
`ResumeInv` says what keeps outdated products out of that. A design or manifest that is loaded
is current and passed its gates, unless the review beside it is the one that overruled it
(`CurrentInv`); marks come in whole sets (`MarksInv`); where a product is made anew, what was
made from the old one is marked or overruled (`PlaceInv`); and the inferred node has its reason:
the rules before it did not apply (`EntryInv`, `InferredForAReason`). All four rest on
`CrashInv` and `HeldInv` below.

**Refinement** (`PipelineImplementsReleaseProtocol`, `ResumeImplementsReleaseProtocol`; each
assumes what `ReleaseGate` needs in its semantics, no `--force-new`, and an operator who does
not name the node). Every step of the pipeline is a step of `ReleaseProtocol` or leaves its
variables alone. The last two conditions are needed: both options leave a state the protocol
has no step for.

**Continue** (`ContinueProofs`). `NothingIsLost` assumes no `--force-new`; its invariant
adds that without `run_meta.json` there are no artifact files, and its lemma is that a
decision marks stale on disk all that it clears in memory (`DecisionsMark`).
`FailedRunsContinue` holds for every operator and both semantics. `HeldInv` says that the
state holds nothing the directory does not, and that an artifact on disk lies beside
what it was made from, since nothing removes a file; `ExplainInv` that a limit route
leaves on disk one of the reasons `infer_reentry_node` looks for. `ExplainedIsTakenUp` then
goes through the nine rules: whichever comes first, its node's preconditions hold.

**Budget and ledger** (`BudgetProofs`). `LlmInv` adds to `BudgetHolds` and
`LedgerAgreesWithLog` that a call is in progress in phase `invoke` only, that an attempt
under way found the budget unspent, and that a fault is remembered only until the next
entry. Without the second, a charge could be made on a spent budget. `BudgetKept` and
`LedgerKept` hold for any retry policy, any other agents and any number of processes.

**The developer** (`DeveloperProofs`). `ScheduleInv` is Kahn's argument: `inDegree[t]` is the
number of dependencies of `t` not sorted yet, and the queue holds exactly the tasks that have
none left (`SortInv`), so what is appended comes after all it depends on (`OrderInv`); as many
sorted tasks as there are tasks are all tasks (an injection between finite sets of equal
size). The same argument keeps the counters from falling below zero (`DeveloperTypes`), for
cyclic graphs and unknown ids too. While tasks are grouped, each is in a batch or pending, and
pending once (`GroupInv`): a group takes the first pending task, and none but pending ones
(`NextGroupChosen`, the fold of the grouping loop). `DeliveryInv` says that all batches below
the index are delivered and when the loop may be left. Together they give `BatchesDelivered` and
`PartialMeansBudget`, for any size of a batch.

Two theorems assume `MaxTasksPerBatch = 1`, the default: the batches are then cut off the sorted
tasks in order (`OneByOne`), hence `PlanIsTopological`, and with delivery
`DependenciesAlwaysDone`. For larger batches these are no theorems: the run `schedule`
refutes the order.

`DeveloperWorkShrinks` is about loops within loops: attempts within a call, a refused output
that is asked for again within a batch, batches within a plan, the plan behind a sort. An inner
loop starts again with each turn of an outer one, so no counter of one bounds the node. `Work`
has a component for each, outermost first, and every step lowers one and keeps those before it;
that the components are natural numbers is `WorkInv`, which needs that a sort never holds more
tasks than there are (`SortedAtMostOnce`, from `OrderInv`).

`EntriesAreShort` makes that a number of steps: an entry takes fewer than
24·(tasks + 1)·(attempts + 4), whatever the plan, the answers and the failures. `StepsLeft` reads
`Work` as the digits of a number (`LeadingDigits`), which needs a range for each
(`WorkIsBounded`): there are no more batches than tasks, because a group is never empty and what
it takes is pending no more (`GroupInv`, `LessPending`). What is left of `DeveloperEnds` is what
fairness gives: that a step is taken.

**Lists** (`SequenceProofs`). The provers cannot instantiate the library's induction theorems.
What holds for lists of every length is proved from a least counterexample: the lengths at
which a claim fails are a set of numbers, and if that is not empty it has a least member,
which the step refutes (`SetInduction`, `BoundedInduction`). A fold has a list of
intermediate results (`FoldExists`, `FoldRun`), one per iteration of the loop it models, over
which one can induct.

**The gates** (`GateProofs`), for all PRDs, designs and policies. `RefusalsExplained`: a
failed verdict has an error, relabelled or not (`FailedReportHasError`), and while no
process died a design report at the architect is about this PRD. `FlaggedReviewed`: the
report at `developer` was made of the design at `developer`. `MarkdownPowerless`: every rule
that reads a Markdown file warns, and warnings take no part in a verdict.
`LenienceIsMonotone`: relabelling and passing are each monotone in the order never, warn,
error, which needs that the reports at hand hold only errors and warnings.
`FreshMarkdownAgrees` compares the sections of `RenderDesign` with the rules that ask for
them, for every design.

`ArtifactsAreThere` (`TypeOK`) rests on `ArtifactsInv`, which says at each node what lies in the
directory and of what kind it is, wherever the crash falls. `EnrichmentKeepsItsPromise` follows an
answer through the defaults, one rule at a time. For `EnrichmentIsHarmless`, `Deduped` is the
invariant of the loop that joins tasks: what is kept are the paths seen so far, each once and
with all that its tasks cover; so the rules other than the two on dependencies find in the joined
list only what they found before. `PassedDesignsAreOrdered` is Kahn's argument again, for lists
that may repeat ids and name unknown ones (`KahnInv`); without cycle (DES-005), repetition or
unknown id the sort reaches every task, and `PlanInv` carries that from the gate to the developer.

`PassedPrdsAreDesignable` takes the two gates together: of a PRD that passed, the PRD rules leave
no demand that the design rules cannot be given. The witness is `PlainDesign`, made from the PRD
alone: one task, one module, four test cases that cover all it names. `PlainIsComplete` shows
that coercion and enrichment leave it as it is, the lemmas after it that it breaks none of the
fifteen groups of rules but for warnings (`PlainConstraint`: for any semantic constraint), and
`PlainDiagrams` that files an earlier answer left are no obstacle, because an answer may write
every one of them anew. Of the verdict on the PRD the proof uses one rule, PRD-001: without a
criterion and a P0 feature there would be no row for DES-009. Of the constants it uses that
some path stays in `code_root` (`TasksAssumption`) and that APP is a well-formed domain
(`DomainsAssumption`).

**The test loop** (`QaProofs`). `QaInv` says at each node what `report`, `tested` and
`code` have to do with each other: behind QA the report passed and is about the code in
`code_root`, and a developer that has a manifest has a report of the code it patches. A
report passes only on exit code 0, because every parser keeps the exit code of the command
whatever it reads in old files (`ParsersKeepExit`); hence `OnlyTestedCodeIsDeployed`.
`RetriesAreInformed` and `RejectionsArrive` need that the retry count is positive only after
a report or a review that is still there, which a redesign ends (`revisions = 0` in the
second). They are read together: the second says that a retry has a bundle, on one design only,
and the first what a bundle holds. `SnapshotsAreKept`: a snapshot's number is the count, and
the count only grows.

`ContextsKeepToTheBudget` and `NothingIsDropped` are for failures, frames and findings of any
number and pieces of any length: each step of the two folds that spend the budget stays within
its three limits and shows or names the frame at hand. `ContextInv` adds what the folds
run over: finite lists of failures, and findings and paths of their kinds.

Only model-checked: the two liveness properties, `SessionEnds` and `DeveloperEnds`. The provers
know no fairness; of each the measure it rests on is a theorem (`SessionsShrink`,
`DeveloperWorkShrinks` and `EntriesAreShort`). For an operator who names
the node `ReleaseGate` is a theorem only where sessions restart at the PM; where they resume
it does not hold, since `--reenter` passes over the review that overruled a product.

## 5. What is not modelled

Human edits of the run directory; truncated or unreadable files; two processes on one task;
limits, profile or request that change between processes; time stamps; `review.md`; the text
of prompts, reports, Markdown files and feedback; deployment itself (the node only records
it). In the developer: file contents beyond their length, empty files, errors of the disk,
the linter. In the gates: the patterns of ids and the words a rule looks for (a text is one
that matches or one that does not), the participants of diagrams (DES-204), rules that no
property tells apart (they share a definition, whose "map" names them all). In the test
loop: the formats of foreign tools (one event parser, one coverage parser and one traceback
parser stand for those of each kind), line numbers and the cutting of snippets, the contexts
of agents other than a developer on a retry, and the trimming of whole prompts. Loading and
merging of configuration and profiles: they are fixed before a run starts. LLM clients,
tracing and prompt templates are text or pure I/O and are left out for good.

## 6. Plan

Done: Routing, RunArtifacts, Pipeline, ReleaseProtocol; DevTaskScheduler, LlmInvoke,
TaskBatch; the gates; the test loop; the proofs of section 4. What is left, in order:

1. `Trim`: in which order `prompt_context_trim.py` gives up parts of a prompt, and that
   what it never gives up fits; the contexts of PM, architect and reviewer.
2. `Configuration`: precedence of defaults, YAML, environment and command line, and what
   `continue` restores from `run_meta.json`.
3. Proofs: that what `Trim` keeps fits its budget.
4. Liveness of `QaLoop` on its own, and `QaLoop` with crashes.
