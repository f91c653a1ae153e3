------------------------------- MODULE TaskBatch -------------------------------
(***************************************************************************)
(* The developer node (agents/developer.py) of one design: each entry into *)
(* it picks a mode, and in mode task_batch runs the plan of                *)
(* DevTaskScheduler batch by batch.  Every call of the model goes through  *)
(* LlmInvoke.  A process may die at any step; the next one comes by        *)
(* `continue`, which resets the budget and forgets the task_batch section  *)
(* of the configuration (_factory_config_from_meta keeps only the limits). *)
(*                                                                         *)
(* A manifest is the tasks_completed and the changed paths; an output of   *)
(* the model is the tasks it says it did and the files it returns, as a    *)
(* function from Paths to line counts (0: not returned).  A file without a *)
(* line is not told apart from no file, and errors of the disk are left    *)
(* out.                                                                    *)
(***************************************************************************)
EXTENDS DevTaskScheduler, LlmInvoke

CONSTANTS
    DependsOnChoices,  \* bound: the dependency graphs a design may have
    Outputs,           \* bound: the answers the model may give
    TaskBatchEnabled,  \* TaskBatchConfig.enabled, of `run`
    Threshold,         \* TaskBatchConfig.threshold, of `run`
    DefaultThreshold,  \* the default threshold, the one `continue` has
    Covered,           \* tasks with covers, whose tests are not inline
    TestPaths,         \* paths that _is_test_path recognises
    MaxFilesPerBatch,  \* TaskBatchConfig.max_files_per_batch
    MaxEntries         \* bound: entries into the developer node

ASSUME DesignAssumption == DependsOnChoices \subseteq [Tasks -> SUBSET TaskIds]
ASSUME OutputsAssumption ==
    \A o \in Outputs : o.done \subseteq TaskIds /\ o.files \in [Paths -> Nat]
ASSUME EntryAssumption ==
    /\ TaskBatchEnabled \in BOOLEAN
    /\ {Threshold, DefaultThreshold, MaxFilesPerBatch, MaxEntries} \subseteq Nat
    /\ Covered \subseteq Tasks
    /\ TestPaths \subseteq Paths

VARIABLES
    mode,     \* impl_mode of the present entry
    index,    \* the batch that runs next
    tries,    \* outputs asked for in this batch
    manifest, \* the manifest being built
    saved,    \* dev_manifest.json; empty when there is no such file
    fault,    \* what ended the last entry that did not return
    entries   \* entries so far (bounded by MaxEntries)

batchVars == <<mode, index, tries, manifest, saved, fault, entries>>
vars == <<phase, planVars, lines, llmVars, batchVars>>

EmptyManifest == [tasks |-> {}, files |-> {}]

Files(output) == {p \in Paths : output.files[p] > 0}

-----------------------------------------------------------------------------
(***************************************************************************)
(* Entries.                                                                *)
(***************************************************************************)
\* resolve_impl_mode.
ImplMode(retried, enabled, threshold) ==
    IF retried THEN "retry_patch"
    ELSE IF enabled \/ Cardinality(Tasks) > threshold THEN "task_batch"
    ELSE "initial"

Enter(retried, previous, enabled, threshold) ==
    LET m == ImplMode(retried, enabled, threshold)
    IN /\ entries < MaxEntries
       /\ entries' = entries + 1
       /\ mode' = m
       /\ index' = 1
       /\ tries' = 1
       /\ manifest' = IF m = "task_batch" THEN previous ELSE EmptyManifest
       /\ fault' = "none"
       /\ IF m = "task_batch"
          THEN StartSort /\ call' = "none"
          ELSE phase' = "invoke" /\ call' = "start" /\ UNCHANGED planVars
       /\ UNCHANGED <<attempt, usage, lines, saved>>

\* The first entry of `run`.
EnterFirst ==
    /\ phase = "idle"
    /\ Enter(FALSE, EmptyManifest, TaskBatchEnabled, Threshold)
    /\ UNCHANGED <<budget, logged>>

\* The implementation loop comes back in the same session.
EnterRetry ==
    /\ phase = "done"
    /\ Enter(TRUE, saved, TaskBatchEnabled, Threshold)
    /\ UNCHANGED <<budget, logged>>

\* A later process: dev_manifest.json may be stale, counters may be reset.
EnterContinue ==
    /\ phase \in {"done", "raised"}
    /\ \E retried, stale \in BOOLEAN :
         Enter(retried, IF stale THEN EmptyManifest ELSE saved,
               FALSE, DefaultThreshold)
    /\ ResetBudget

\* Between two entries the other agents use the same budget.
OtherAgentInvokes ==
    /\ phase \in {"idle", "done"}
    /\ ~ BudgetSpent
    /\ \E cost \in TokenCosts :
         budget' = [calls |-> budget.calls + 1, tokens |-> budget.tokens + cost]
    /\ usage' = usage + 1
    /\ UNCHANGED <<phase, planVars, lines, call, attempt, logged, batchVars>>

\* An exception leaves the node, and the process ends.
Raise(kind) ==
    /\ phase' = "raised"
    /\ call' = "none"
    /\ fault' = kind
    /\ UNCHANGED <<planVars, lines, attempt, budget, usage, logged,
                   mode, index, tries, manifest, saved, entries>>

-----------------------------------------------------------------------------
(***************************************************************************)
(* One round of the batch loop.  What refresh_batch_runtime recomputes is  *)
(* derived here from `lines`; it raises when files written since make the  *)
(* closure of a dependency too long.                                       *)
(***************************************************************************)
Batch == batches[index]

\* validate_batch_closure; the dependency files that are looked for on disk
\* are by definition among those that are there.
Closed(batch) ==
    /\ \A t \in batch : dependsOn[t] \subseteq manifest.tasks
    /\ batch \cap Covered # {} => Required(batch) \cap TestPaths # {}
    /\ Cardinality(Required(batch)) <= MaxRequiredPaths
    /\ EstimatedLines(Required(batch)) <= MaxOutputLines

PlanRefused == phase = "refused" /\ Raise("schedule")

Refreshed(batch) == \A t \in Ancestors(batch) : WithinBudgets(t)

RefreshFails ==
    /\ phase = "batch" /\ index \in DOMAIN batches
    /\ ~ Refreshed(Batch)
    /\ Raise("schedule")

ClosureFails ==
    /\ phase = "batch" /\ index \in DOMAIN batches
    /\ Refreshed(Batch)
    /\ ~ Closed(Batch)
    /\ Raise("closure")

\* The last two rules of validate_batch_closure are about the prompt: it may
\* be too long, or a dependency unreadable, at any batch.
ContextRefused ==
    /\ phase = "batch" /\ index \in DOMAIN batches
    /\ Refreshed(Batch) /\ Closed(Batch)
    /\ Raise("context")

\* The budget is spent between two batches: what is done is returned.
StopOnBudget ==
    /\ phase = "batch" /\ index \in DOMAIN batches
    /\ Refreshed(Batch) /\ Closed(Batch) /\ BudgetSpent
    /\ phase' = "return"
    /\ UNCHANGED <<planVars, lines, llmVars, batchVars>>

BeginBatch ==
    /\ phase = "batch" /\ index \in DOMAIN batches
    /\ Refreshed(Batch) /\ Closed(Batch) /\ ~ BudgetSpent
    /\ phase' = "invoke"
    /\ call' = "start"
    /\ tries' = 1
    /\ UNCHANGED <<planVars, lines, attempt, budget, usage, logged,
                   mode, index, manifest, saved, fault, entries>>

AllBatchesDone ==
    /\ phase = "batch" /\ index \notin DOMAIN batches
    /\ phase' = "return"
    /\ UNCHANGED <<planVars, lines, llmVars, batchVars>>

Invoke ==
    /\ phase = "invoke"
    /\ InvokeStep
    /\ UNCHANGED <<phase, planVars, lines, batchVars>>

\* Faulty variant: a refused call is made again, as if the budget could recover.
InvokeRaisesAgain ==
    /\ phase = "invoke"
    /\ \/ call = "failed" /\ Raise("llm")
       \/ /\ call = "refused"
          /\ call' = "start"
          /\ UNCHANGED <<phase, planVars, lines, attempt, budget, usage, logged,
                         batchVars>>

InvokeRaises ==
    /\ phase = "invoke"
    /\ call \in {"refused", "failed"}
    /\ Raise(IF call = "refused" THEN "budget" ELSE "llm")

\* Faulty variant: paths_complete is not checked.
AcceptableIncomplete(output, batch) ==
    /\ batch \subseteq output.done
    /\ Cardinality(Files(output)) <= MaxFilesPerBatch
    /\ \A p \in Paths : output.files[p] <= 2 * LineHint
    /\ MapThenSumSet(LAMBDA p : output.files[p], Paths) <= MaxOutputLines

\* validate_batch_output.
Acceptable(output, batch) ==
    /\ batch \subseteq output.done
    /\ Required(batch) \subseteq Files(output)
    /\ Cardinality(Files(output) \ Required(batch))
          <= MaxFilesPerBatch - MaxRequiredPaths
    /\ Cardinality(Files(output)) <= MaxFilesPerBatch
    /\ \A p \in Paths : output.files[p] <= 2 * LineHint
    /\ MapThenSumSet(LAMBDA p : output.files[p], Paths) <= MaxOutputLines

\* apply_developer_output writes the files and reports them.
Apply(output) ==
    lines' = [p \in Paths |-> IF output.files[p] > 0
                              THEN output.files[p] ELSE lines[p]]

\* Faulty variant: the batch replaces the manifest.
MergeManifestReplace(output) == [tasks |-> output.done, files |-> Files(output)]

MergeManifest(output) ==
    [tasks |-> manifest.tasks \cup output.done,
     files |-> manifest.files \cup Files(output)]

AcceptOutput ==
    /\ phase = "invoke" /\ call = "returned" /\ mode = "task_batch"
    /\ \E output \in Outputs :
         /\ Acceptable(output, Batch)
         /\ Apply(output)
         /\ manifest' = MergeManifest(output)
    /\ index' = index + 1
    /\ phase' = "batch"
    /\ call' = "none"
    /\ UNCHANGED <<planVars, attempt, budget, usage, logged,
                   mode, tries, saved, fault, entries>>

\* Faulty variant: repeated outputs are not counted.
RejectOutputUncounted ==
    /\ phase = "invoke" /\ call = "returned" /\ mode = "task_batch"
    /\ \E output \in Outputs : ~ Acceptable(output, Batch)
    /\ call' = "start"
    /\ UNCHANGED <<phase, planVars, lines, attempt, budget, usage, logged, batchVars>>

\* An output that breaks a rule is asked for once more, then the node fails.
RejectOutput ==
    /\ phase = "invoke" /\ call = "returned" /\ mode = "task_batch"
    /\ \E output \in Outputs : ~ Acceptable(output, Batch)
    /\ IF tries < 2
       THEN /\ tries' = 2
            /\ call' = "start"
            /\ UNCHANGED <<phase, planVars, lines, attempt, budget, usage, logged,
                           mode, index, manifest, saved, fault, entries>>
       ELSE Raise("output")

\* Modes initial and retry_patch apply one output as it comes.
TakeWholeOutput ==
    /\ phase = "invoke" /\ call = "returned" /\ mode # "task_batch"
    /\ \E output \in Outputs :
         /\ Apply(output)
         /\ manifest' = [tasks |-> output.done, files |-> Files(output)]
    /\ phase' = "return"
    /\ call' = "none"
    /\ UNCHANGED <<planVars, attempt, budget, usage, logged,
                   mode, index, tries, saved, fault, entries>>

\* dev_manifest.json is written once, when the node returns.
SaveManifest ==
    /\ phase = "return"
    /\ saved' = manifest
    /\ phase' = "done"
    /\ UNCHANGED <<planVars, lines, llmVars,
                   mode, index, tries, manifest, fault, entries>>

\* The process is killed.
Die ==
    /\ phase \notin {"idle", "done", "raised"}
    /\ Raise("killed")

Schedule ==
    /\ ScheduleStep
    /\ UNCHANGED <<lines, llmVars, batchVars>>

DeveloperStep ==
    \/ Schedule \/ PlanRefused
    \/ RefreshFails \/ ClosureFails \/ StopOnBudget \/ BeginBatch \/ AllBatchesDone
    \/ Invoke \/ InvokeRaises
    \/ AcceptOutput \/ RejectOutput \/ TakeWholeOutput
    \/ SaveManifest

Init ==
    /\ dependsOn \in DependsOnChoices
    /\ phase = "idle"
    /\ inDegree = [t \in Tasks |-> 0]
    /\ queue = <<>> /\ ordered = <<>> /\ pending = <<>> /\ batches = <<>>
    /\ lines = [p \in Paths |-> 0]
    /\ call = "none" /\ attempt = 1
    /\ budget = NoBudgetUsed /\ usage = 0 /\ logged = 0
    /\ mode = "initial" /\ index = 1 /\ tries = 1
    /\ manifest = EmptyManifest /\ saved = EmptyManifest
    /\ fault = "none" /\ entries = 0

Next ==
    \/ EnterFirst \/ EnterRetry \/ EnterContinue \/ OtherAgentInvokes
    \/ DeveloperStep \/ ContextRefused \/ Die

\* The node runs on by itself once it is entered.
Spec == Init /\ [][Next]_vars /\ WF_vars(DeveloperStep)

-----------------------------------------------------------------------------
(***************************************************************************)
(* Properties.                                                             *)
(***************************************************************************)
Working == phase \notin {"idle", "done", "raised"}

TypeOK ==
    /\ phase \in {"idle", "sort", "group", "refused", "batch", "invoke",
                  "return", "done", "raised"}
    /\ dependsOn \in [Tasks -> SUBSET TaskIds]
    /\ inDegree \in [Tasks -> Nat]
    /\ queue \in Seq(Tasks) /\ ordered \in Seq(Tasks) /\ pending \in Seq(Tasks)
    /\ batches \in Seq(SUBSET Tasks)
    /\ lines \in [Paths -> Nat]
    /\ call \in CallStates
    /\ attempt \in 1..MaxAttempts
    /\ budget \in [calls : Nat, tokens : Nat]
    /\ usage \in Nat /\ logged \in Nat
    /\ mode \in {"initial", "retry_patch", "task_batch"}
    /\ index \in Nat \ {0}
    /\ tries \in 1..2
    /\ manifest \in [tasks : SUBSET TaskIds, files : SUBSET Paths]
    /\ saved \in [tasks : SUBSET TaskIds, files : SUBSET Paths]
    /\ fault \in {"none", "schedule", "closure", "context", "budget", "llm",
                  "output", "killed"}
    /\ entries \in 0..MaxEntries

\* The batches already run have left all their required files on disk, and
\* these files and all their tasks in the manifest, however often their output was repeated and
\* whatever earlier processes left behind.
BatchesRunAreDelivered ==
    (mode = "task_batch" /\ phase \in {"batch", "invoke", "return", "done"}) =>
        \A i \in 1..(index - 1) :
            /\ batches[i] \subseteq manifest.tasks
            /\ Required(batches[i]) \subseteq manifest.files
            /\ \A p \in Required(batches[i]) : lines[p] > 0

\* No batch is ever refused because a task it depends on is missing: the plan
\* and the merged manifest together always satisfy deps_satisfied.
DependenciesAreDone ==
    (phase = "batch" /\ index \in DOMAIN batches) =>
        \A t \in Batch : dependsOn[t] \subseteq manifest.tasks

\* A developer in mode task_batch that returns has done every task, unless the
\* budget is spent: no other failure ends in a manifest with tasks missing.
PartialOnlyOnBudget ==
    (phase = "done" /\ mode = "task_batch" /\ ~ BudgetSpent) =>
        /\ Tasks \subseteq saved.tasks
        /\ \A t \in Tasks, p \in Paths : p \in RequiredPaths[t] => lines[p] > 0

\* run_meta.json and llm_usage.json agree on the calls since the budget was
\* reset, but for the one a process may be killed in the middle of recording.
LedgerAgreesWithLog ==
    budget.calls - (usage - logged) \in
        (IF call = "charged" THEN {1}
         ELSE IF fault = "killed" THEN {0, 1} ELSE {0})

\* Every entry ends: with its retries and repetitions the node returns or
\* raises, and never stays in a loop.
DeveloperEnds == Working ~> ~ Working

\* What an entry has before it, outermost loop first: the parts of the node, the
\* tasks to sort or to group or the batches to run, the outputs that may still
\* be asked for, and the steps of the call.
PartsLeft == CASE phase = "sort"                        -> 5
               [] phase = "group"                       -> 4
               [] phase = "refused"                     -> 3
               [] phase \in {"batch", "invoke"}         -> 2
               [] phase = "return"                      -> 1
               [] OTHER                                 -> 0

ItemsLeft == CASE phase = "sort"  -> Cardinality(Tasks) - Len(ordered)
               [] phase = "group" -> Len(pending)
               [] phase \in {"batch", "invoke"} /\ mode = "task_batch"
                                  -> Len(batches) + 1 - index
               [] OTHER           -> 0

OutputsLeft == CASE phase = "batch"  -> 3
                 [] phase = "invoke" -> 3 - tries
                 [] OTHER            -> 0

CallLeft == CASE call = "start"   -> MaxAttempts + 3
              [] call = "attempt" -> MaxAttempts + 3 - attempt
              [] call = "charged" -> 2
              [] OTHER            -> 1

Work == <<PartsLeft, ItemsLeft, OutputsLeft, CallLeft>>

\* The first component that differs decides.
Less(v, w) == \E i \in 1..4 : v[i] < w[i] /\ \A j \in 1..(i - 1) : v[j] = w[j]

\* Each step of the node leaves it less work, in an order without infinite
\* descent.  Sort, batches, repeated outputs and attempts are loops within
\* loops, and the inner ones start again: no counter of one bounds the node.
EveryDeveloperStepNearerTheEnd ==
    [][DeveloperStep => Work' \in [1..4 -> Nat] /\ Less(Work', Work)]_vars
=============================================================================
