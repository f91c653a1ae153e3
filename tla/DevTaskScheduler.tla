--------------------------- MODULE DevTaskScheduler ---------------------------
(***************************************************************************)
(* The execution plan of the developer (dev_task_scheduler.py): Kahn's     *)
(* topological sort of design.dev_tasks, one step per iteration of its     *)
(* loop, then the grouping of the sorted tasks into batches.               *)
(*                                                                         *)
(* A task is its id; what it must deliver (its path, the file_plan entries *)
(* and the test paths that belong to it) is the constant RequiredPaths.    *)
(* depends_on is a list in the code and a set here.  It may name ids that  *)
(* no task has, and it may be cyclic: the rule that forbids it (DES-005)   *)
(* does not block under every profile.                                     *)
(***************************************************************************)
EXTENDS Naturals, Lists

CONSTANTS
    Tasks,             \* ids of design.dev_tasks
    TaskIds,           \* ids that depends_on may name
    Sorted,            \* external: Python's sorted() on ids
    Paths,             \* files below code_root
    RequiredPaths,     \* required paths of a task's closure
    MaxTasksPerBatch,  \* TaskBatchConfig.max_tasks_per_batch
    MaxRequiredPaths,  \* max_files_per_batch - max_extra_output_paths
    LineHint,          \* TaskBatchConfig.max_lines_per_file_hint
    MaxOutputLines     \* TaskBatchConfig.max_output_lines_per_batch

ASSUME TasksAssumption ==
    IsFiniteSet(TaskIds) /\ Tasks \subseteq TaskIds
ASSUME SortedAssumption ==
    /\ Sorted \in [SUBSET Tasks -> Seq(Tasks)]
    /\ \A S \in SUBSET Tasks :
          ToSet(Sorted[S]) = S /\ IsInjective(Sorted[S])
ASSUME PathsAssumption == RequiredPaths \in [Tasks -> SUBSET Paths]
ASSUME BatchConfigAssumption ==
    /\ MaxTasksPerBatch \in Nat \ {0}
    /\ MaxRequiredPaths \in Nat
    /\ LineHint \in Nat \ {0}
    /\ MaxOutputLines \in Nat \ {0}

VARIABLES
    phase,     \* where run_developer is; "sort", "group" and "refused" here
    dependsOn, \* design.dev_tasks[].depends_on
    inDegree,  \* kahn_sort_tasks: in_degree
    queue,     \* kahn_sort_tasks: queue
    ordered,   \* kahn_sort_tasks: ordered
    pending,   \* schedule: tasks not in a batch yet
    batches,   \* schedule: the batches so far, as sets of tasks
    lines      \* lines of each file below code_root, 0 when there is none

planVars == <<dependsOn, inDegree, queue, ordered, pending, batches>>

Required(group) == UNION {RequiredPaths[t] : t \in group}

\* estimated_output_lines: a file on disk by its length, a new one by the hint.
EstimatedLines(paths) ==
    MapThenSumSet(LAMBDA p : IF lines[p] > 0 THEN lines[p] ELSE LineHint, paths)

\* The budgets expand_task_closure enforces on a single task.
WithinBudgets(t) ==
    /\ Cardinality(RequiredPaths[t]) <= MaxRequiredPaths
    /\ EstimatedLines(RequiredPaths[t]) <= MaxOutputLines

\* The tasks a group depends on, directly or through others: the expansion of
\* a closure expands the closures of the dependencies, and checks them too.
Ancestors(group) ==
    {t \in Tasks : \A S \in SUBSET Tasks :
        (\A u \in group \cup S : dependsOn[u] \cap Tasks \subseteq S) => t \in S}

-----------------------------------------------------------------------------
(***************************************************************************)
(* kahn_sort_tasks.                                                        *)
(***************************************************************************)
StartSort ==
    /\ phase' = "sort"
    /\ inDegree' = [t \in Tasks |-> Cardinality(dependsOn[t])]
    /\ queue' = Sorted[{t \in Tasks : dependsOn[t] = {}}]
    /\ ordered' = <<>>
    /\ pending' = <<>>
    /\ batches' = <<>>
    /\ UNCHANGED dependsOn

\* Faulty variant: a task is released when its first dependency is done.
ReleasedByEager(node) == {t \in Tasks : node \in dependsOn[t] /\ inDegree[t] >= 1}

\* The tasks whose last missing dependency is `node`.
ReleasedBy(node) == {t \in Tasks : node \in dependsOn[t] /\ inDegree[t] = 1}

SortNext ==
    /\ phase = "sort" /\ queue # <<>>
    /\ LET node == Head(queue)
       IN /\ ordered' = Append(ordered, node)
          /\ inDegree' = [t \in Tasks |-> IF node \in dependsOn[t]
                                          THEN inDegree[t] - 1 ELSE inDegree[t]]
          /\ queue' = Tail(queue) \o Sorted[ReleasedBy(node)]
    /\ UNCHANGED <<phase, dependsOn, pending, batches>>

\* Tasks that never became free are on a cycle, or wait for an unknown id.
SortEnd ==
    /\ phase = "sort" /\ queue = <<>>
    /\ IF Len(ordered) = Cardinality(Tasks)
       THEN phase' = "group" /\ pending' = ordered
       ELSE phase' = "refused" /\ UNCHANGED pending
    /\ UNCHANGED <<dependsOn, inDegree, queue, ordered, batches>>

-----------------------------------------------------------------------------
(***************************************************************************)
(* schedule: the first pending task and, when batches may hold several,    *)
(* each later one that can join the group.                                 *)
(***************************************************************************)
CanBatchTogether(group) ==
    /\ \A t \in group : dependsOn[t] \cap group = {}
    /\ Cardinality(Required(group)) <= MaxRequiredPaths

JoinGroup(group, t) ==
    IF /\ Cardinality(group) < MaxTasksPerBatch
       /\ CanBatchTogether(group \cup {t})
    THEN group \cup {t} ELSE group

NextGroup ==
    IF MaxTasksPerBatch = 1
    THEN {Head(pending)}
    ELSE FoldLeft(LAMBDA group, t : JoinGroup(group, t),
                  {Head(pending)}, Tail(pending))

\* A task whose closure breaks a budget is a DevTaskScheduleError.
GroupNext ==
    /\ phase = "group" /\ pending # <<>>
    /\ IF \A t \in NextGroup \cup Ancestors(NextGroup) : WithinBudgets(t)
       THEN /\ batches' = Append(batches, NextGroup)
            /\ pending' = IF MaxTasksPerBatch = 1 THEN Tail(pending)
                          ELSE Kept(pending, ToSet(pending) \ NextGroup)
            /\ UNCHANGED phase
       ELSE phase' = "refused" /\ UNCHANGED <<batches, pending>>
    /\ UNCHANGED <<dependsOn, inDegree, queue, ordered>>

GroupEnd ==
    /\ phase = "group" /\ pending = <<>>
    /\ phase' = "batch"
    /\ UNCHANGED planVars

ScheduleStep == SortNext \/ SortEnd \/ GroupNext \/ GroupEnd

-----------------------------------------------------------------------------
\* developer-task-batch-spec.md:157 (G2): the tasks of a batch depend only on
\* tasks of earlier batches.  Kahn's order gives it to batches of one task.
BatchesRespectDependencies ==
    \A i \in DOMAIN batches :
        UNION {dependsOn[t] : t \in batches[i]}
            \subseteq UNION {batches[j] : j \in 1..(i - 1)}
=============================================================================
