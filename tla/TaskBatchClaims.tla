---------------------------- MODULE TaskBatchClaims ----------------------------
(***************************************************************************)
(* What the documents say of the developer's batches and the code does     *)
(* not do.                                                                 *)
(***************************************************************************)
EXTENDS TaskBatch

\* developer-task-batch-spec.md:548: when the budget runs out in mode
\* task_batch, the developer returns a partial manifest with a warning.  The
\* code does so between two batches only; the second output of a batch is
\* asked for through invoke_structured, whose own check raises.
BudgetEndsInPartialManifest == mode = "task_batch" => fault # "budget"
=============================================================================
