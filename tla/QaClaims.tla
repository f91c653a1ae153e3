------------------------------- MODULE QaClaims -------------------------------
(***************************************************************************)
(* What the repository's documents say of a developer that is called back, *)
(* where the code does something else.                                     *)
(***************************************************************************)
EXTENDS MCQa

\* docs/design/pipeline/multi-agent-pipeline-design.md: when impl_retry_count
\* is positive, the developer is given a RetryBundle, without exception.
PatchHasBundle == pc = "qa" /\ retries > 0 => bundle.written
=============================================================================
