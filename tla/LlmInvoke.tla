------------------------------- MODULE LlmInvoke -------------------------------
(***************************************************************************)
(* One structured call of a language model (agents/llm/): the check of the *)
(* budget, the attempts of the retry executor, and the two files in which  *)
(* a call is recorded.  `call` is where the invocation is:                 *)
(*    "none" -> "start" -> "attempt" -> "charged" -> "returned"            *)
(* or "refused" (no budget) or "failed" (the last attempt failed).         *)
(* A model's answer is abstracted to the kind of its failure, if it fails, *)
(* and to the tokens it cost.                                              *)
(***************************************************************************)
EXTENDS Integers

CONSTANTS
    MaxCalls,      \* BudgetConfig.max_llm_calls
    MaxTokens,     \* BudgetConfig.max_tokens
    MaxAttempts,   \* RetryPolicy.max_attempts
    RetriesParse,  \* output mode prompted_json: parse errors are retried
    TokenCosts     \* bound: what a successful attempt may cost

ASSUME BudgetAssumption ==
    /\ MaxCalls \in Nat
    /\ MaxTokens \in Nat
    /\ MaxAttempts \in Nat \ {0}
    /\ RetriesParse \in BOOLEAN
    /\ TokenCosts \subseteq Nat

VARIABLES
    call,    \* progress of the invocation
    attempt, \* number of the present attempt
    budget,  \* run_meta.json: budget.used_llm_calls and used_tokens
    usage,   \* llm_usage.json: entries of successful attempts
    logged   \* history: successes logged when the budget was last reset

llmVars == <<call, attempt, budget, usage, logged>>

CallStates ==
    {"none", "start", "attempt", "charged", "returned", "refused", "failed"}

NoBudgetUsed == [calls |-> 0, tokens |-> 0]

\* Faulty variant: the budget counts as spent one call too late.
BudgetSpentLate == budget.calls > MaxCalls \/ budget.tokens > MaxTokens

\* check_llm_budget.
BudgetSpent == budget.calls >= MaxCalls \/ budget.tokens >= MaxTokens

InvokeStart ==
    /\ call = "start"
    /\ IF BudgetSpent
       THEN call' = "refused" /\ UNCHANGED attempt
       ELSE call' = "attempt" /\ attempt' = 1
    /\ UNCHANGED <<budget, usage, logged>>

\* Faulty variant: a parse error is retried whatever the number of attempts.
RetryableAlways(kind) == kind \in {"transient", "parse"}

\* An error that names the network is transient, a malformed answer is
\* retried in prompted_json mode only, and nothing after the last attempt.
Retryable(kind) ==
    /\ attempt < MaxAttempts
    /\ kind = "transient" \/ (kind = "parse" /\ RetriesParse)

\* Faulty variant: a failed attempt is charged as well.
AttemptFailsCharged ==
    /\ call = "attempt"
    /\ call' = "failed"
    /\ budget' = [budget EXCEPT !.calls = @ + 1]
    /\ UNCHANGED <<attempt, usage, logged>>

\* A failed attempt leaves an entry in llm_usage.json that nothing counts, and
\* is not charged.
AttemptFails ==
    /\ call = "attempt"
    /\ \E kind \in {"transient", "parse", "fatal"} :
         IF Retryable(kind)
         THEN attempt' = attempt + 1 /\ UNCHANGED call
         ELSE call' = "failed" /\ UNCHANGED attempt
    /\ UNCHANGED <<budget, usage, logged>>

\* A successful one is charged to run_meta.json first ...
AttemptSucceeds ==
    /\ call = "attempt"
    /\ \E cost \in TokenCosts :
         budget' = [calls |-> budget.calls + 1, tokens |-> budget.tokens + cost]
    /\ call' = "charged"
    /\ UNCHANGED <<attempt, usage, logged>>

\* ... and then logged.
RecordUsage ==
    /\ call = "charged"
    /\ usage' = usage + 1
    /\ call' = "returned"
    /\ UNCHANGED <<attempt, budget, logged>>

InvokeStep == InvokeStart \/ AttemptFails \/ AttemptSucceeds \/ RecordUsage

\* prepare_continue: the budget starts again, the usage log goes on.
ResetBudget ==
    /\ budget' = NoBudgetUsed
    /\ logged' = usage

-----------------------------------------------------------------------------
\* The budget is looked at once per invocation, and an invocation charges at
\* most one call, whatever its retries: the number of calls never passes the
\* maximum, and the tokens pass theirs by less than the cost of one call.
BudgetHolds ==
    /\ budget.calls <= MaxCalls
    /\ \A cost \in TokenCosts : (\A c \in TokenCosts : c <= cost) =>
           budget.tokens < MaxTokens + cost \/ budget.tokens = 0
=============================================================================
