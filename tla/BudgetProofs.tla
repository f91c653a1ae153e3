----------------------------- MODULE BudgetProofs -----------------------------
(***************************************************************************)
(* Theorems about the LLM budget and the two records of a call, for every  *)
(* value of the constants of TaskBatch: any maxima, any retry policy, any  *)
(* design, any number of processes.                                        *)
(***************************************************************************)
EXTENDS TaskBatch, TLAPS

(***************************************************************************)
(* The inductive invariant: an attempt under way was let in by the budget  *)
(* check, a call is in progress in phase "invoke" only, and a fault is     *)
(* remembered only until the next entry.                                   *)
(***************************************************************************)
LlmTypes ==
    /\ budget \in [calls : Nat, tokens : Nat]
    /\ usage \in Nat
    /\ logged \in Nat

CallsInTheirPlace ==
    /\ phase # "invoke" => call = "none"
    /\ phase # "raised" => fault = "none"
    /\ call = "attempt" => ~ BudgetSpent

LlmInv == LlmTypes /\ CallsInTheirPlace /\ BudgetHolds /\ LedgerAgreesWithLog

USE DEF LlmInv, LlmTypes, CallsInTheirPlace, NoBudgetUsed

LEMMA InitLlm == Init => LlmInv
BY BudgetAssumption DEF Init, BudgetHolds, LedgerAgreesWithLog, BudgetSpent

\* One more call, made when the budget is not spent, keeps within it.
LEMMA OneMoreCall ==
    ASSUME LlmTypes, ~ BudgetSpent, NEW cost \in TokenCosts,
           budget' = [calls |-> budget.calls + 1, tokens |-> budget.tokens + cost]
    PROVE  /\ budget' \in [calls : Nat, tokens : Nat]
           /\ BudgetHolds'
BY BudgetAssumption DEF BudgetSpent, BudgetHolds

\* A step that leaves the budget alone keeps within it.
LEMMA SameBudget ==
    ASSUME LlmInv, UNCHANGED budget
    PROVE  BudgetHolds' /\ (BudgetSpent' <=> BudgetSpent)
BY DEF BudgetHolds, BudgetSpent

LEMMA EnterLlm ==
    ASSUME LlmInv, EnterFirst \/ EnterRetry \/ EnterContinue
    PROVE  LlmInv'
<1>1. CASE EnterFirst \/ EnterRetry
  <2>1. UNCHANGED <<budget, usage, logged>> /\ phase \in {"idle", "done"}
    BY <1>1 DEF EnterFirst, EnterRetry, Enter
  <2>2. call' \in {"none", "start"} /\ phase' \in {"sort", "invoke"}
        /\ (phase' = "sort" => call' = "none") /\ fault' = "none"
    BY <1>1 DEF EnterFirst, EnterRetry, Enter, StartSort
  <2> QED BY <2>1, <2>2, SameBudget DEF LedgerAgreesWithLog
<1>2. CASE EnterContinue
  <2>1. budget' = NoBudgetUsed /\ logged' = usage /\ usage' = usage
    BY <1>2 DEF EnterContinue, Enter, ResetBudget
  <2>2. call' \in {"none", "start"} /\ phase' \in {"sort", "invoke"}
        /\ (phase' = "sort" => call' = "none") /\ fault' = "none"
    BY <1>2 DEF EnterContinue, Enter, StartSort
  <2> QED BY <2>1, <2>2, BudgetAssumption DEF BudgetHolds, LedgerAgreesWithLog
<1> QED BY <1>1, <1>2

LEMMA OtherAgentLlm ==
    ASSUME LlmInv, OtherAgentInvokes
    PROVE  LlmInv'
<1>1. ~ BudgetSpent /\ usage' = usage + 1
      /\ UNCHANGED <<phase, call, logged, fault>>
  BY DEF OtherAgentInvokes, batchVars
<1>2. PICK cost \in TokenCosts :
        budget' = [calls |-> budget.calls + 1, tokens |-> budget.tokens + cost]
  BY DEF OtherAgentInvokes
<1>3. budget' \in [calls : Nat, tokens : Nat] /\ BudgetHolds'
  BY <1>1, <1>2, OneMoreCall
<1>4. phase \in {"idle", "done"} /\ call = "none" /\ fault = "none"
  BY DEF OtherAgentInvokes
<1> QED BY <1>1, <1>2, <1>3, <1>4 DEF LedgerAgreesWithLog

\* An exception: only a killed process may leave a charged call behind.
LEMMA RaiseLlm ==
    ASSUME LlmInv, NEW kind, Raise(kind), phase # "raised",
           call = "charged" => kind = "killed"
    PROVE  LlmInv'
<1>1. phase' = "raised" /\ call' = "none" /\ fault' = kind
      /\ UNCHANGED <<budget, usage, logged>>
  BY DEF Raise
<1>2. fault = "none"
  OBVIOUS
<1> QED BY <1>1, <1>2, SameBudget DEF LedgerAgreesWithLog

\* A step that neither makes nor ends a call.
LEMMA QuietLlm ==
    ASSUME LlmInv, UNCHANGED <<llmVars, fault>>,
           phase \notin {"invoke", "raised"}, phase' # "invoke"
    PROVE  LlmInv'
<1>1. UNCHANGED <<call, budget, usage, logged, fault>>
  BY DEF llmVars
<1> QED BY <1>1, SameBudget DEF LedgerAgreesWithLog

\* A call begins, or its answer is taken, in phase "invoke".
LEMMA HandLlm ==
    ASSUME LlmInv, UNCHANGED <<budget, usage, logged, fault>>,
           call' \in {"none", "start"}, call # "charged",
           phase # "raised",
           phase' # "invoke" => call' = "none"
    PROVE  LlmInv'
BY SameBudget DEF LedgerAgreesWithLog

LEMMA InvokeLlm ==
    ASSUME LlmInv, Invoke
    PROVE  LlmInv'
<1>0. phase = "invoke" /\ phase' = "invoke" /\ fault = "none" /\ fault' = "none"
  BY DEF Invoke, batchVars
<1>1. CASE InvokeStart
  <2>1. UNCHANGED <<budget, usage, logged>> /\ call = "start"
        /\ call' \in {"refused", "attempt"} /\ (call' = "attempt" => ~ BudgetSpent)
    BY <1>1 DEF InvokeStart
  <2> QED BY <1>0, <2>1, SameBudget DEF LedgerAgreesWithLog
<1>2. CASE AttemptFails
  <2>1. UNCHANGED <<budget, usage, logged>> /\ call = "attempt"
        /\ call' \in {"failed", "attempt"}
    BY <1>2 DEF AttemptFails
  <2> QED BY <1>0, <2>1, SameBudget DEF LedgerAgreesWithLog
<1>3. CASE AttemptSucceeds
  <2>1. call = "attempt" /\ call' = "charged" /\ UNCHANGED <<usage, logged>>
    BY <1>3 DEF AttemptSucceeds
  <2>2. PICK cost \in TokenCosts :
          budget' = [calls |-> budget.calls + 1, tokens |-> budget.tokens + cost]
    BY <1>3 DEF AttemptSucceeds
  <2>3. budget' \in [calls : Nat, tokens : Nat] /\ BudgetHolds'
    BY <2>1, <2>2, OneMoreCall
  <2> QED BY <1>0, <2>1, <2>2, <2>3 DEF LedgerAgreesWithLog
<1>4. CASE RecordUsage
  <2>1. call = "charged" /\ call' = "returned" /\ usage' = usage + 1
        /\ UNCHANGED <<budget, logged>>
    BY <1>4 DEF RecordUsage
  <2> QED BY <1>0, <2>1, SameBudget DEF LedgerAgreesWithLog
<1> QED BY <1>1, <1>2, <1>3, <1>4 DEF Invoke, InvokeStep

LEMMA NextLlm == LlmInv /\ [Next]_vars => LlmInv'
<1> SUFFICES ASSUME LlmInv, [Next]_vars PROVE LlmInv'
  OBVIOUS
<1>1. CASE EnterFirst \/ EnterRetry \/ EnterContinue
  BY <1>1, EnterLlm
<1>2. CASE OtherAgentInvokes
  BY <1>2, OtherAgentLlm
<1>3. CASE Schedule
  <2>1. phase \in {"sort", "group"} /\ phase' \in {"sort", "group", "refused", "batch"}
    BY <1>3 DEF Schedule, ScheduleStep, SortNext, SortEnd, GroupNext, GroupEnd
  <2>2. UNCHANGED <<llmVars, fault>>
    BY <1>3 DEF Schedule, batchVars
  <2> QED BY <2>1, <2>2, QuietLlm
<1>4. CASE PlanRefused \/ RefreshFails \/ ClosureFails \/ ContextRefused
  BY <1>4, RaiseLlm DEF PlanRefused, RefreshFails, ClosureFails, ContextRefused
<1>5. CASE StopOnBudget \/ AllBatchesDone \/ SaveManifest
  <2>1. phase \in {"batch", "return"} /\ phase' \in {"return", "done"}
    BY <1>5 DEF StopOnBudget, AllBatchesDone, SaveManifest
  <2>2. UNCHANGED <<llmVars, fault>>
    BY <1>5 DEF StopOnBudget, AllBatchesDone, SaveManifest, batchVars
  <2> QED BY <2>1, <2>2, QuietLlm
<1>6. CASE BeginBatch
  BY <1>6, HandLlm DEF BeginBatch
<1>7. CASE Invoke
  BY <1>7, InvokeLlm
<1>8. CASE InvokeRaises
  BY <1>8, RaiseLlm DEF InvokeRaises
<1>9. CASE AcceptOutput \/ TakeWholeOutput
  BY <1>9, HandLlm DEF AcceptOutput, TakeWholeOutput
<1>10. CASE RejectOutput
  <2>1. phase = "invoke" /\ call = "returned"
    BY <1>10 DEF RejectOutput
  <2>2. CASE Raise("output")
    BY <2>1, <2>2, RaiseLlm
  <2>3. CASE ~ Raise("output")
    <3>1. call' = "start" /\ UNCHANGED <<phase, budget, usage, logged, fault>>
      BY <1>10, <2>3 DEF RejectOutput
    <3> QED BY <2>1, <3>1, HandLlm
  <2> QED BY <2>2, <2>3
<1>11. CASE Die
  BY <1>11, RaiseLlm DEF Die
<1>12. CASE UNCHANGED vars
  <2>1. UNCHANGED <<phase, call, budget, usage, logged, fault>>
    BY <1>12 DEF vars, llmVars, batchVars
  <2> QED BY <2>1, SameBudget DEF LedgerAgreesWithLog
<1> QED
  BY <1>1, <1>2, <1>3, <1>4, <1>5, <1>6, <1>7, <1>8, <1>9, <1>10, <1>11, <1>12
  DEF Next, DeveloperStep

THEOREM LlmInvariant == Spec => []LlmInv
BY InitLlm, NextLlm, PTL DEF Spec

(***************************************************************************)
(* However the retries of an invocation, the repeats of a batch, the other *)
(* agents and the processes interleave, the calls charged never pass       *)
(* max_llm_calls, and the tokens pass max_tokens by less than one call.    *)
(***************************************************************************)
THEOREM BudgetKept == Spec => []BudgetHolds
<1>1. LlmInv => BudgetHolds
  OBVIOUS
<1> QED BY <1>1, LlmInvariant, PTL

(***************************************************************************)
(* run_meta.json and llm_usage.json tell of the same calls, except for the *)
(* one call that a process was killed in the middle of recording.          *)
(***************************************************************************)
THEOREM LedgerKept == Spec => []LedgerAgreesWithLog
<1>1. LlmInv => LedgerAgreesWithLog
  OBVIOUS
<1> QED BY <1>1, LlmInvariant, PTL
=============================================================================
