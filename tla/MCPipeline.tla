------------------------------ MODULE MCPipeline ------------------------------
(***************************************************************************)
(* Values of the constants of Pipeline for TLC.                            *)
(***************************************************************************)
EXTENDS PipelineClaims

OneRetryEach == [l \in Loops |-> 1]
NoDesignRetry == [prd |-> 1, design |-> 0, impl |-> 1]
=============================================================================
