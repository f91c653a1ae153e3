----------------------------- MODULE MCTaskBatch -----------------------------
(***************************************************************************)
(* Values for TaskBatchClaims: three tasks, the last of them with a test   *)
(* beside it, and dependencies that are absent, a chain, a fork, a cycle   *)
(* or an unknown id.  An output stays within the rules or breaks one:      *)
(* it forgets a file, claims a task it did not build, is too long, or      *)
(* rewrites another task's file.                                           *)
(***************************************************************************)
EXTENDS TaskBatchClaims

MCTasks    == 1..3
MCTaskIds  == 1..4
MCPaths    == {"a", "b", "c", "test_c"}
MCSorted   == [S \in SUBSET MCTasks |-> SetToSortSeq(S, <)]
MCRequired == <<{"a"}, {"b"}, {"c", "test_c"}>>

MCGraphs == {<<{}, {}, {}>>,     \* no dependency
             <<{3}, {1, 3}, {}>>, \* everything on task 3
             <<{}, {1}, {2}>>,    \* a chain
             <<{2}, {1}, {}>>,    \* a cycle
             <<{}, {1, 4}, {}>>}  \* an unknown id

Output(done, a, b, c, test) ==
    [done  |-> done,
     files |-> [p \in MCPaths |-> CASE p = "a" -> a [] p = "b" -> b
                                    [] p = "c" -> c [] OTHER -> test]]

MCOutputs == {Output({1}, 1, 0, 0, 0), Output({2}, 0, 1, 0, 0),
              Output({3}, 0, 0, 1, 1),
              Output({3}, 0, 0, 1, 2),       \* as long as it may be
              Output({1, 2}, 1, 0, 2, 0),    \* rewrites c, claims task 2
              Output({3}, 0, 0, 1, 0),       \* forgets the test
              Output(MCTasks, 1, 1, 2, 1)}   \* everything at once
=============================================================================
