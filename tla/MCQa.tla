--------------------------------- MODULE MCQa ---------------------------------
(***************************************************************************)
(* A program of two modules and a main file, with a test for each module,  *)
(* under six profiles.                                                     *)
(***************************************************************************)
EXTENDS QaLoop

MCSources == {"app", "lib", "main"}
MCExempt == {"main"}
MCOthers == {"readme"}
MCTestFiles == <<"test_app", "test_lib">>
MCSubject == [t \in {"test_app", "test_lib"} |-> IF t = "test_app" THEN "app" ELSE "lib"]
MCLinesOf == [p \in Paths |-> IF p = "app" THEN 3 ELSE 1]

Missing(scope) ==
    [enabled |-> TRUE, block_on |-> TRUE, glob |-> TRUE, inline |-> FALSE, scope |-> scope]
NoCoverage == [enabled |-> FALSE, block_on |-> FALSE, threshold |-> FALSE]
Trace == [enabled |-> TRUE, block_on |-> TRUE]

PythonProfile ==
    [parser |-> "junit_xml", trace_format |-> "file", tolerant |-> FALSE,
     missing |-> Missing("dev_tasks"), coverage |-> NoCoverage, trace |-> Trace,
     sensitive |-> {"main"}]

MCProfiles ==
    {PythonProfile,
     [PythonProfile EXCEPT !.trace_format = "none", !.missing = Missing("changed_files"),
         !.coverage = [enabled |-> TRUE, block_on |-> TRUE, threshold |-> TRUE]],
     [PythonProfile EXCEPT !.parser = "events", !.trace_format = "frames", !.tolerant = TRUE],
     [PythonProfile EXCEPT !.parser = "events", !.tolerant = TRUE, !.trace.enabled = FALSE,
         !.missing = [Missing("dev_tasks") EXCEPT !.inline = TRUE],
         !.coverage = [enabled |-> TRUE, block_on |-> FALSE, threshold |-> FALSE]],
     [PythonProfile EXCEPT !.parser = "exit_code_only", !.trace_format = "frames",
         !.missing.glob = FALSE, !.trace.block_on = FALSE],
     [PythonProfile EXCEPT !.missing.block_on = FALSE]}

MCDesigns ==
    {[tasks |-> {"app", "lib", "readme", "test_app"}, plan |-> {"app", "test_app"},
      covered |-> {"AC-1"}, flagged |-> FALSE],
     [tasks |-> {}, plan |-> {"app", "lib"}, covered |-> {}, flagged |-> TRUE]}

Empty == [p \in Paths |-> "absent"]

MCLeftovers ==
    {[code |-> Empty, results |-> Absent, measured |-> "none"],
     [code |-> ("app" :> "good" @@ "test_app" :> "good") @@ Empty,
      results |-> [written |-> TRUE, failing |-> {}], measured |-> "high"]}

Whole == "app" :> "good" @@ "lib" :> "good" @@ "main" :> "good" @@ "readme" :> "good"
             @@ "test_app" :> "good" @@ "test_lib" :> "good"

MCPatches(informed) ==
    IF informed
    THEN {"app" :> "good", "app" :> "good" @@ "lib" :> "good",
          "test_lib" :> "good", "lib" :> "inline"}
    ELSE {Whole, "app" :> "wrong" @@ Whole, "app" :> "wrong" @@ "lib" :> "wrong" @@ Whole,
          [p \in {"app", "lib", "test_app"} |-> Whole[p]],
          [p \in {"app", "lib"} |-> Whole[p]]}

Review(approved, stage, findings) ==
    [written |-> TRUE, approved |-> approved, next_stage |-> stage, findings |-> findings]
Finding(file, fix, blocking) == [file |-> file, fix |-> fix, blocking |-> blocking]

MCReviews ==
    {Review(TRUE, "deploy", <<>>), Review(FALSE, "deploy", <<Finding("app", FALSE, TRUE)>>),
     Review(FALSE, "developer", <<Finding("lib", TRUE, FALSE), Finding("main", TRUE, FALSE),
                                  Finding("readme", FALSE, FALSE), Finding("app", TRUE, TRUE),
                                  Finding("test_app", TRUE, TRUE)>>),
     Review(TRUE, "developer", <<>>), Review(FALSE, "architect", <<>>)}
=============================================================================
