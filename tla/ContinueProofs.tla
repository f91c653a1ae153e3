---------------------------- MODULE ContinueProofs ----------------------------
(***************************************************************************)
(* Theorems about what a process leaves for the next one: a crash loses    *)
(* nothing that `continue` could have loaded, a failed run is one that     *)
(* `continue` can take up, and a session that resumes in the middle on     *)
(* what it loads releases nothing outdated.                                *)
(***************************************************************************)
EXTENDS ReleaseProofs

\* The file of the artifact a node writes, and no other, is new.
LEMMA FileIsWritten ==
    ASSUME IInv, NEW a \in Artifacts, NEW v, Write(a, v)
    PROVE  disk'[a] = v /\ \A b \in Artifacts \ {a} : disk'[b] = disk[b]
<1>1. disk = [b \in Artifacts |-> disk[b]]
  BY DocsElim DEF IInv, TypeOK
<1> QED BY <1>1 DEF Write

\* A node that writes an artifact, with the verdict it writes.
ProduceTriples ==
    { <<"pm", "prd", "prd_validate">>,
      <<"prd_validate", "prd_validation", "route_after_prd_validate">>,
      <<"architect", "design", "design_validate">>,
      <<"design_validate", "design_validation", "route_after_design_validate">>,
      <<"developer", "dev_manifest", "qa">>,
      <<"qa", "test_report", "route_after_qa">>,
      <<"reviewer", "review", "route_after_reviewer">> }

LEMMA ProducerOf ==
    ASSUME IInv,
           Pm \/ PrdValidate \/ Architect \/ DesignValidate \/ Developer
              \/ Qa \/ Reviewer
    PROVE  \E t \in ProduceTriples : \E v :
              /\ pc = t[1] /\ pc' = t[3]
              /\ t[2] \in Artifacts /\ v \in Verdicts(t[2]) /\ Write(t[2], v)
              /\ v # NoArtifact
              /\ UNCHANGED <<count, meta, reentry>>
<1>1. PICK t \in ProduceTriples : Produce(t[1], t[2], t[3])
  BY DEF ProduceTriples, Pm, PrdValidate, Architect, DesignValidate, Developer,
         Qa, Reviewer
<1>2. t[2] \in Artifacts
  BY DEF ProduceTriples, Artifacts
<1>3. PICK v \in Verdicts(t[2]) : Write(t[2], v)
  BY <1>1 DEF Produce
<1>4. v # NoArtifact
  BY <1>2, <1>3, WrittenIsThere
<1> QED BY <1>1, <1>2, <1>3, <1>4 DEF Produce

-----------------------------------------------------------------------------
(***************************************************************************)
(* A crash, where nobody forces a new run over an old one.                 *)
(***************************************************************************)
CrashInv ==
    /\ meta.status = "absent" => pc = "idle" /\ disk = NoDoc
    /\ CrashLosesNothing

\* What a decision takes out of the state it also marks on disk.
Marked(decision) == decision.clear \subseteq decision.stale

LEMMA DecisionsMark ==
    ASSUME NEW d \in Docs, NEW c
    PROVE  /\ Marked(DecideAfterPrdValidate(d, c))
           /\ Marked(DecideAfterDesignValidate(d, c))
           /\ Marked(DecideAfterTest(d, c))
           /\ d["review"] # NoArtifact => Marked(DecideAfterReview(d, c))
<1>1. \A n : Marked(Advance(n))
  BY DEF Marked, Advance
<1>2. \A l, n, gone : Marked(RetryUnlessAtLimit(c, l, n, gone))
  BY <1>1 DEF Marked, RetryUnlessAtLimit, Retry
<1>3. ASSUME d["review"] # NoArtifact
      PROVE  Marked(DecideAfterReview(d, c))
  BY <1>1, <1>2, <1>3, VerdictOf DEF DecideAfterReview, ReviewVerdicts
<1> QED BY <1>1, <1>2, <1>3
        DEF DecideAfterPrdValidate, DecideAfterDesignValidate, DecideAfterTest

LEMMA RouteCrashInv ==
    ASSUME IInv, CrashInv, NEW node \in Nodes, NEW decision, Marked(decision),
           Route(node, decision)
    PROVE  CrashInv'
<1>1. meta'.status = meta.status /\ meta'.stale = meta.stale \cup decision.stale
  BY DEF Route, MarkStale, IInv, TypeOK
<1>2. meta'.status # "absent"
  BY <1>1 DEF CrashInv, Route, Nodes
<1>3. ASSUME NEW a \in Artifacts, Available(disk', meta', a)
      PROVE  doc'[a] = disk'[a]
  <2>1. Available(disk, meta, a) /\ a \notin decision.clear
    BY <1>1, <1>3 DEF Available, Route, Marked
  <2>2. doc[a] = disk[a]
    BY <2>1 DEF CrashInv, CrashLosesNothing, Route
  <2> QED BY <2>1, <2>2 DEF Route
<1> QED BY <1>2, <1>3 DEF CrashInv, CrashLosesNothing

LEMMA WriteCrashInv ==
    ASSUME IInv, CrashInv, pc \in Nodes \cup {"gate"},
           NEW a \in Artifacts, NEW v \in Verdicts(a), Write(a, v),
           UNCHANGED meta
    PROVE  CrashInv'
<1>1. meta'.status # "absent"
  BY DEF CrashInv, Nodes
<1>2. ASSUME NEW b \in Artifacts, Available(disk', meta', b)
      PROVE  doc'[b] = disk'[b]
  <2>1. CASE b = a
    BY <2>1, WrittenIsThere, FileIsWritten
  <2>2. CASE b # a
    <3>1. doc'[b] = doc[b] /\ disk'[b] = disk[b]
      BY <2>2, WrittenIsThere, FileIsWritten
    <3> QED BY <1>2, <3>1 DEF Available, CrashInv, CrashLosesNothing
  <2> QED BY <2>1, <2>2
<1> QED BY <1>1, <1>2 DEF CrashInv, CrashLosesNothing

LEMMA NextCrashInv ==
    ASSUME ~ AllowForceNew, IInv, CrashInv, [Next]_vars
    PROVE  CrashInv'
<1>1. CASE StartRun
  <2>1. disk' = NoDoc /\ doc' = NoDoc /\ meta'.status = "running"
    BY <1>1 DEF StartRun, InitRunMeta, CrashInv
  <2> QED BY <2>1 DEF CrashInv, CrashLosesNothing
<1>2. CASE ContinueBegin
  <2>1. meta'.status = "running"
    BY <1>2 DEF ContinueBegin, PrepareContinue, IInv, TypeOK
  <2> QED BY <1>2, <2>1 DEF ContinueBegin, CrashInv, CrashLosesNothing, Nodes
<1>3. CASE GraphStep
  <2>1. CASE Pm \/ PrdValidate \/ Architect \/ DesignValidate \/ Developer
               \/ Qa \/ Reviewer
    <3>1. PICK t \in ProduceTriples : \E v :
              /\ pc = t[1] /\ t[2] \in Artifacts /\ v \in Verdicts(t[2])
              /\ Write(t[2], v) /\ UNCHANGED meta
      BY <2>1, ProducerOf
    <3>2. pc \in Nodes
      BY <3>1 DEF ProduceTriples, Nodes
    <3> QED BY <3>1, <3>2, WriteCrashInv
  <2>2. CASE PrdHitl \/ DesignHitl \/ DeployHitl \/ EscalationHitl
    <3>1. CASE UNCHANGED <<doc, disk, meta>> /\ pc \in Nodes
      BY <3>1 DEF CrashInv, CrashLosesNothing, Nodes, Available
    <3>2. CASE \E stage \in HitlStages : Write("hitl", stage) /\ UNCHANGED meta
                                          /\ pc \in Nodes
      BY <3>2, WriteCrashInv DEF Artifacts, Verdicts
    <3> QED BY <2>2, <3>1, <3>2
            DEF PrdHitl, DesignHitl, DeployHitl, EscalationHitl, Decide,
                HitlStages, Nodes
  <2>3. CASE RouteAfterPrdValidate \/ RouteAfterDesignValidate
               \/ RouteAfterQa \/ RouteAfterReviewer
    BY <2>3, DecisionsMark, RouteCrashInv
       DEF RouteAfterPrdValidate, RouteAfterDesignValidate, RouteAfterQa,
           RouteAfterReviewer, IInv, TypeOK, Nodes
  <2>4. CASE Deploy \/ Fail
    <3>1. meta'.status # "absent" /\ pc' = "idle"
      BY <2>4 DEF Deploy, Fail, Settle, EndSession, IInv, TypeOK
    <3> QED BY <3>1 DEF CrashInv, CrashLosesNothing, Nodes
  <2> QED BY <1>3, <2>1, <2>2, <2>3, <2>4 DEF GraphStep
<1>4. CASE ContinueAtGate \/ ContinueAtArchitect
  <2>1. /\ doc' = Hydrate(disk, meta) /\ disk' = disk /\ meta' = meta
        /\ pc = "hydrate"
    BY <1>4 DEF ContinueAtGate, ContinueAtArchitect
  <2>2. meta'.status # "absent"
    BY <2>1 DEF CrashInv
  <2> QED BY <2>1, <2>2 DEF CrashInv, CrashLosesNothing, Available, Hydrate
<1>5. CASE ExecuteGate
  <2>1. reentry \in GateNodes
    BY <1>5 DEF ExecuteGate, IInv, TypeOK
  <2>2. GateReport(reentry) \in Artifacts
    BY <2>1 DEF GateNodes, GateReport, Artifacts
  <2> QED BY <1>5, <2>2, WriteCrashInv DEF ExecuteGate
<1>6. CASE ContinueRejected \/ Abort
  BY <1>6 DEF ContinueRejected, Abort, EndSession, CrashInv, CrashLosesNothing,
              Nodes
<1>7. CASE UNCHANGED vars
  BY <1>7 DEF vars, CrashInv, CrashLosesNothing, Available
<1> QED BY <1>1, <1>2, <1>3, <1>4, <1>5, <1>6, <1>7
        DEF Next, SessionStep, ContinueStep

\* Unless somebody forces a new run over an old one, a process may die at any
\* node: what `continue` loads is what the session held.
THEOREM NothingIsLost == ~ AllowForceNew /\ Spec => []CrashLosesNothing
<1> SUFFICES ASSUME ~ AllowForceNew PROVE Spec => []CrashLosesNothing
  OBVIOUS
<1>1. Init => CrashInv
  BY DEF Init, NoMeta, CrashInv, CrashLosesNothing, Nodes
<1>2. IInv /\ CrashInv /\ [Next]_vars => CrashInv'
  BY NextCrashInv
<1>3. CrashInv => CrashLosesNothing
  BY DEF CrashInv
<1> QED BY <1>1, <1>2, <1>3, InductiveInvariant, PTL DEF Spec

-----------------------------------------------------------------------------
(***************************************************************************)
(* A failed run.                                                           *)
(***************************************************************************)
There(d, a) == d[a] # NoArtifact

\* The artifact without which another is not made.
Derived == Artifacts \ {"prd", "hitl"}
MadeFrom(a) ==
    CASE a \in {"prd_validation", "design"}            -> "prd"
      [] a \in {"design_validation", "dev_manifest"}   -> "design"
      [] a \in {"test_report", "review"}               -> "dev_manifest"

\* No file is ever removed, so what an artifact was made from stays beside it.
DiskClosed(d) == \A a \in Derived : There(d, a) => There(d, MadeFrom(a))

\* What a limit route is taken for, as infer_reentry_node can see it later.
Explained(d, c) ==
    \/ Failed(d["prd_validation"]) \/ Failed(d["design_validation"])
    \/ Failed(d["test_report"])
    \/ d["review"] \in {"pm", "architect", "developer"}
    \/ c["impl"] >= Limits["impl"] /\ There(d, "dev_manifest")

BehindManifest == {"qa", "route_after_qa", "reviewer", "route_after_reviewer"}

\* The state holds nothing that the directory does not.
FilesInv ==
    /\ \A a \in Artifacts : There(doc, a) => doc[a] = disk[a]
    /\ DiskClosed(disk)

HeldInv ==
    /\ FilesInv
    /\ pc = "gate" => ReentryAllowed(doc, reentry)
    /\ pc \in BehindManifest => There(doc, "dev_manifest")

\* The second part outlives the session: the counters are then in the file.
ExplainInv ==
    /\ pc \in LimitNodes => Explained(disk, count)
    /\ meta.status = "failed" => pc = "idle" /\ Explained(disk, meta.count)

\* continue takes up what the directory explains.
LEMMA ExplainedIsTakenUp ==
    ASSUME NEW d \in Docs, NEW m, m.status = "failed", m.stale = {},
           DiskClosed(d), Explained(d, m.count)
    PROVE  LET node == InferReentryNode(d, m)
           IN  node # "error" /\ ReentryAllowed(Hydrate(d, m), node)
<1> DEFINE rules   == ReentryRules(d, m)
           applies == {i \in DOMAIN rules : rules[i].when}
           first   == Min(applies)
           loaded  == Hydrate(d, m)
<1>1. \A a \in Artifacts : loaded[a] = d[a]
  BY DEF Hydrate
<1>2. {"prd", "prd_validation", "design", "design_validation", "dev_manifest",
       "test_report", "review"} \subseteq Artifacts
  BY DEF Artifacts
<1>3. DOMAIN rules = 1..9
  BY DEF ReentryRules
<1>4. applies # {}
  <2>1. /\ loaded["review"] = "pm" => rules[1].when
        /\ loaded["review"] = "architect" => rules[2].when
        /\ loaded["review"] = "developer" => rules[3].when
        /\ Failed(loaded["prd_validation"]) => rules[4].when
        /\ Failed(loaded["design_validation"]) => rules[5].when
        /\ Failed(loaded["test_report"]) => rules[6].when
        /\ m.status = "failed" /\ ImplRetryAtLimit(m)
             /\ loaded["dev_manifest"] # NoArtifact => rules[7].when
    BY DEF ReentryRules
  <2> HIDE DEF rules, loaded
  <2>2. \E i \in 1..7 : rules[i].when
    BY <1>1, <1>2, <2>1 DEF Explained, There, ImplRetryAtLimit
  <2> QED BY <1>3, <2>2
<1>5. first \in 1..9 /\ rules[first].when
  <2> HIDE DEF rules
  <2>1. applies \in SUBSET Nat
    BY <1>3
  <2> QED BY <1>3, <1>4, <2>1, MinBelongs
<1>6. InferReentryNode(d, m) = rules[first].node
  BY <1>4 DEF InferReentryNode
<1>7. /\ {"prd_validation", "design", "design_validation", "dev_manifest",
          "test_report", "review"} \subseteq Derived
      /\ MadeFrom("prd_validation") = "prd" /\ MadeFrom("design") = "prd"
      /\ MadeFrom("design_validation") = "design"
      /\ MadeFrom("dev_manifest") = "design"
      /\ MadeFrom("test_report") = "dev_manifest"
      /\ MadeFrom("review") = "dev_manifest"
  BY DEF Derived, Artifacts, MadeFrom
<1>8. ASSUME NEW i \in 1..9, rules[i].when
      PROVE  rules[i].node # "error" /\ ReentryAllowed(loaded, rules[i].node)
  <2> HIDE DEF loaded
  <2>1. /\ There(loaded, "prd_validation") => There(loaded, "prd")
        /\ There(loaded, "design") => There(loaded, "prd")
        /\ There(loaded, "design_validation") => There(loaded, "design")
        /\ There(loaded, "dev_manifest") => There(loaded, "design")
        /\ There(loaded, "test_report") => There(loaded, "dev_manifest")
        /\ There(loaded, "review") => There(loaded, "dev_manifest")
    BY <1>1, <1>2, <1>7 DEF DiskClosed, There
  <2>2. \A a \in {"prd_validation", "design_validation", "test_report"} :
           Failed(loaded[a]) => There(loaded, a)
    BY DEF Failed, There, NoArtifact
  <2>3. loaded["review"] \in {"pm", "architect", "developer"} => There(loaded, "review")
    BY DEF There, NoArtifact
  <2>4. Passed(loaded["prd_validation"]) => ~ Failed(loaded["prd_validation"])
    BY DEF Passed, Failed
  <2>11. CASE i = 1
    <3>1. loaded["review"] = "pm" /\ rules[i].node = "prd_validate"
      BY <1>8, <2>11 DEF ReentryRules, loaded, There
    <3> HIDE DEF rules
    <3> QED BY <2>1, <2>2, <2>3, <3>1 DEF ReentryAllowed, There
  <2>12. CASE i = 2
    <3>1. loaded["review"] = "architect" /\ rules[i].node = "design_validate"
      BY <1>8, <2>12 DEF ReentryRules, loaded, There
    <3> HIDE DEF rules
    <3> QED BY <2>1, <2>2, <2>3, <3>1 DEF ReentryAllowed, There
  <2>13. CASE i = 3
    <3>1. loaded["review"] = "developer" /\ rules[i].node = "qa"
      BY <1>8, <2>13 DEF ReentryRules, loaded, There
    <3> HIDE DEF rules
    <3> QED BY <2>1, <2>2, <2>3, <3>1 DEF ReentryAllowed, There
  <2>14. CASE i = 4
    <3>1. Failed(loaded["prd_validation"]) /\ rules[i].node = "prd_validate"
      BY <1>8, <2>14 DEF ReentryRules, loaded, There
    <3> HIDE DEF rules
    <3> QED BY <2>1, <2>2, <2>3, <3>1 DEF ReentryAllowed, There
  <2>15. CASE i = 5
    <3>1. Failed(loaded["design_validation"]) /\ rules[i].node = "design_validate"
      BY <1>8, <2>15 DEF ReentryRules, loaded, There
    <3> HIDE DEF rules
    <3> QED BY <2>1, <2>2, <2>3, <3>1 DEF ReentryAllowed, There
  <2>16. CASE i = 6
    <3>1. Failed(loaded["test_report"]) /\ rules[i].node = "qa"
      BY <1>8, <2>16 DEF ReentryRules, loaded, There
    <3> HIDE DEF rules
    <3> QED BY <2>1, <2>2, <2>3, <3>1 DEF ReentryAllowed, There
  <2>17. CASE i = 7
    <3>1. There(loaded, "dev_manifest") /\ rules[i].node = "qa"
      BY <1>8, <2>17 DEF ReentryRules, loaded, There
    <3> HIDE DEF rules
    <3> QED BY <2>1, <2>2, <2>3, <3>1 DEF ReentryAllowed, There
  <2>18. CASE i = 8
    <3>1. There(loaded, "design") /\ rules[i].node = "design_validate"
      BY <1>8, <2>18 DEF ReentryRules, loaded, There
    <3> HIDE DEF rules
    <3> QED BY <2>1, <2>2, <2>3, <3>1 DEF ReentryAllowed, There
  <2>19. CASE i = 9
    <3>1. /\ There(loaded, "prd") /\ Passed(loaded["prd_validation"])
          /\ rules[i].node = "architect"
      BY <1>8, <2>19 DEF ReentryRules, loaded, There
    <3> HIDE DEF rules
    <3> QED BY <2>4, <3>1 DEF ReentryAllowed, There
  <2> HIDE DEF rules
  <2> QED BY <2>11, <2>12, <2>13, <2>14, <2>15, <2>16, <2>17, <2>18, <2>19
<1> HIDE DEF rules, first, loaded
<1>9. rules[first].node # "error" /\ ReentryAllowed(loaded, rules[first].node)
  BY <1>5, <1>8
<1> QED BY <1>6, <1>9 DEF loaded

LEMMA WriteFilesInv ==
    ASSUME IInv, FilesInv, NEW a \in Artifacts, NEW v \in Verdicts(a), Write(a, v),
           a \in Derived => There(doc, MadeFrom(a))
    PROVE  FilesInv'
<1>1. /\ disk'[a] = v /\ doc'[a] = v /\ v # NoArtifact
      /\ \A b \in Artifacts \ {a} : doc'[b] = doc[b] /\ disk'[b] = disk[b]
  BY WrittenIsThere, FileIsWritten
<1>2. \A b \in Artifacts : There(disk, b) => There(disk', b)
  BY <1>1 DEF There
<1>3. \A b \in Derived : b \in Artifacts /\ MadeFrom(b) \in Artifacts
  BY DEF Derived, MadeFrom, Artifacts
<1>4. ASSUME NEW b \in Derived, There(disk', b)
      PROVE  There(disk', MadeFrom(b))
  <2>1. CASE b = a
    <3>1. There(doc, MadeFrom(a)) /\ MadeFrom(a) \in Artifacts
      BY <1>3, <1>4, <2>1
    <3>2. There(disk, MadeFrom(a))
      BY <3>1 DEF FilesInv, There
    <3> QED BY <1>2, <2>1, <3>1, <3>2
  <2>2. CASE b # a
    BY <1>1, <1>2, <1>3, <1>4, <2>2 DEF FilesInv, DiskClosed, There
  <2> QED BY <2>1, <2>2
<1> QED BY <1>1, <1>4 DEF FilesInv, DiskClosed, There

\* Where a decision leads is behind the manifest only after a report that
\* passed, and then nothing is cleared.
LEMMA DecisionsKeepManifest ==
    ASSUME NEW d \in Docs, NEW c
    PROVE  /\ DecideAfterPrdValidate(d, c).next \notin BehindManifest \cup {"gate", "idle"}
           /\ DecideAfterDesignValidate(d, c).next \notin BehindManifest \cup {"gate", "idle"}
           /\ DecideAfterTest(d, c).next \notin {"gate", "idle"}
           /\ DecideAfterTest(d, c).next \in BehindManifest
                 => DecideAfterTest(d, c).clear = {}
           /\ d["review"] # NoArtifact =>
                 DecideAfterReview(d, c).next \notin BehindManifest \cup {"gate", "idle"}
<1>1. \A n, l, gone :
         RetryUnlessAtLimit(c, l, n, gone).next \in {n, "fail", "escalation_hitl"}
  BY LimitRouteType DEF RetryUnlessAtLimit, Advance, Retry
<1>2. \A n : Advance(n).next = n /\ Advance(n).clear = {}
  BY DEF Advance
<1>3. DecideAfterPrdValidate(d, c).next \notin BehindManifest \cup {"gate", "idle"}
  BY <1>1, <1>2 DEF DecideAfterPrdValidate, BehindManifest
<1>4. DecideAfterDesignValidate(d, c).next \notin BehindManifest \cup {"gate", "idle"}
  BY <1>1, <1>2 DEF DecideAfterDesignValidate, BehindManifest
<1>5. /\ DecideAfterTest(d, c).next \notin {"gate", "idle"}
      /\ DecideAfterTest(d, c).next \in BehindManifest
           => DecideAfterTest(d, c).clear = {}
  BY <1>1, <1>2 DEF DecideAfterTest, BehindManifest
<1>6. ASSUME d["review"] # NoArtifact
      PROVE  DecideAfterReview(d, c).next \notin BehindManifest \cup {"gate", "idle"}
  <2>1. d["review"] \in ReviewVerdicts
    BY <1>6, VerdictOf
  <2> QED BY <1>1, <1>2, <2>1 DEF DecideAfterReview, ReviewVerdicts, BehindManifest
<1> QED BY <1>3, <1>4, <1>5, <1>6

\* A limit route says in the state why it was taken.
LEMMA LimitsExplained ==
    ASSUME NEW d \in Docs, NEW c
    PROVE  /\ DecideAfterPrdValidate(d, c).next \in LimitNodes
                 => Failed(d["prd_validation"])
           /\ DecideAfterDesignValidate(d, c).next \in LimitNodes
                 => Failed(d["design_validation"])
           /\ DecideAfterTest(d, c).next \in LimitNodes
                 => c["impl"] >= Limits["impl"]
           /\ d["review"] # NoArtifact
              /\ DecideAfterReview(d, c).next \in LimitNodes
                 => \/ d["review"] \in {"pm", "architect", "developer"}
                    \/ c["impl"] >= Limits["impl"]
<1>1. \A n, l, gone : n \notin LimitNodes
                      /\ RetryUnlessAtLimit(c, l, n, gone).next \in LimitNodes
                         => c[l] >= Limits[l]
  BY DEF RetryUnlessAtLimit, Advance, Retry
<1>2. \A n : Advance(n).next = n
  BY DEF Advance
<1>3. {"pm", "architect", "developer", "prd_hitl", "design_hitl", "reviewer",
       "deploy_hitl"} \cap LimitNodes = {}
  BY DEF LimitNodes
<1>4. DecideAfterPrdValidate(d, c).next \in LimitNodes => Failed(d["prd_validation"])
  BY <1>2, <1>3 DEF DecideAfterPrdValidate
<1>5. DecideAfterDesignValidate(d, c).next \in LimitNodes
        => Failed(d["design_validation"])
  BY <1>2, <1>3 DEF DecideAfterDesignValidate
<1>6. DecideAfterTest(d, c).next \in LimitNodes => c["impl"] >= Limits["impl"]
  BY <1>1, <1>2, <1>3 DEF DecideAfterTest
<1>7. ASSUME d["review"] # NoArtifact, DecideAfterReview(d, c).next \in LimitNodes
      PROVE  \/ d["review"] \in {"pm", "architect", "developer"}
             \/ c["impl"] >= Limits["impl"]
  <2>1. d["review"] \in ReviewVerdicts
    BY <1>7, VerdictOf
  <2> QED BY <1>1, <1>2, <1>3, <1>7, <2>1 DEF DecideAfterReview, ReviewVerdicts
<1> QED BY <1>4, <1>5, <1>6, <1>7

\* Each node that writes an artifact has what it is made from at hand.
LEMMA ProducerHasSource ==
    ASSUME IInv, HeldInv,
           Pm \/ PrdValidate \/ Architect \/ DesignValidate \/ Developer
              \/ Qa \/ Reviewer
    PROVE  /\ FilesInv'
           /\ pc' = "qa" => There(doc', "dev_manifest")
           /\ pc' \in {"route_after_qa", "route_after_reviewer"}
                => There(doc', "dev_manifest")
           /\ pc \in Nodes \ LimitNodes
           /\ pc' \in Nodes \ (LimitNodes \cup {"reviewer"})
           /\ meta' = meta
<1>1. PICK t \in ProduceTriples : \E v :
         /\ pc = t[1] /\ pc' = t[3]
         /\ t[2] \in Artifacts /\ v \in Verdicts(t[2]) /\ Write(t[2], v)
         /\ v # NoArtifact
         /\ UNCHANGED <<count, meta, reentry>>
  BY ProducerOf
<1>2. PICK v \in Verdicts(t[2]) : Write(t[2], v) /\ v # NoArtifact
  BY <1>1
<1>3. t[2] \in Derived => There(doc, MadeFrom(t[2]))
  <2>1. /\ pc = "prd_validate" => There(doc, "prd")
        /\ pc = "architect" => There(doc, "prd")
        /\ pc = "design_validate" => There(doc, "design")
        /\ pc = "developer" => There(doc, "design")
        /\ pc \in {"qa", "reviewer"} => There(doc, "dev_manifest")
    BY DEF Pm, PrdValidate, Architect, DesignValidate, Developer, Qa, Reviewer,
           Produce, There, HeldInv, BehindManifest
  <2> QED BY <1>1, <2>1 DEF ProduceTriples, Derived, MadeFrom
<1>4. FilesInv'
  BY <1>1, <1>2, <1>3, WriteFilesInv DEF HeldInv
<1>5. \A b \in Artifacts : There(doc, b) => There(doc', b)
  BY <1>1, <1>2, WrittenIsThere DEF There
<1>6. t[2] = "dev_manifest" => There(doc', "dev_manifest")
  BY <1>1, <1>2, WrittenIsThere DEF There
<1>7. /\ pc' = "qa" => There(doc', "dev_manifest")
      /\ pc' \in {"route_after_qa", "route_after_reviewer"}
                => There(doc', "dev_manifest")
  BY <1>1, <1>5, <1>6 DEF ProduceTriples, HeldInv, BehindManifest, Artifacts
<1>8. /\ pc \in Nodes \ LimitNodes
      /\ pc' \in Nodes \ (LimitNodes \cup {"reviewer"})
      /\ meta' = meta
  BY <1>1 DEF ProduceTriples, Nodes, LimitNodes
<1> QED BY <1>4, <1>7, <1>8

LEMMA RouteHeldInv ==
    ASSUME IInv, HeldInv, ExplainInv, NEW node \in Nodes, NEW decision,
           Route(node, decision), decision.next \notin {"gate", "idle"},
           decision.next \in BehindManifest =>
               decision.clear = {} /\ There(doc, "dev_manifest"),
           decision.next \in LimitNodes =>
               Explained(doc, count) /\ decision.loop = "none"
    PROVE  HeldInv' /\ ExplainInv'
<1>1. /\ \A a \in Artifacts :
            doc'[a] = IF a \in decision.clear THEN NoArtifact ELSE doc[a]
      /\ disk' = disk /\ pc' = decision.next
      /\ meta'.status = meta.status
  BY DEF Route, MarkStale, IInv, TypeOK
<1>2. FilesInv'
  BY <1>1 DEF HeldInv, FilesInv, DiskClosed, There
<1>3. pc' \in BehindManifest => There(doc', "dev_manifest")
  BY <1>1 DEF There, Artifacts
<1>4. ASSUME pc' \in LimitNodes PROVE Explained(disk', count')
  <2>1. count'["impl"] = count["impl"]
    BY <1>1, <1>4 DEF Route, Loops
  <2>2. Explained(doc, count)
    BY <1>1, <1>4
  <2>3. \A a \in Artifacts : There(doc, a) => disk'[a] = doc[a]
    BY <1>1 DEF HeldInv, FilesInv
  <2>4. {"prd_validation", "design_validation", "test_report", "review",
         "dev_manifest"} \subseteq Artifacts
    BY DEF Artifacts
  <2> QED BY <2>1, <2>2, <2>3, <2>4
          DEF Explained, There, Failed, NoArtifact
<1>5. meta'.status # "failed"
  BY <1>1 DEF ExplainInv, Route, Nodes
<1> QED BY <1>1, <1>2, <1>3, <1>4, <1>5 DEF HeldInv, ExplainInv

LEMMA RoutesHeldInv ==
    ASSUME IInv, HeldInv, ExplainInv,
           RouteAfterPrdValidate \/ RouteAfterDesignValidate
              \/ RouteAfterQa \/ RouteAfterReviewer
    PROVE  HeldInv' /\ ExplainInv'
<1> USE DEF LimitNodes
<1>1. doc \in Docs
  BY DEF IInv, TypeOK
<1>2. CASE RouteAfterPrdValidate
  <2>1. DecideAfterPrdValidate(doc, count).next \in LimitNodes =>
           /\ Explained(doc, count)
           /\ DecideAfterPrdValidate(doc, count).loop = "none"
    BY <1>1, LimitsExplained, DecisionsForced DEF Explained, Forced
  <2> HIDE DEF LimitNodes
  <2> QED BY <1>1, <1>2, <2>1, DecisionsKeepManifest, RouteHeldInv
          DEF RouteAfterPrdValidate, Nodes
<1>3. CASE RouteAfterDesignValidate
  <2>1. DecideAfterDesignValidate(doc, count).next \in LimitNodes =>
           /\ Explained(doc, count)
           /\ DecideAfterDesignValidate(doc, count).loop = "none"
    BY <1>1, LimitsExplained, DecisionsForced DEF Explained, Forced
  <2> HIDE DEF LimitNodes
  <2> QED BY <1>1, <1>3, <2>1, DecisionsKeepManifest, RouteHeldInv
          DEF RouteAfterDesignValidate, Nodes
<1>4. CASE RouteAfterQa
  <2>1. There(doc, "dev_manifest")
    BY <1>4 DEF RouteAfterQa, Route, HeldInv, BehindManifest
  <2>2. DecideAfterTest(doc, count).next \in LimitNodes =>
           /\ Explained(doc, count)
           /\ DecideAfterTest(doc, count).loop = "none"
    BY <1>1, <2>1, LimitsExplained, DecisionsForced DEF Explained, Forced
  <2> HIDE DEF LimitNodes
  <2> QED BY <1>1, <1>4, <2>1, <2>2, DecisionsKeepManifest, RouteHeldInv
          DEF RouteAfterQa, Nodes
<1>5. CASE RouteAfterReviewer
  <2>1. There(doc, "dev_manifest") /\ doc["review"] # NoArtifact
    BY <1>5 DEF RouteAfterReviewer, Route, HeldInv, BehindManifest
  <2>2. DecideAfterReview(doc, count).next \in LimitNodes =>
           /\ Explained(doc, count)
           /\ DecideAfterReview(doc, count).loop = "none"
    BY <1>1, <2>1, LimitsExplained, DecisionsForced DEF Explained, Forced
  <2> HIDE DEF LimitNodes
  <2> QED BY <1>1, <1>5, <2>1, <2>2, DecisionsKeepManifest, RouteHeldInv
          DEF RouteAfterReviewer, Nodes
<1> QED BY <1>2, <1>3, <1>4, <1>5

LEMMA GraphHeldInv ==
    ASSUME IInv, HeldInv, ExplainInv, GraphStep
    PROVE  HeldInv' /\ ExplainInv'
<1>1. CASE Pm \/ PrdValidate \/ Architect \/ DesignValidate \/ Developer
             \/ Qa \/ Reviewer
  <2>1. /\ FilesInv' /\ meta' = meta
        /\ pc' \in BehindManifest => There(doc', "dev_manifest")
        /\ pc' \in Nodes \ LimitNodes /\ pc \in Nodes
    BY <1>1, ProducerHasSource DEF BehindManifest
  <2> QED BY <2>1 DEF HeldInv, ExplainInv, Nodes
<1>2. CASE PrdHitl \/ DesignHitl \/ DeployHitl \/ EscalationHitl
  <2>1. /\ pc \in Nodes /\ UNCHANGED <<count, meta>>
        /\ pc' \in Nodes \ BehindManifest
        /\ pc' \in LimitNodes => pc \in LimitNodes
        /\ \/ UNCHANGED <<doc, disk>>
           \/ \E v \in Verdicts("hitl") : Write("hitl", v)
    BY <1>2 DEF PrdHitl, DesignHitl, DeployHitl, EscalationHitl, Decide,
                Nodes, LimitNodes, BehindManifest, Verdicts, HitlStages
  <2>2. "hitl" \in Artifacts /\ "hitl" \notin Derived
    BY DEF Artifacts, Derived
  <2>3. FilesInv'
    <3>1. CASE UNCHANGED <<doc, disk>>
      BY <3>1 DEF HeldInv, FilesInv, DiskClosed, There
    <3>2. CASE \E v \in Verdicts("hitl") : Write("hitl", v)
      BY <2>2, <3>2, WriteFilesInv DEF HeldInv
    <3> QED BY <2>1, <3>1, <3>2
  <2>4. \A a \in Artifacts \ {"hitl"} : disk'[a] = disk[a]
    BY <2>1, <2>2, FileIsWritten
  <2>5. Explained(disk, count) => Explained(disk', count')
    BY <2>1, <2>4 DEF Explained, There, Artifacts
  <2> QED BY <2>1, <2>3, <2>5 DEF HeldInv, ExplainInv, Nodes
<1>3. CASE RouteAfterPrdValidate \/ RouteAfterDesignValidate
             \/ RouteAfterQa \/ RouteAfterReviewer
  BY <1>3, RoutesHeldInv
<1>4. CASE Deploy \/ Fail
  <2>1. /\ pc' = "idle" /\ doc' = NoDoc /\ disk' = disk
    BY <1>4 DEF Deploy, Fail, EndSession
  <2>2. FilesInv'
    BY <2>1 DEF HeldInv, FilesInv, DiskClosed, There, NoDoc
  <2>3. CASE Deploy
    <3>1. meta'.status = "completed"
      BY <2>3 DEF Deploy, Settle, IInv, TypeOK
    <3> QED BY <2>1, <2>2, <3>1 DEF HeldInv, ExplainInv, BehindManifest, LimitNodes
  <2>4. CASE Fail
    <3>1. meta'.count = count /\ Explained(disk, count)
      BY <2>4 DEF Fail, Settle, IInv, TypeOK, ExplainInv, LimitNodes
    <3> QED BY <2>1, <2>2, <3>1 DEF HeldInv, ExplainInv, BehindManifest, LimitNodes
  <2> QED BY <1>4, <2>3, <2>4
<1> QED BY <1>1, <1>2, <1>3, <1>4 DEF GraphStep

LEMMA NextHeldInv ==
    ASSUME IInv, HeldInv, ExplainInv, [Next]_vars
    PROVE  HeldInv' /\ ExplainInv'
<1>1. CASE StartRun
  <2>1. pc' = "pm" /\ doc' = NoDoc /\ disk' = disk /\ meta'.status = "running"
    BY <1>1 DEF StartRun, InitRunMeta
  <2> QED BY <2>1 DEF HeldInv, FilesInv, DiskClosed, There, NoDoc, ExplainInv,
                      BehindManifest, LimitNodes
<1>2. CASE ContinueBegin
  <2>1. /\ pc' = "hydrate" /\ doc' = doc /\ disk' = disk
        /\ meta'.status = "running"
    BY <1>2 DEF ContinueBegin, PrepareContinue, IInv, TypeOK
  <2> QED BY <2>1 DEF HeldInv, FilesInv, DiskClosed, There, ExplainInv,
                      BehindManifest, LimitNodes
<1>3. CASE GraphStep
  BY <1>3, GraphHeldInv
<1>4. CASE ContinueAtGate \/ ContinueAtArchitect
  <2>1. /\ doc' = Hydrate(disk, meta) /\ UNCHANGED <<disk, meta, reentry>>
        /\ pc = "hydrate" /\ pc' \in {"gate", "pm", "architect"}
        /\ ReentryAllowed(Hydrate(disk, meta), reentry)
    BY <1>4 DEF ContinueAtGate, ContinueAtArchitect, EntryPoint
  <2>2. FilesInv'
    BY <2>1 DEF HeldInv, FilesInv, DiskClosed, There, Hydrate
  <2>3. pc' = "gate" => ReentryAllowed(doc', reentry')
    BY <2>1
  <2> QED BY <2>1, <2>2, <2>3 DEF HeldInv, ExplainInv, BehindManifest, LimitNodes
<1>5. CASE ExecuteGate
  <2>1. PICK v \in Verdicts(GateReport(reentry)) : Write(GateReport(reentry), v)
    BY <1>5 DEF ExecuteGate
  <2>2. /\ pc = "gate" /\ pc' \in {"pm", RouteAfter(reentry)} /\ meta' = meta
        /\ reentry \in GateNodes
    BY <1>5 DEF ExecuteGate, EntryPoint, IInv, TypeOK
  <2>3. /\ GateReport(reentry) \in Derived \cap Artifacts
        /\ There(doc, MadeFrom(GateReport(reentry)))
        /\ reentry = "qa" => There(doc, "dev_manifest")
    BY <2>2 DEF GateReport, GateNodes, Derived, Artifacts, MadeFrom, HeldInv,
                ReentryAllowed, There
  <2>4. FilesInv'
    BY <2>1, <2>3, WriteFilesInv DEF HeldInv
  <2>5. pc' \in BehindManifest => There(doc', "dev_manifest")
    <3>1. pc' \in BehindManifest => reentry = "qa"
      BY <2>2 DEF GateNodes, RouteAfter, BehindManifest
    <3>2. There(doc, "dev_manifest") => There(doc', "dev_manifest")
      BY <2>1, <2>3, WrittenIsThere DEF There, Artifacts
    <3> QED BY <2>3, <3>1, <3>2
  <2>6. pc' \notin LimitNodes \cup {"gate"} /\ meta'.status # "failed"
    BY <2>2 DEF GateNodes, RouteAfter, LimitNodes, ExplainInv
  <2> QED BY <2>4, <2>5, <2>6 DEF HeldInv, ExplainInv
<1>6. CASE ContinueRejected \/ Abort
  <2>1. pc' = "idle" /\ doc' = NoDoc /\ UNCHANGED <<disk, meta>> /\ pc # "idle"
    BY <1>6 DEF ContinueRejected, Abort, EndSession
  <2> QED BY <2>1 DEF HeldInv, FilesInv, DiskClosed, There, NoDoc, ExplainInv,
                      BehindManifest, LimitNodes
<1>7. CASE UNCHANGED vars
  BY <1>7 DEF vars, HeldInv, FilesInv, DiskClosed, There, ExplainInv, Explained,
              ReentryAllowed
<1> QED BY <1>1, <1>2, <1>3, <1>4, <1>5, <1>6, <1>7
        DEF Next, SessionStep, ContinueStep

\* Whoever forced, crashed or named nodes before: a failed run without stale
\* files has a node to go on at, and passes its preconditions.
THEOREM FailedRunsContinue == Spec => []FailedRunContinues
<1>1. Init => HeldInv /\ ExplainInv
  BY DEF Init, NoMeta, NoDoc, HeldInv, FilesInv, DiskClosed, There, Derived,
         ExplainInv, BehindManifest, LimitNodes
<1>2. IInv /\ HeldInv /\ ExplainInv /\ [Next]_vars => HeldInv' /\ ExplainInv'
  BY NextHeldInv
<1>3. IInv /\ HeldInv /\ ExplainInv => FailedRunContinues
  <2> SUFFICES ASSUME IInv, HeldInv, ExplainInv, meta.status = "failed",
                      meta.stale = {}
               PROVE  LET node == InferReentryNode(disk, meta)
                      IN  node # "error" /\ ReentryAllowed(Hydrate(disk, meta), node)
    BY DEF FailedRunContinues
  <2>1. disk \in Docs /\ DiskClosed(disk) /\ Explained(disk, meta.count)
    BY DEF IInv, TypeOK, HeldInv, FilesInv, ExplainInv
  <2> QED BY <2>1, ExplainedIsTakenUp
<1> QED BY <1>1, <1>2, <1>3, InductiveInvariant, PTL DEF Spec

-----------------------------------------------------------------------------
(***************************************************************************)
(* Release, where `continue` resumes behind the node it entered            *)
(* (InvokeRestarts = FALSE, what the design notes describe).  Products of  *)
(* an earlier session are then used again, and what keeps outdated ones    *)
(* out is the review, the reports and the stale marks left on disk.        *)
(***************************************************************************)
\* What continue loads.
Loaded == Hydrate(disk, meta)

\* A product that was overruled lies beside the review that says so, until the
\* next review, by which time it is made anew.
CurrentInv ==
    /\ There(disk, "prd") => chain >= 1
    /\ ~ There(disk, "design") /\ Passed(disk["prd_validation"]) => chain >= 2
    /\ There(Loaded, "design") /\ Loaded["review"] # "pm"
         => chain >= 3 /\ Passed(disk["prd_validation"])
    /\ There(Loaded, "dev_manifest") /\ Loaded["review"] \notin {"pm", "architect"}
         => chain >= 5 /\ Passed(Loaded["design_validation"])

\* Marks are made for a whole escalation at a time.
MarksInv == meta.stale \in {{}, DesignEscalationStale, PrdEscalationStale}

BeforeDesignReport == {"route_after_prd_validate", "prd_hitl", "architect",
                       "design_validate"}

\* Where a product is made anew, what was made from the old one is overruled.
PlaceInv ==
    /\ pc \in {"pm", "prd_validate"} =>
         /\ ~ There(Loaded, "design")
         /\ ~ There(disk, "design") => ~ Passed(disk["prd_validation"])
    /\ pc \in BeforeDesignReport /\ There(Loaded, "dev_manifest")
         => Loaded["review"] \in {"pm", "architect"}

\* Why infer_reentry_node chose a node: the rules before it did not apply.
Reason(d, m, node) ==
    LET l == Hydrate(d, m)
    IN  CASE node = "prd_validate" ->
               l["review"] = "pm" \/ Failed(l["prd_validation"])
          [] node = "design_validate" ->
               /\ l["review"] # "pm"
               /\ \/ l["review"] = "architect"
                  \/ Failed(l["design_validation"])
                  \/ ~ There(l, "dev_manifest")
          [] node = "qa" -> l["review"] \notin {"pm", "architect"}
          [] node = "architect" ->
               ~ There(d, "design") /\ Passed(l["prd_validation"])
          [] OTHER -> FALSE

EntryInv ==
    /\ pc \in {"hydrate", "gate"} => Reason(disk, meta, reentry)
    /\ pc = "gate" => doc = Loaded

ResumeInv == MarksInv /\ CurrentInv /\ PlaceInv /\ EntryInv

LEMMA InferredForAReason ==
    ASSUME NEW d, NEW m, InferReentryNode(d, m) # "error"
    PROVE  Reason(d, m, InferReentryNode(d, m))
<1> DEFINE rules   == ReentryRules(d, m)
           applies == {i \in DOMAIN rules : rules[i].when}
           first   == Min(applies)
           l       == Hydrate(d, m)
<1>1. DOMAIN rules = 1..9
  BY DEF ReentryRules
<1>2. /\ rules[1].when <=> l["review"] = "pm"
      /\ rules[2].when <=> l["review"] = "architect"
      /\ rules[4].when => Failed(l["prd_validation"])
      /\ rules[5].when => Failed(l["design_validation"])
      /\ rules[8].when => ~ There(l, "dev_manifest")
      /\ rules[9].when => ~ There(d, "design") /\ Passed(l["prd_validation"])
  BY DEF ReentryRules, There
<1>3. /\ rules[1].node = "prd_validate" /\ rules[2].node = "design_validate"
      /\ rules[3].node = "qa" /\ rules[4].node = "prd_validate"
      /\ rules[5].node = "design_validate" /\ rules[6].node = "qa"
      /\ rules[7].node = "qa" /\ rules[8].node = "design_validate"
      /\ rules[9].node = "architect"
  BY DEF ReentryRules
<1> HIDE DEF rules
<1>4. applies # {} /\ InferReentryNode(d, m) = rules[first].node
  BY DEF InferReentryNode, rules
<1>5. applies \in SUBSET Nat
  BY <1>1
<1>6. /\ first \in 1..9 /\ rules[first].when
      /\ \A i \in 1..9 : rules[i].when => first =< i
  BY <1>1, <1>4, <1>5, MinBelongs
<1> HIDE DEF first, applies, l
<1>7. first # 1 => l["review"] # "pm"
  BY <1>2, <1>6
<1>8. first \notin {1, 2} => l["review"] # "architect"
  BY <1>2, <1>6
<1>9. first \in {1, 2, 3, 4, 5, 6, 7, 8, 9}
  BY <1>6
<1>10. Reason(d, m, rules[first].node)
  BY <1>2, <1>3, <1>6, <1>7, <1>8, <1>9 DEF Reason, l
<1> QED BY <1>4, <1>10

\* The verdicts a node goes on with are the ones on disk.
LEMMA GoesOnWithDisk ==
    ASSUME GateInv, HeldInv, BlockPrd, BlockDesign
    PROVE  /\ pc \in BehindPrd => Passed(disk["prd_validation"])
           /\ pc \in BehindDesign => Passed(disk["design_validation"])
<1>1. \A a \in Artifacts : Passed(doc[a]) => doc[a] = disk[a]
  BY DEF HeldInv, FilesInv, There, Passed, NoArtifact
<1> QED BY <1>1 DEF GateInv, ReleaseInv, Artifacts

\* What the marks have to do with each other.
LEMMA MarksTogether ==
    ASSUME NEW S \in {{}, DesignEscalationStale, PrdEscalationStale}
    PROVE  /\ "prd" \notin S /\ "prd_validation" \notin S
           /\ "dev_manifest" \in S <=> S # {}
           /\ "review" \in S <=> S # {}
           /\ "design" \in S <=> S = PrdEscalationStale
           /\ "design_validation" \in S <=> S = PrdEscalationStale
           /\ S # {} /\ S # PrdEscalationStale => S = DesignEscalationStale
BY DEF DesignEscalationStale, PrdEscalationStale

\* A manifest is never loaded without its design.
LEMMA ManifestWithDesign ==
    ASSUME HeldInv, MarksInv
    PROVE  There(Loaded, "dev_manifest") => There(Loaded, "design")
<1>1. There(disk, "dev_manifest") => There(disk, "design")
  BY DEF HeldInv, FilesInv, DiskClosed, Derived, MadeFrom, Artifacts
<1>2. "dev_manifest" \notin meta.stale => "design" \notin meta.stale
  BY MarksTogether DEF MarksInv, PrdEscalationStale, DesignEscalationStale
<1> QED BY <1>1, <1>2 DEF Loaded, Hydrate, There, Artifacts

LEMMA HydrateIs ==
    ASSUME NEW d, NEW m, NEW a \in Artifacts
    PROVE  Hydrate(d, m)[a] = IF a \in m.stale THEN NoArtifact ELSE d[a]
BY DEF Hydrate

LEMMA ProducedFiles ==
    ASSUME IInv, GateInv, NEW t \in ProduceTriples, Produce(t[1], t[2], t[3])
    PROVE  /\ pc = t[1] /\ pc' = t[3] /\ meta' = meta
           /\ t[2] \in Artifacts /\ chain' = Position(t[2])
           /\ disk'[t[2]] # NoArtifact
           /\ Loaded'[t[2]] = IF t[2] \in meta.stale THEN NoArtifact
                                                     ELSE disk'[t[2]]
           /\ \A b \in Artifacts \ {t[2]} :
                 disk'[b] = disk[b] /\ Loaded'[b] = Loaded[b]
<1>1. /\ pc = t[1] /\ pc' = t[3] /\ meta' = meta /\ t[2] \in Artifacts
      /\ Extend(t[2])
  BY DEF Produce, ProduceTriples, Artifacts
<1>2. PICK v \in Verdicts(t[2]) : Write(t[2], v)
  BY DEF Produce
<1>3. disk'[t[2]] # NoArtifact /\ \A b \in Artifacts \ {t[2]} : disk'[b] = disk[b]
  BY <1>1, <1>2, FileIsWritten, WrittenIsThere
<1>4. /\ Loaded'[t[2]] = IF t[2] \in meta.stale THEN NoArtifact ELSE disk'[t[2]]
      /\ \A b \in Artifacts \ {t[2]} : Loaded'[b] = Loaded[b]
  BY <1>1, <1>3, HydrateIs DEF Loaded
<1>5. chain' = Position(t[2])
  <2>1. chain \in Nat /\ chain >= Made(pc)
    BY DEF IInv, TypeOK, ChainLength, GateInv, ReleaseInv
  <2>2. Made(pc) + 1 = Position(t[2]) /\ Made(pc) \in Nat
    BY <1>1 DEF ProduceTriples, Made, Position
  <2>3. chain + 1 >= Position(t[2])
    BY <2>1, <2>2
  <2> QED BY <1>1, <2>3 DEF Extend
<1> QED BY <1>1, <1>3, <1>4, <1>5

LEMMA ProduceResumeInv ==
    ASSUME BlockPrd, BlockDesign, IInv, GateInv, HeldInv, ResumeInv,
           Pm \/ PrdValidate \/ Architect \/ DesignValidate \/ Developer
              \/ Qa \/ Reviewer
    PROVE  ResumeInv'
<1>1. PICK t \in ProduceTriples : Produce(t[1], t[2], t[3])
  BY DEF ProduceTriples, Pm, PrdValidate, Architect, DesignValidate, Developer,
         Qa, Reviewer
<1>2. /\ pc = t[1] /\ pc' = t[3] /\ meta' = meta
      /\ t[2] \in Artifacts /\ chain' = Position(t[2])
      /\ disk'[t[2]] # NoArtifact
      /\ Loaded'[t[2]] = IF t[2] \in meta.stale THEN NoArtifact ELSE disk'[t[2]]
      /\ \A b \in Artifacts \ {t[2]} :
             disk'[b] = disk[b] /\ Loaded'[b] = Loaded[b]
  BY <1>1, ProducedFiles
<1>3. /\ There(Loaded, "dev_manifest") => There(Loaded, "design")
      /\ pc \in BehindPrd => Passed(disk["prd_validation"])
      /\ pc \in BehindDesign => Passed(disk["design_validation"])
  BY GoesOnWithDisk, ManifestWithDesign DEF ResumeInv
<1>4. /\ \A a \in Artifacts : Loaded[a] = IF a \in meta.stale THEN NoArtifact
                                                            ELSE disk[a]
      /\ "dev_manifest" \in meta.stale <=> meta.stale # {}
      /\ "review" \in meta.stale <=> meta.stale # {}
  BY HydrateIs, MarksTogether DEF Loaded, ResumeInv, MarksInv
<1>5. {"prd", "prd_validation", "design", "design_validation", "dev_manifest",
       "test_report", "review"} \subseteq Artifacts
  BY DEF Artifacts
<1>6. MarksInv' /\ EntryInv'
  BY <1>1, <1>2 DEF ResumeInv, MarksInv, EntryInv, ProduceTriples
<1>7. chain \in Nat
  BY DEF IInv, TypeOK, ChainLength
<1> HIDE DEF Loaded
<1> USE DEF ResumeInv, CurrentInv, PlaceInv, BeforeDesignReport, There, Position,
            BehindPrd, BehindDesign, BehindTest, BehindReview
<1>11. CASE t = <<"pm", "prd", "prd_validate">>
  BY <1>2, <1>3, <1>5, <1>6, <1>7, <1>11
<1>12. CASE t = <<"prd_validate", "prd_validation", "route_after_prd_validate">>
  BY <1>2, <1>3, <1>5, <1>6, <1>7, <1>12
<1>13. CASE t = <<"architect", "design", "design_validate">>
  BY <1>2, <1>3, <1>5, <1>6, <1>7, <1>13
<1>14. CASE t = <<"design_validate", "design_validation",
                  "route_after_design_validate">>
  BY <1>2, <1>3, <1>5, <1>6, <1>7, <1>14
<1>15. CASE t = <<"developer", "dev_manifest", "qa">>
  BY <1>2, <1>3, <1>4, <1>5, <1>6, <1>7, <1>15
<1>16. CASE t = <<"qa", "test_report", "route_after_qa">>
  BY <1>2, <1>3, <1>5, <1>6, <1>7, <1>16
<1>17. CASE t = <<"reviewer", "review", "route_after_reviewer">>
  BY <1>2, <1>3, <1>4, <1>5, <1>6, <1>7, <1>17
<1> QED BY <1>1, <1>11, <1>12, <1>13, <1>14, <1>15, <1>16, <1>17 DEF ProduceTriples

\* A decision goes on and marks nothing, or back and marks what that overrules.
LEMMA DecisionsBack ==
    ASSUME NEW d \in Docs, NEW c
    PROVE  /\ LET decision == DecideAfterPrdValidate(d, c)
              IN  \/ /\ decision.stale = {}
                     /\ decision.next \in LimitNodes \cup {"prd_hitl", "architect"}
                  \/ /\ decision.stale = PrdEscalationStale
                     /\ decision.next = "pm" /\ Failed(d["prd_validation"])
           /\ LET decision == DecideAfterDesignValidate(d, c)
              IN  \/ /\ decision.stale = {}
                     /\ decision.next \in LimitNodes \cup {"design_hitl", "developer"}
                  \/ /\ decision.stale = DesignEscalationStale
                     /\ decision.next = "architect"
           /\ LET decision == DecideAfterTest(d, c)
              IN  /\ decision.stale = {}
                  /\ decision.next \in LimitNodes \cup {"reviewer", "developer"}
           /\ d["review"] # NoArtifact =>
                LET decision == DecideAfterReview(d, c)
                IN  \/ /\ decision.stale = {}
                       /\ decision.next \in
                            LimitNodes \cup {"deploy_hitl", "developer"}
                    \/ /\ decision.stale = DesignEscalationStale
                       /\ decision.next = "architect"
                    \/ /\ decision.stale = PrdEscalationStale
                       /\ decision.next = "pm"
<1> USE LimitRouteType DEF LimitNodes, RetryUnlessAtLimit, Advance, Retry
<1>1. LET decision == DecideAfterPrdValidate(d, c)
      IN  \/ /\ decision.stale = {}
             /\ decision.next \in LimitNodes \cup {"prd_hitl", "architect"}
          \/ /\ decision.stale = PrdEscalationStale
             /\ decision.next = "pm" /\ Failed(d["prd_validation"])
  BY DEF DecideAfterPrdValidate
<1>2. LET decision == DecideAfterDesignValidate(d, c)
      IN  \/ /\ decision.stale = {}
             /\ decision.next \in LimitNodes \cup {"design_hitl", "developer"}
          \/ /\ decision.stale = DesignEscalationStale
             /\ decision.next = "architect"
  BY DEF DecideAfterDesignValidate
<1>3. LET decision == DecideAfterTest(d, c)
      IN  /\ decision.stale = {}
          /\ decision.next \in LimitNodes \cup {"reviewer", "developer"}
  BY DEF DecideAfterTest
<1>4. ASSUME d["review"] # NoArtifact
      PROVE  LET decision == DecideAfterReview(d, c)
             IN  \/ /\ decision.stale = {}
                    /\ decision.next \in LimitNodes \cup {"deploy_hitl", "developer"}
                 \/ /\ decision.stale = DesignEscalationStale
                    /\ decision.next = "architect"
                 \/ /\ decision.stale = PrdEscalationStale
                    /\ decision.next = "pm"
  <2>1. d["review"] \in ReviewVerdicts
    BY <1>4, VerdictOf
  <2> QED BY <2>1 DEF DecideAfterReview, ReviewVerdicts
<1> QED BY <1>1, <1>2, <1>3, <1>4

RouteNodes == {"route_after_prd_validate", "route_after_design_validate",
               "route_after_qa", "route_after_reviewer"}

\* The same of a route node's step.
LEMMA RoutesBack ==
    ASSUME IInv,
           RouteAfterPrdValidate \/ RouteAfterDesignValidate
              \/ RouteAfterQa \/ RouteAfterReviewer
    PROVE  /\ disk' = disk /\ chain' = chain /\ pc \in RouteNodes
           /\ \/ /\ meta'.stale = meta.stale
                 /\ pc' \in LimitNodes \cup {"prd_hitl", "architect", "design_hitl",
                                           "developer", "reviewer", "deploy_hitl"}
                 /\ pc' \in {"prd_hitl", "architect"}
                      => pc = "route_after_prd_validate"
              \/ /\ meta'.stale = meta.stale \cup DesignEscalationStale
                 /\ pc \in {"route_after_design_validate", "route_after_reviewer"}
                 /\ pc' = "architect"
              \/ /\ meta'.stale = meta.stale \cup PrdEscalationStale
                 /\ \/ pc = "route_after_prd_validate" /\ Failed(doc["prd_validation"])
                    \/ pc = "route_after_reviewer"
                 /\ pc' = "pm"
<1>1. doc \in Docs
  BY DEF IInv, TypeOK
<1>2. ASSUME NEW node, NEW decision, Route(node, decision)
      PROVE  /\ pc = node /\ pc' = decision.next
             /\ disk' = disk /\ chain' = chain
             /\ meta'.stale = meta.stale \cup decision.stale
  BY <1>2 DEF Route, MarkStale, IInv, TypeOK
<1> USE DEF RouteNodes, LimitNodes
<1>3. CASE RouteAfterPrdValidate
  BY <1>1, <1>2, <1>3, DecisionsBack DEF RouteAfterPrdValidate
<1>4. CASE RouteAfterDesignValidate
  BY <1>1, <1>2, <1>4, DecisionsBack DEF RouteAfterDesignValidate
<1>5. CASE RouteAfterQa
  BY <1>1, <1>2, <1>5, DecisionsBack DEF RouteAfterQa
<1>6. CASE RouteAfterReviewer
  <2> DEFINE decision == DecideAfterReview(doc, count)
  <2>1. doc["review"] # NoArtifact /\ Route("route_after_reviewer", decision)
    BY <1>6 DEF RouteAfterReviewer
  <2>2. \/ /\ decision.stale = {}
           /\ decision.next \in LimitNodes \cup {"deploy_hitl", "developer"}
        \/ /\ decision.stale = DesignEscalationStale
           /\ decision.next = "architect"
        \/ /\ decision.stale = PrdEscalationStale
           /\ decision.next = "pm"
    BY <1>1, <2>1, DecisionsBack
  <2> HIDE DEF decision
  <2> QED BY <1>2, <2>1, <2>2
<1> QED BY <1>3, <1>4, <1>5, <1>6

\* Marking what a route overrules leaves nothing outdated that continue would
\* load.
LEMMA RouteResumeInv ==
    ASSUME BlockPrd, BlockDesign, IInv, GateInv, HeldInv, ResumeInv,
           RouteAfterPrdValidate \/ RouteAfterDesignValidate
              \/ RouteAfterQa \/ RouteAfterReviewer
    PROVE  ResumeInv'
<1>1. /\ disk' = disk /\ chain' = chain /\ pc \in RouteNodes
      /\ \/ /\ meta'.stale = meta.stale
            /\ pc' \in LimitNodes \cup {"prd_hitl", "architect", "design_hitl",
                                      "developer", "reviewer", "deploy_hitl"}
            /\ pc' \in {"prd_hitl", "architect"} => pc = "route_after_prd_validate"
         \/ /\ meta'.stale = meta.stale \cup DesignEscalationStale
            /\ pc \in {"route_after_design_validate", "route_after_reviewer"}
            /\ pc' = "architect"
         \/ /\ meta'.stale = meta.stale \cup PrdEscalationStale
            /\ \/ pc = "route_after_prd_validate" /\ Failed(doc["prd_validation"])
               \/ pc = "route_after_reviewer"
            /\ pc' = "pm"
  BY RoutesBack
<1>2. /\ \A a \in Artifacts : Loaded[a] = IF a \in meta.stale THEN NoArtifact
                                                            ELSE disk[a]
      /\ \A a \in Artifacts : Loaded'[a] = IF a \in meta'.stale THEN NoArtifact
                                                              ELSE disk[a]
  BY <1>1, HydrateIs DEF Loaded
<1>3. {"prd", "prd_validation", "design", "design_validation", "dev_manifest",
       "test_report", "review"} \subseteq Artifacts
  BY DEF Artifacts
<1>4. /\ pc \in BehindPrd => Passed(disk["prd_validation"])
      /\ chain \in Nat /\ chain >= Made(pc)
  BY GoesOnWithDisk DEF ResumeInv, GateInv, ReleaseInv, IInv, TypeOK, ChainLength
<1>5. MarksInv'
  BY <1>1 DEF ResumeInv, MarksInv, PrdEscalationStale, DesignEscalationStale
<1>6. EntryInv'
  BY <1>1 DEF EntryInv, LimitNodes
<1> HIDE DEF Loaded
<1>7. ASSUME meta'.stale = meta.stale,
             pc' \in LimitNodes \cup {"prd_hitl", "architect", "design_hitl",
                                     "developer", "reviewer", "deploy_hitl"},
             pc' \in {"prd_hitl", "architect"} => pc = "route_after_prd_validate"
      PROVE  ResumeInv'
  <2>1. meta'.stale = meta.stale
    BY <1>7
  <2>2. \A a \in Artifacts : Loaded'[a] = Loaded[a]
    BY <1>2, <2>1
  <2>3. CurrentInv'
    BY <1>1, <1>3, <2>2 DEF ResumeInv, CurrentInv, There
  <2>4. pc' \in BeforeDesignReport => pc \in BeforeDesignReport
    BY <1>7 DEF BeforeDesignReport, LimitNodes
  <2>5. pc' \notin {"pm", "prd_validate"}
    BY <1>7 DEF LimitNodes
  <2>6. PlaceInv'
    BY <1>3, <2>2, <2>4, <2>5 DEF ResumeInv, PlaceInv, There
  <2> QED BY <1>5, <1>6, <2>3, <2>6 DEF ResumeInv
<1>8. CASE /\ meta'.stale = meta.stale \cup DesignEscalationStale
            /\ pc \in {"route_after_design_validate", "route_after_reviewer"}
            /\ pc' = "architect"
  <2>1. /\ ~ There(Loaded', "dev_manifest")
        /\ There(Loaded', "design") => There(Loaded, "design")
    BY <1>2, <1>3, <1>8 DEF There, DesignEscalationStale
  <2>2. chain >= 3 /\ Passed(disk["prd_validation"])
    BY <1>4, <1>8 DEF Made, BehindPrd, BehindDesign, BehindTest
  <2>3. CurrentInv'
    BY <1>1, <2>1, <2>2 DEF ResumeInv, CurrentInv
  <2>4. PlaceInv'
    BY <1>8, <2>1 DEF PlaceInv
  <2> QED BY <1>5, <1>6, <2>3, <2>4 DEF ResumeInv
<1>9. CASE /\ meta'.stale = meta.stale \cup PrdEscalationStale
            /\ \/ pc = "route_after_prd_validate" /\ Failed(doc["prd_validation"])
               \/ pc = "route_after_reviewer"
            /\ pc' = "pm"
  <2>1. ~ There(Loaded', "dev_manifest") /\ ~ There(Loaded', "design")
    BY <1>2, <1>3, <1>9 DEF There, PrdEscalationStale, DesignEscalationStale
  <2>2. CurrentInv'
    BY <1>1, <2>1 DEF ResumeInv, CurrentInv
  <2>3. ~ There(disk, "design") => ~ Passed(disk["prd_validation"])
    <3>1. CASE Failed(doc["prd_validation"])
      <4>1. doc["prd_validation"] = disk["prd_validation"]
        BY <1>3, <3>1 DEF HeldInv, FilesInv, There, Failed, NoArtifact
      <4> QED BY <3>1, <4>1 DEF Failed, Passed
    <3>2. CASE pc = "route_after_reviewer"
      <4>1. There(disk, "dev_manifest")
        BY <1>3, <3>2 DEF HeldInv, FilesInv, BehindManifest, There
      <4> QED BY <4>1 DEF HeldInv, FilesInv, DiskClosed, Derived, MadeFrom, Artifacts
    <3> QED BY <1>9, <3>1, <3>2
  <2>4. PlaceInv'
    BY <1>1, <1>9, <2>1, <2>3 DEF PlaceInv, BeforeDesignReport
  <2> QED BY <1>5, <1>6, <2>2, <2>4 DEF ResumeInv
<1> QED BY <1>1, <1>7, <1>8, <1>9

\* What does not touch files, marks or history keeps what they say.
LEMMA QuietCurrent ==
    ASSUME MarksInv, CurrentInv, meta'.stale = meta.stale, chain' = chain,
           \A b \in Artifacts \ {"hitl"} : disk'[b] = disk[b]
    PROVE  /\ MarksInv' /\ CurrentInv'
           /\ \A b \in Artifacts \ {"hitl"} : Loaded'[b] = Loaded[b]
<1>1. \A b \in Artifacts \ {"hitl"} : Loaded'[b] = Loaded[b]
  BY HydrateIs DEF Loaded
<1>2. {"prd", "prd_validation", "design", "design_validation", "dev_manifest",
       "review"} \subseteq Artifacts \ {"hitl"}
  BY DEF Artifacts
<1> HIDE DEF Loaded
<1> QED BY <1>1, <1>2 DEF MarksInv, CurrentInv, There

LEMMA DecideResumeInv ==
    ASSUME IInv, ResumeInv, PrdHitl \/ DesignHitl \/ DeployHitl \/ EscalationHitl
    PROVE  ResumeInv'
<1>1. /\ UNCHANGED <<chain, meta, reentry>>
      /\ pc' \in {"architect", "developer", "deploy", "fail"}
      /\ pc' = "architect" => pc = "prd_hitl"
      /\ UNCHANGED disk \/ \E stage \in HitlStages : Write("hitl", stage)
  BY DEF PrdHitl, DesignHitl, DeployHitl, EscalationHitl, Decide, HitlStages
<1>2. \A b \in Artifacts \ {"hitl"} : disk'[b] = disk[b]
  BY <1>1, FileIsWritten DEF Artifacts
<1>3. /\ MarksInv' /\ CurrentInv'
      /\ \A b \in Artifacts \ {"hitl"} : Loaded'[b] = Loaded[b]
  BY <1>1, <1>2, QuietCurrent DEF ResumeInv
<1>4. PlaceInv' /\ EntryInv'
  <2> HIDE DEF Loaded
  <2> QED BY <1>1, <1>3
          DEF ResumeInv, PlaceInv, BeforeDesignReport, EntryInv, There, Artifacts
<1> QED BY <1>3, <1>4 DEF ResumeInv

\* A process that ends or begins anew leaves the directory as it is.
LEMMA EndResumeInv ==
    ASSUME ResumeInv, meta'.stale = meta.stale, chain' = chain, disk' = disk,
           pc' = "idle"
    PROVE  ResumeInv'
BY QuietCurrent
   DEF ResumeInv, PlaceInv, BeforeDesignReport, EntryInv

LEMMA BeginResumeInv ==
    ASSUME IInv, ResumeInv, ReenterValues = {"auto"}, ContinueBegin
    PROVE  ResumeInv'
<1>1. /\ meta'.stale = meta.stale /\ chain' = chain /\ disk' = disk
      /\ pc' = "hydrate" /\ reentry' = InferReentryNode(disk, meta)
      /\ InferReentryNode(disk, meta) # "error"
  BY DEF ContinueBegin, PrepareContinue, IInv, TypeOK
<1>2. Hydrate(disk', meta') = Hydrate(disk, meta)
  BY <1>1 DEF Hydrate
<1>3. EntryInv'
  BY <1>1, <1>2, InferredForAReason DEF EntryInv, Reason
<1> QED BY <1>1, <1>3, QuietCurrent DEF ResumeInv, PlaceInv, BeforeDesignReport

\* The reason for a reentry node says what of the chain is current there: the
\* gate writes its report over what is, and the graph goes on behind it.
LEMMA ArchitectReentry ==
    ASSUME ~ InvokeRestarts, IInv, HeldInv, ResumeInv, ContinueAtArchitect
    PROVE  GateInv' /\ ResumeInv'
<1>1. /\ pc = "hydrate" /\ pc' = "architect" /\ doc' = Loaded
      /\ UNCHANGED <<meta, disk, chain>> /\ reentry = "architect"
  BY DEF ContinueAtArchitect, EntryPoint, Loaded
<1>2. /\ MarksInv' /\ CurrentInv'
      /\ \A b \in Artifacts \ {"hitl"} : Loaded'[b] = Loaded[b]
  BY <1>1, QuietCurrent DEF ResumeInv
<1>3. ~ There(disk, "design") /\ Passed(Loaded["prd_validation"])
  BY <1>1 DEF ResumeInv, EntryInv, Reason, Loaded
<1>4. ~ There(Loaded, "dev_manifest") /\ Passed(disk["prd_validation"])
  <2>1. "prd_validation" \notin meta.stale
    BY MarksTogether DEF ResumeInv, MarksInv
  <2> QED BY <1>3, <2>1, HydrateIs, ManifestWithDesign
          DEF Loaded, There, Artifacts, ResumeInv
<1> HIDE DEF Loaded
<1>5. chain' >= 2
  BY <1>1, <1>3, <1>4 DEF ResumeInv, CurrentInv
<1>6. GateInv'
  BY <1>1, <1>3, <1>5 DEF GateInv, ReleaseInv, ReportThere, Made, BehindReview,
                          BehindTest, BehindDesign, BehindPrd
<1>7. PlaceInv' /\ EntryInv'
  BY <1>1, <1>2, <1>4 DEF PlaceInv, EntryInv, There, Artifacts
<1> QED BY <1>2, <1>6, <1>7 DEF ResumeInv

LEMMA GateReentry ==
    ASSUME ~ InvokeRestarts, IInv, HeldInv, ResumeInv, ExecuteGate
    PROVE  GateInv' /\ ResumeInv'
<1> DEFINE report == GateReport(reentry)
<1>1. /\ pc = "gate" /\ pc' = RouteAfter(reentry) /\ Extend(report)
      /\ UNCHANGED meta /\ reentry \in GateNodes
      /\ \E v \in Verdicts(report) : Write(report, v)
  BY DEF ExecuteGate, EntryPoint, IInv, TypeOK
<1>2. report \in Artifacts
  BY <1>1 DEF GateNodes, GateReport, Artifacts
<1>3. /\ disk'[report] # NoArtifact /\ doc'[report] # NoArtifact
      /\ \A b \in Artifacts \ {report} : disk'[b] = disk[b] /\ doc'[b] = doc[b]
  BY <1>1, <1>2, FileIsWritten, WrittenIsThere
<1>4. /\ \A a \in Artifacts : Loaded[a] = IF a \in meta.stale THEN NoArtifact
                                                            ELSE disk[a]
      /\ \A b \in Artifacts \ {report} : Loaded'[b] = Loaded[b]
  BY <1>1, <1>3, HydrateIs DEF Loaded
<1>5. {"prd", "prd_validation", "design", "design_validation", "dev_manifest",
       "test_report", "review"} \subseteq Artifacts
  BY DEF Artifacts
<1>6. /\ There(Loaded, "dev_manifest") => There(Loaded, "design")
      /\ "prd_validation" \notin meta.stale
  BY ManifestWithDesign, MarksTogether DEF ResumeInv, MarksInv
<1>7. doc = Loaded /\ ReentryAllowed(Loaded, reentry) /\ Reason(disk, meta, reentry)
  BY <1>1 DEF ResumeInv, EntryInv, HeldInv
<1>8. MarksInv' /\ EntryInv'
  BY <1>1 DEF ResumeInv, MarksInv, EntryInv, RouteAfter, GateNodes
<1>9. chain \in Nat
  BY DEF IInv, TypeOK, ChainLength
<1> USE DEF GateInv, ReleaseInv, ReportThere, Made, BehindReview, BehindTest,
            BehindDesign, BehindPrd, ResumeInv, CurrentInv, PlaceInv,
            BeforeDesignReport, There, Position, Extend
<1>10. CASE reentry = "prd_validate"
  <2>1. /\ report = "prd_validation" /\ pc' = "route_after_prd_validate"
        /\ Loaded["prd"] # NoArtifact
        /\ Loaded["review"] = "pm" \/ Failed(Loaded["prd_validation"])
    BY <1>1, <1>7, <1>10 DEF GateReport, RouteAfter, ReentryAllowed, Reason, Loaded
  <2> HIDE DEF Loaded, report
  <2>2. There(Loaded, "design") => Loaded["review"] = "pm"
    BY <1>4, <1>5, <1>6, <2>1 DEF Failed, Passed
  <2>3. chain' = 2
    BY <1>1, <1>4, <1>5, <1>9, <2>1
  <2> QED BY <1>1, <1>3, <1>4, <1>5, <1>6, <1>8, <2>1, <2>2, <2>3
<1>11. CASE reentry = "design_validate"
  <2>1. /\ report = "design_validation" /\ pc' = "route_after_design_validate"
        /\ Loaded["design"] # NoArtifact /\ Loaded["review"] # "pm"
        /\ \/ Loaded["review"] = "architect" \/ Failed(Loaded["design_validation"])
           \/ ~ There(Loaded, "dev_manifest")
    BY <1>1, <1>7, <1>11 DEF GateReport, RouteAfter, ReentryAllowed, Reason, Loaded
  <2> HIDE DEF Loaded, report
  <2>2. chain >= 3 /\ Passed(disk["prd_validation"])
    BY <2>1
  <2>3. chain' = 4
    BY <1>1, <1>9, <2>1, <2>2
  <2>4. Passed(doc'["prd_validation"])
    BY <1>3, <1>4, <1>5, <1>6, <1>7, <2>1, <2>2
  <2>5. There(Loaded, "dev_manifest") => Loaded["review"] = "architect"
    BY <2>1 DEF Failed, Passed
  <2> QED BY <1>1, <1>3, <1>4, <1>5, <1>8, <2>1, <2>2, <2>3, <2>4, <2>5
<1>12. CASE reentry = "qa"
  <2>1. /\ report = "test_report" /\ pc' = "route_after_qa"
        /\ Loaded["dev_manifest"] # NoArtifact
        /\ Loaded["review"] \notin {"pm", "architect"}
    BY <1>1, <1>7, <1>12 DEF GateReport, RouteAfter, ReentryAllowed, Reason, Loaded
  <2> HIDE DEF Loaded, report
  <2>2. /\ chain >= 5 /\ Passed(Loaded["design_validation"])
        /\ Passed(disk["prd_validation"])
    BY <1>6, <2>1
  <2>3. chain' = 6
    BY <1>1, <1>9, <2>1, <2>2
  <2>4. Passed(doc'["prd_validation"]) /\ Passed(doc'["design_validation"])
    BY <1>3, <1>4, <1>5, <1>6, <1>7, <2>1, <2>2
  <2> QED BY <1>1, <1>3, <1>4, <1>5, <1>8, <2>1, <2>2, <2>3, <2>4
<1> QED BY <1>1, <1>10, <1>11, <1>12 DEF GateNodes

LEMMA NextResumeInv ==
    ASSUME ~ InvokeRestarts, ~ AllowForceNew, ReenterValues = {"auto"},
           BlockPrd, BlockDesign,
           IInv, GateInv, CrashInv, HeldInv, ResumeInv, [Next]_vars
    PROVE  GateInv' /\ ResumeInv'
<1>1. CASE ContinueAtArchitect \/ ExecuteGate
  BY <1>1, ArchitectReentry, GateReentry
<1>2. CASE ~ (ContinueAtArchitect \/ ExecuteGate)
  <2>1. GateInv'
    BY <1>2, OtherGateInv
  <2>2. CASE StartRun
    <3>1. /\ disk' = NoDoc /\ meta'.stale = {} /\ pc' = "pm" /\ chain' = 0
      BY <2>2 DEF StartRun, CrashInv, InitRunMeta
    <3>2. \A a \in Artifacts : disk'[a] = NoArtifact /\ Loaded'[a] = NoArtifact
      BY <3>1, HydrateIs DEF Loaded, NoDoc
    <3> HIDE DEF Loaded
    <3> QED BY <2>1, <3>1, <3>2
            DEF ResumeInv, MarksInv, CurrentInv, PlaceInv, EntryInv,
                BeforeDesignReport, There, Artifacts, Passed, NoArtifact
  <2>3. CASE ContinueBegin
    BY <2>1, <2>3, BeginResumeInv
  <2>4. CASE Pm \/ PrdValidate \/ Architect \/ DesignValidate \/ Developer
               \/ Qa \/ Reviewer
    BY <2>1, <2>4, ProduceResumeInv
  <2>5. CASE RouteAfterPrdValidate \/ RouteAfterDesignValidate
               \/ RouteAfterQa \/ RouteAfterReviewer
    BY <2>1, <2>5, RouteResumeInv
  <2>6. CASE PrdHitl \/ DesignHitl \/ DeployHitl \/ EscalationHitl
    BY <2>1, <2>6, DecideResumeInv
  <2>7. CASE Deploy \/ Fail \/ Abort \/ ContinueRejected
    <3>1. /\ meta'.stale = meta.stale /\ chain' = chain /\ disk' = disk
          /\ pc' = "idle"
      BY <2>7 DEF Deploy, Fail, Abort, ContinueRejected, EndSession, Settle,
                  IInv, TypeOK
    <3> QED BY <2>1, <3>1, EndResumeInv
  <2>8. CASE ContinueAtGate
    <3>1. /\ UNCHANGED <<meta, disk, chain, reentry>> /\ pc = "hydrate"
          /\ pc' = "gate" /\ doc' = Loaded'
      BY <2>8 DEF ContinueAtGate, Loaded
    <3>2. EntryInv'
      BY <3>1 DEF ResumeInv, EntryInv, Reason
    <3> QED BY <2>1, <3>1, <3>2, QuietCurrent
            DEF ResumeInv, PlaceInv, BeforeDesignReport
  <2>9. CASE UNCHANGED vars
    <3>1. /\ UNCHANGED <<meta, disk, chain, reentry, pc, doc>> /\ Loaded' = Loaded
      BY <2>9 DEF vars, Loaded
    <3> QED BY <2>1, <3>1 DEF ResumeInv, MarksInv, CurrentInv, PlaceInv, EntryInv,
                              Reason, There
  <2> QED BY <1>2, <2>2, <2>3, <2>4, <2>5, <2>6, <2>7, <2>8, <2>9
          DEF Next, SessionStep, GraphStep, ContinueStep
<1> QED BY <1>1, <1>2

LEMMA ResumeInductive ==
    ASSUME ~ InvokeRestarts, ~ AllowForceNew, ReenterValues = {"auto"},
           BlockPrd, BlockDesign
    PROVE  Spec => [](GateInv /\ ResumeInv)
<1>1. Init => GateInv /\ CrashInv /\ HeldInv /\ ExplainInv /\ ResumeInv
  <2> SUFFICES ASSUME Init
               PROVE  GateInv /\ CrashInv /\ HeldInv /\ ExplainInv /\ ResumeInv
    OBVIOUS
  <2>1. /\ disk = NoDoc /\ meta.stale = {} /\ meta.status = "absent" /\ pc = "idle"
        /\ doc = NoDoc
    BY DEF Init, NoMeta
  <2>2. \A a \in Artifacts : disk[a] = NoArtifact /\ Loaded[a] = NoArtifact
    BY <2>1, HydrateIs DEF Loaded, NoDoc
  <2>3. ResumeInv
    <3> HIDE DEF Loaded
    <3> QED BY <2>1, <2>2 DEF ResumeInv, MarksInv, CurrentInv, PlaceInv, EntryInv,
               BeforeDesignReport, There, Artifacts, Passed, NoArtifact
  <2>4. CrashInv
    BY <2>1 DEF CrashInv, CrashLosesNothing, Nodes
  <2>5. HeldInv /\ ExplainInv
    BY <2>1, <2>2 DEF HeldInv, FilesInv, DiskClosed, There, Derived, ExplainInv,
                      BehindManifest, LimitNodes, NoDoc
  <2> QED BY <2>3, <2>4, <2>5, InitGateInv
<1>2. IInv /\ GateInv /\ CrashInv /\ HeldInv /\ ExplainInv /\ ResumeInv /\ [Next]_vars
        => GateInv' /\ CrashInv' /\ HeldInv' /\ ExplainInv' /\ ResumeInv'
  BY NextResumeInv, NextCrashInv, NextHeldInv
<1> QED BY <1>1, <1>2, InductiveInvariant, PTL DEF Spec

\* Nothing is deployed behind a gate's back when sessions resume where the
\* reports and reviews on disk say, as long as both gates block.
THEOREM ReleaseGuardedOnResume ==
    ASSUME ~ InvokeRestarts, ~ AllowForceNew, ReenterValues = {"auto"},
           BlockPrd, BlockDesign
    PROVE  Spec => []ReleaseGate
BY ResumeInductive, GateInvImpliesReleaseGate, InductiveInvariant, PTL

\* A task whose sessions resume in the middle keeps the promise too.
THEOREM ResumeImplementsReleaseProtocol ==
    ASSUME ~ InvokeRestarts, ~ AllowForceNew, ReenterValues = {"auto"},
           BlockPrd, BlockDesign
    PROVE  Spec => ImplementsReleaseProtocol
<1>1. IInv /\ ReleaseGate /\ [Next]_vars => [Promise!Next]_Promise!vars
  BY StepImplements
<1>2. Spec => []ReleaseGate
  BY ReleaseGuardedOnResume
<1> QED BY <1>1, <1>2, InitImplements, InductiveInvariant, PTL
        DEF Spec, ImplementsReleaseProtocol, Promise!Spec
=============================================================================
