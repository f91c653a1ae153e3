---------------------------- MODULE DeveloperProofs ----------------------------
(***************************************************************************)
(* Theorems about the developer in mode task_batch: its plan holds all     *)
(* tasks, every batch passed is delivered, and only the budget can make it *)
(* return early.  They hold for any design, any ids, any outputs, any size *)
(* of a batch and any number of entries.  With one task to a batch (the    *)
(* default of TaskBatchConfig) the plan is a topological order as well.    *)
(* With more it need not be: run MCTaskBatch_schedule.cfg shows that.      *)
(***************************************************************************)
EXTENDS BudgetProofs, SequenceProofs

(***************************************************************************)
(* The inductive invariant of the scheduler.                               *)
(***************************************************************************)
Done == ToSet(ordered)

PlanTypes ==
    /\ dependsOn \in [Tasks -> SUBSET TaskIds]
    /\ inDegree \in [Tasks -> Nat]
    /\ queue \in Seq(Tasks) /\ ordered \in Seq(Tasks) /\ pending \in Seq(Tasks)
    /\ batches \in Seq(SUBSET Tasks)

\* What precedes a position of a sequence.
Before(s, i) == {s[j] : j \in 1..(i - 1)}

\* The sorted tasks are each there once, after all they depend on.
OrderInv ==
    /\ IsInjective(ordered)
    /\ \A i \in 1..Len(ordered) :
          dependsOn[ordered[i]] \subseteq Before(ordered, i)

\* in_degree counts the missing dependencies; the queue holds what is free.
SortInv ==
    phase = "sort" =>
        /\ batches = <<>>
        /\ IsInjective(queue)
        /\ \A t \in Tasks : inDegree[t] = Cardinality(dependsOn[t] \ Done)
        /\ ToSet(queue) = {t \in Tasks \ Done : dependsOn[t] \subseteq Done}

\* The tasks of the batches made so far.
Planned == UNION {batches[i] : i \in 1..Len(batches)}

\* A task is in a batch, or it waits for one, and is there once.  No batch is
\* empty, so there are no more batches than tasks.
GroupInv ==
    phase = "group" =>
        /\ IsInjective(pending)
        /\ Planned \cup ToSet(pending) = Tasks
        /\ Len(batches) + Len(pending) <= Cardinality(Tasks)

\* A plan that is run holds all tasks.
PlanInv ==
    /\ phase \in {"sort", "group", "refused", "batch"} => mode = "task_batch"
    /\ (mode = "task_batch" /\ phase \in {"batch", "invoke", "return", "done"}) =>
          Planned = Tasks /\ Len(batches) <= Cardinality(Tasks)

ScheduleInv == PlanTypes /\ OrderInv /\ SortInv /\ GroupInv /\ PlanInv

USE DEF ScheduleInv

LEMMA TasksFinite ==
    /\ IsFiniteSet(Tasks)
    /\ \A D \in SUBSET TaskIds : IsFiniteSet(D) /\ Cardinality(D) \in Nat
BY TasksAssumption, FS_Subset, FS_CardinalityType

\* Whatever is done has its dependencies done.
LEMMA DoneIsClosed ==
    ASSUME ScheduleInv, NEW t \in Done
    PROVE  t \in Tasks /\ dependsOn[t] \subseteq Done
<1>1. DOMAIN ordered = 1..Len(ordered) /\ Len(ordered) \in Nat
      /\ \A i \in 1..Len(ordered) : ordered[i] \in Tasks
  BY DEF PlanTypes
<1>2. PICK i \in 1..Len(ordered) : t = ordered[i]
  BY <1>1 DEF Done, ToSet
<1>3. \A j \in 1..(i - 1) : j \in 1..Len(ordered)
  BY <1>1
<1> QED BY <1>1, <1>2, <1>3 DEF OrderInv, Before, Done, ToSet

\* A sort never holds more tasks than there are.
LEMMA SortedAtMostOnce ==
    ASSUME ScheduleInv
    PROVE  /\ Len(ordered) \in Nat /\ Cardinality(Tasks) \in Nat
           /\ Len(ordered) <= Cardinality(Tasks)
<1>1. ordered \in Seq(Tasks) /\ IsInjective(ordered)
  BY DEF PlanTypes, OrderInv
<1>2. ToSet(ordered) \in SUBSET Tasks /\ Len(ordered) \in Nat
  BY <1>1 DEF ToSet
<1>3. IsFiniteSet(Tasks)
  BY TasksFinite, TasksAssumption
<1>4. Cardinality(ToSet(ordered)) = Len(ordered)
  BY <1>1, InjectiveCount
<1> QED BY <1>2, <1>3, <1>4, FS_Subset, FS_CardinalityType

\* StartSort: nothing is done, and what depends on nothing is free.
LEMMA StartSortInv ==
    ASSUME ScheduleInv, StartSort, mode' = "task_batch"
    PROVE  ScheduleInv'
<1>1. /\ phase' = "sort" /\ ordered' = <<>> /\ pending' = <<>> /\ batches' = <<>>
      /\ UNCHANGED dependsOn
      /\ inDegree' = [t \in Tasks |-> Cardinality(dependsOn[t])]
      /\ queue' = Sorted[{t \in Tasks : dependsOn[t] = {}}]
  BY DEF StartSort
<1>2. Done' = {}
  BY <1>1 DEF Done, ToSet
<1>3. {t \in Tasks : dependsOn[t] = {}} \in SUBSET Tasks
  OBVIOUS
<1>4. queue' \in Seq(Tasks) /\ IsInjective(queue')
      /\ ToSet(queue') = {t \in Tasks : dependsOn[t] = {}}
  BY <1>1, <1>3, SortedAssumption
<1>5. \A t \in Tasks : dependsOn[t] \in SUBSET TaskIds
  BY DEF PlanTypes
<1>6. PlanTypes'
  BY <1>1, <1>4, <1>5, TasksFinite DEF PlanTypes
<1>7. OrderInv'
  BY <1>1 DEF OrderInv, IsInjective
<1>8. \A t \in Tasks : (inDegree[t] = Cardinality(dependsOn[t] \ Done))'
  BY <1>1, <1>2
<1>9. SortInv'
  BY <1>1, <1>2, <1>4, <1>8 DEF SortInv
<1> QED BY <1>1, <1>6, <1>7, <1>9 DEF GroupInv, PlanInv

\* SortNext: the freed tasks join the queue, each once.
LEMMA SortNextInv ==
    ASSUME ScheduleInv, SortNext, UNCHANGED mode
    PROVE  ScheduleInv'
<1> DEFINE node == Head(queue)
           rest == Tail(queue)
           new  == Sorted[ReleasedBy(node)]
<1>1. /\ phase = "sort" /\ phase' = "sort" /\ queue # <<>>
      /\ ordered' = Append(ordered, node)
      /\ inDegree' = [t \in Tasks |-> IF node \in dependsOn[t]
                                      THEN inDegree[t] - 1 ELSE inDegree[t]]
      /\ queue' = rest \o new
      /\ UNCHANGED <<dependsOn, pending, batches>>
  BY DEF SortNext
<1>2. /\ ordered \in Seq(Tasks) /\ queue \in Seq(Tasks)
      /\ inDegree \in [Tasks -> Nat] /\ dependsOn \in [Tasks -> SUBSET TaskIds]
  BY DEF PlanTypes
<1>3. /\ IsInjective(queue)
      /\ \A t \in Tasks : inDegree[t] = Cardinality(dependsOn[t] \ Done)
      /\ ToSet(queue) = {t \in Tasks \ Done : dependsOn[t] \subseteq Done}
  BY <1>1 DEF SortInv
<1>4. /\ node \in Tasks /\ rest \in Seq(Tasks)
      /\ ToSet(queue) = {node} \cup ToSet(rest)
      /\ node \notin ToSet(rest) /\ IsInjective(rest)
  BY <1>1, <1>2, <1>3, TailSet
<1>5. ReleasedBy(node) \in SUBSET Tasks
  BY DEF ReleasedBy
<1>6. new \in Seq(Tasks) /\ IsInjective(new) /\ ToSet(new) = ReleasedBy(node)
  BY <1>5, SortedAssumption
<1>7. node \notin Done /\ dependsOn[node] \subseteq Done
  BY <1>3, <1>4
<1>8. Done' = Done \cup {node} /\ IsInjective(ordered')
  BY <1>1, <1>2, <1>4, <1>7, AppendSet DEF OrderInv, Done
<1> HIDE DEF node, rest, new
<1>9. ASSUME NEW t \in Tasks
      PROVE  /\ inDegree'[t] \in Nat
             /\ inDegree'[t] = Cardinality(dependsOn[t] \ Done')
             /\ t \in ReleasedBy(node)
                  <=> node \in dependsOn[t] /\ dependsOn[t] \subseteq Done'
  <2>1. IsFiniteSet(dependsOn[t])
    BY <1>2, TasksFinite
  <2>2. /\ Cardinality(dependsOn[t] \ Done) \in Nat
        /\ Cardinality(dependsOn[t] \ Done')
              = IF node \in dependsOn[t] THEN Cardinality(dependsOn[t] \ Done) - 1
                ELSE Cardinality(dependsOn[t] \ Done)
        /\ node \in dependsOn[t] => (Cardinality(dependsOn[t] \ Done) = 1
                                       <=> dependsOn[t] \subseteq Done')
    <3> DEFINE D == dependsOn[t]
    <3> HIDE DEF Done, D
    <3>1. IsFiniteSet(D)
      BY <2>1 DEF D
    <3>2. Cardinality(D \ Done) \in Nat
      BY <3>1, <1>7, OneLess
    <3>3. Cardinality(D \ (Done \cup {node}))
            = IF node \in D THEN Cardinality(D \ Done) - 1 ELSE Cardinality(D \ Done)
      BY <3>1, <1>7, OneLess
    <3>4. node \in D => (Cardinality(D \ Done) = 1 <=> D \subseteq Done \cup {node})
      BY <3>1, <1>7, OneLess
    <3> QED BY <1>8, <3>2, <3>3, <3>4 DEF D
  <2>3. node \in dependsOn[t] => Cardinality(dependsOn[t] \ Done) # 0
    BY <2>1, <1>7, OneLess
  <2>4. inDegree'[t] = IF node \in dependsOn[t] THEN inDegree[t] - 1 ELSE inDegree[t]
    BY <1>1
  <2>5. inDegree[t] = Cardinality(dependsOn[t] \ Done)
    BY <1>3
  <2>6. t \in ReleasedBy(node) <=> node \in dependsOn[t] /\ inDegree[t] = 1
    BY DEF ReleasedBy
  <2> QED BY <2>2, <2>3, <2>4, <2>5, <2>6
<1>10. ReleasedBy(node) \cap (Done \cup {node}) = {}
  <2>1. ASSUME NEW t \in ReleasedBy(node), t \in Done PROVE FALSE
    BY <2>1, <1>5, <1>7, <1>9, DoneIsClosed
  <2>2. node \notin ReleasedBy(node)
    BY <1>4, <1>7, <1>9
  <2> QED BY <2>1, <2>2
<1>11. ToSet(rest) \cap ReleasedBy(node) = {}
  BY <1>3, <1>4, <1>5, <1>7, <1>9
<1>12. /\ queue' \in Seq(Tasks) /\ IsInjective(queue')
       /\ ToSet(queue') = ToSet(rest) \cup ReleasedBy(node)
  BY <1>1, <1>4, <1>6, <1>11, ConcatSet
<1>13. ToSet(queue') = {t \in Tasks \ Done' : dependsOn[t] \subseteq Done'}
  <2>1. ASSUME NEW t \in ToSet(rest)
        PROVE  t \in Tasks \ Done' /\ dependsOn[t] \subseteq Done'
    BY <1>3, <1>4, <1>8
  <2>2. ASSUME NEW t \in ReleasedBy(node)
        PROVE  t \in Tasks \ Done' /\ dependsOn[t] \subseteq Done'
    BY <1>5, <1>8, <1>9, <1>10
  <2>3. ASSUME NEW t \in Tasks \ Done', dependsOn[t] \subseteq Done',
               t \notin ReleasedBy(node)
        PROVE  t \in ToSet(rest)
    <3>1. t \in Tasks /\ t \notin Done /\ t # node
      BY <1>8
    <3>2. node \notin dependsOn[t]
      BY <1>9, <2>3, <3>1
    <3>3. dependsOn[t] \subseteq Done
      BY <1>8, <2>3, <3>2
    <3> QED BY <1>3, <1>4, <3>1, <3>3
  <2> QED BY <1>12, <2>1, <2>2, <2>3
<1>14. SortInv'
  BY <1>1, <1>3, <1>9, <1>12, <1>13 DEF SortInv
<1>15. /\ Len(ordered) \in Nat /\ Len(ordered') = Len(ordered) + 1
       /\ \A i \in 1..Len(ordered) : ordered'[i] = ordered[i]
       /\ ordered'[Len(ordered) + 1] = node /\ ordered' \in Seq(Tasks)
  BY <1>1, <1>2, <1>4
<1>16. ASSUME NEW i \in 1..Len(ordered')
       PROVE  dependsOn[ordered'[i]] \subseteq Before(ordered', i)
  <2>1. CASE i = Len(ordered) + 1
    <3>1. \A u \in Done : \E j \in 1..(i - 1) : u = ordered'[j]
      <4>1. \A u \in Done : \E j \in 1..Len(ordered) : u = ordered[j]
        BY <1>2 DEF Done, ToSet
      <4> QED BY <1>15, <2>1, <4>1
    <3> QED BY <1>7, <1>15, <2>1, <3>1 DEF Before
  <2>2. CASE i # Len(ordered) + 1
    <3>1. i \in 1..Len(ordered) /\ \A j \in 1..(i - 1) : j \in 1..Len(ordered)
      BY <1>15, <2>2
    <3>2. dependsOn[ordered[i]] \subseteq Before(ordered, i)
      BY <3>1 DEF OrderInv
    <3>3. Before(ordered, i) \subseteq Before(ordered', i)
      BY <1>15, <3>1 DEF Before
    <3> QED BY <1>15, <3>1, <3>2, <3>3
  <2> QED BY <2>1, <2>2
<1>17. OrderInv'
  BY <1>1, <1>8, <1>16 DEF OrderInv
<1>18. PlanTypes'
  BY <1>1, <1>2, <1>9, <1>12, <1>15 DEF PlanTypes
<1> QED BY <1>1, <1>14, <1>17, <1>18 DEF GroupInv, PlanInv

\* The plan is left alone and nothing of its making begins.
LEMMA SamePlanInv ==
    ASSUME ScheduleInv, UNCHANGED planVars, phase' \notin {"sort", "group"}, PlanInv'
    PROVE  ScheduleInv'
<1>1. UNCHANGED <<dependsOn, inDegree, queue, ordered, pending, batches>>
  BY DEF planVars
<1>2. PlanTypes' /\ OrderInv'
  BY <1>1 DEF PlanTypes, OrderInv
<1>3. SortInv' /\ GroupInv'
  BY DEF SortInv, GroupInv
<1> QED BY <1>2, <1>3

\* SortEnd: as many sorted as there are tasks are all of them.
LEMMA SortEndInv ==
    ASSUME ScheduleInv, SortEnd, UNCHANGED mode
    PROVE  ScheduleInv'
<1>1. /\ phase = "sort" /\ mode' = "task_batch"
      /\ UNCHANGED <<dependsOn, inDegree, queue, ordered, batches>>
  BY DEF SortEnd, PlanInv
<1>2. PlanTypes' /\ OrderInv'
  BY <1>1 DEF SortEnd, PlanTypes, OrderInv
<1>3. CASE Len(ordered) = Cardinality(Tasks)
  <2>1. phase' = "group" /\ pending' = ordered
    BY <1>3 DEF SortEnd
  <2>2. Done = Tasks
    BY <1>3, TasksFinite, FullSequence DEF Done, OrderInv, PlanTypes
  <2>3. batches = <<>>
    BY <1>1 DEF SortInv
  <2>4. GroupInv'
    <3>1. ToSet(pending') = Tasks /\ IsInjective(pending')
      BY <2>1, <2>2 DEF Done, OrderInv
    <3>2. Planned' = {}
      BY <1>1, <2>3 DEF Planned
    <3>3. Len(batches') + Len(pending') <= Cardinality(Tasks)
      <4>1. Len(ordered) \in Nat /\ Len(batches') = 0
        BY <1>1, <2>3 DEF PlanTypes
      <4> QED BY <1>3, <2>1, <4>1
    <3> QED BY <3>1, <3>2, <3>3 DEF GroupInv
  <2> QED BY <1>1, <1>2, <2>1, <2>4 DEF SortInv, PlanInv
<1>4. CASE Len(ordered) # Cardinality(Tasks)
  <2>1. phase' = "refused"
    BY <1>4 DEF SortEnd
  <2> QED BY <1>1, <1>2, <2>1 DEF SortInv, GroupInv, PlanInv
<1> QED BY <1>3, <1>4

\* Whatever may join, the next group holds the first pending task, and none
\* but pending tasks.
LEMMA NextGroupChosen ==
    ASSUME PlanTypes, pending # <<>>
    PROVE  NextGroup \in SUBSET ToSet(pending) /\ Head(pending) \in NextGroup
<1> DEFINE rest == Tail(pending)
           base == {Head(pending)}
           A == ToSet(rest)
           B == {group \in SUBSET ToSet(pending) : Head(pending) \in group}
<1>1. ToSet(pending) = base \cup A
  BY TailSet DEF PlanTypes
<1>2. CASE MaxTasksPerBatch = 1
  BY <1>1, <1>2 DEF NextGroup
<1>3. CASE MaxTasksPerBatch # 1
  <2> DEFINE step(g, s) == IF s = {} THEN base
                           ELSE JoinGroup(g[s \ {Max(s)}], rest[Max(s)])
             iter == CHOOSE g : g = [s \in SUBSET DOMAIN rest |-> step(g, s)]
             W == B \cup {iter[s] : s \in SUBSET DOMAIN rest}
             F == [y \in W \X A |-> JoinGroup(y[1], y[2])]
  <2>1. NextGroup = iter[DOMAIN rest]
    BY <1>3 DEF NextGroup, FoldLeft, MapThenFoldSet
  <2>2. /\ B \subseteq W /\ \A s \in SUBSET DOMAIN rest : iter[s] \in W
        /\ \A b \in W, x \in A : F[<<b, x>>] = JoinGroup(b, x)
    OBVIOUS
  <2>3. rest \in Seq(A)
    <3>1. rest \in Seq(Tasks)
      BY TailSet DEF PlanTypes
    <3> HIDE DEF rest
    <3>2. Len(rest) \in Nat /\ DOMAIN rest = 1..Len(rest)
          /\ rest \in [1..Len(rest) -> Tasks]
      BY <3>1
    <3>3. rest \in [1..Len(rest) -> A]
      BY <3>2 DEF ToSet
    <3> HIDE DEF A
    <3> QED BY <3>2, <3>3
  <2> HIDE DEF iter, W, F, rest
  <2>4. base \in B /\ \A b \in B, x \in A : F[<<b, x>>] \in B
    <3>1. \A b \in B, x \in A : JoinGroup(b, x) \in B
      BY <1>1 DEF JoinGroup
    <3> QED BY <1>1, <2>2, <3>1
  <2> HIDE DEF A, B, base
  <2>5. PICK g \in [SUBSET DOMAIN rest -> B] : FoldEquation(F, base, rest, DOMAIN rest, g)
    BY <2>3, <2>4, FoldExists
  <2>6. \A s \in SUBSET DOMAIN rest :
           s # {} => s \ {Max(s)} \in SUBSET DOMAIN rest /\ rest[Max(s)] \in A
    BY <2>3, LastOfDomain
  <2>7. g = [s \in SUBSET DOMAIN rest |-> step(g, s)]
    BY <2>2, <2>5, <2>6 DEF FoldEquation
  <2> HIDE DEF step
  <2>8. iter = [s \in SUBSET DOMAIN rest |-> step(iter, s)]
    BY <2>7 DEF iter
  <2>9. FoldEquation(F, base, rest, DOMAIN rest, iter)
    BY <2>2, <2>6, <2>8 DEF FoldEquation, step
  <2>10. PICK h : Results(h, B, base, rest, iter[DOMAIN rest])
    BY <2>3, <2>4, <2>9, FoldRun
  <2>11. iter[DOMAIN rest] \in B
    <3>1. Len(rest) \in 0..Len(rest)
      BY <2>3
    <3> QED BY <2>10, <3>1 DEF Results
  <2> QED BY <2>1, <2>11 DEF B
<1> QED BY <1>2, <1>3

\* What is pending after a group was taken.
LEMMA LessPending ==
    ASSUME ScheduleInv, GroupNext, phase' = "group"
    PROVE  /\ batches' = Append(batches, NextGroup)
           /\ NextGroup \in SUBSET Tasks
           /\ pending' \in Seq(Tasks) /\ IsInjective(pending')
           /\ ToSet(pending') = ToSet(pending) \ NextGroup
           /\ Len(pending') < Len(pending)
<1>1. /\ phase = "group" /\ pending # <<>>
      /\ batches' = Append(batches, NextGroup)
      /\ pending' = IF MaxTasksPerBatch = 1 THEN Tail(pending)
                    ELSE Kept(pending, ToSet(pending) \ NextGroup)
  BY DEF GroupNext
<1>2. pending \in Seq(Tasks) /\ IsInjective(pending) /\ ToSet(pending) \in SUBSET Tasks
  BY <1>1 DEF PlanTypes, GroupInv, ToSet
<1>3. NextGroup \in SUBSET ToSet(pending) /\ Head(pending) \in NextGroup
  BY <1>1, NextGroupChosen
<1>4. /\ pending' \in Seq(Tasks) /\ IsInjective(pending')
      /\ ToSet(pending') = ToSet(pending) \ NextGroup
  <2>1. CASE MaxTasksPerBatch = 1
    BY <1>1, <1>2, <2>1, TailSet DEF NextGroup
  <2>2. CASE MaxTasksPerBatch # 1
    BY <1>1, <1>2, <2>2, KeptList
  <2> QED BY <2>1, <2>2
<1>5. /\ IsFiniteSet(ToSet(pending)) /\ Cardinality(ToSet(pending)) = Len(pending)
      /\ Cardinality(ToSet(pending')) = Len(pending')
  BY <1>2, <1>4, InjectiveCount
<1>6. ToSet(pending') \subseteq ToSet(pending) /\ ToSet(pending') # ToSet(pending)
  BY <1>3, <1>4
<1>7. Cardinality(ToSet(pending')) < Cardinality(ToSet(pending))
  <2> DEFINE old == ToSet(pending)
             new == ToSet(pending')
  <2> HIDE DEF old, new
  <2>1. Cardinality(new) \in Nat /\ Cardinality(old) \in Nat
        /\ Cardinality(new) <= Cardinality(old)
        /\ (Cardinality(new) = Cardinality(old) => new = old)
    BY <1>5, <1>6, FS_Subset, FS_CardinalityType DEF old, new
  <2> QED BY <1>6, <2>1 DEF old, new
<1> QED BY <1>1, <1>2, <1>3, <1>4, <1>5, <1>7

\* GroupNext: the tasks that leave the pending ones are those of the batch.
LEMMA GroupNextInv ==
    ASSUME ScheduleInv, GroupNext, UNCHANGED mode
    PROVE  ScheduleInv'
<1>1. /\ phase = "group" /\ pending # <<>> /\ mode' = "task_batch"
      /\ UNCHANGED <<dependsOn, inDegree, queue, ordered>>
  BY DEF GroupNext, PlanInv
<1>2. CASE phase' = "refused" /\ UNCHANGED <<batches, pending>>
  BY <1>1, <1>2, SamePlanInv DEF planVars, PlanInv
<1>3. CASE phase' = "group"
  <2>1. /\ batches' = Append(batches, NextGroup) /\ NextGroup \in SUBSET Tasks
        /\ pending' \in Seq(Tasks) /\ IsInjective(pending')
        /\ ToSet(pending') = ToSet(pending) \ NextGroup
        /\ Len(pending') < Len(pending)
    BY <1>3, LessPending
  <2>2. /\ batches \in Seq(SUBSET Tasks) /\ pending \in Seq(Tasks)
        /\ Planned \cup ToSet(pending) = Tasks
        /\ Len(batches) + Len(pending) <= Cardinality(Tasks)
    BY <1>1 DEF PlanTypes, GroupInv
  <2>3. /\ batches' \in Seq(SUBSET Tasks) /\ Len(batches') = Len(batches) + 1
        /\ Len(batches) \in Nat
        /\ \A i \in 1..Len(batches) : batches'[i] = batches[i]
        /\ batches'[Len(batches) + 1] = NextGroup
    BY <2>1, <2>2
  <2>4. Planned' = Planned \cup NextGroup
    <3>1. 1..Len(batches') = 1..Len(batches) \cup {Len(batches) + 1}
      BY <2>3
    <3> QED BY <2>3, <3>1 DEF Planned
  <2>5. NextGroup \subseteq ToSet(pending)
    BY <1>1, NextGroupChosen
  <2>6. GroupInv'
    <3>1. Planned' \cup ToSet(pending') = Tasks
      BY <2>1, <2>2, <2>4, <2>5
    <3>2. /\ Len(pending) \in Nat /\ Len(pending') \in Nat
          /\ Cardinality(Tasks) \in Nat
      BY <2>1, <2>2, SortedAtMostOnce
    <3>3. Len(batches') + Len(pending') <= Cardinality(Tasks)
      BY <2>1, <2>2, <2>3, <3>2
    <3> QED BY <2>1, <3>1, <3>3 DEF GroupInv
  <2>7. PlanTypes' /\ OrderInv'
    BY <1>1, <2>1, <2>3 DEF PlanTypes, OrderInv
  <2> QED BY <1>1, <1>3, <2>6, <2>7 DEF SortInv, PlanInv
<1> QED BY <1>1, <1>2, <1>3 DEF GroupNext

LEMMA GroupEndInv ==
    ASSUME ScheduleInv, GroupEnd, UNCHANGED mode
    PROVE  ScheduleInv'
<1>1. phase = "group" /\ pending = <<>> /\ phase' = "batch" /\ UNCHANGED planVars
  BY DEF GroupEnd
<1>2. Planned = Tasks /\ Len(batches) <= Cardinality(Tasks)
  <2>1. ToSet(pending) = {} /\ Len(pending) = 0 /\ Len(batches) \in Nat
    BY <1>1 DEF ToSet, PlanTypes
  <2> QED BY <1>1, <2>1, SortedAtMostOnce DEF GroupInv
<1>3. PlanInv'
  BY <1>1, <1>2 DEF PlanInv, planVars, Planned
<1> QED BY <1>1, <1>3, SamePlanInv

LEMMA InitSchedule == Init => ScheduleInv
<1> SUFFICES ASSUME Init PROVE ScheduleInv
  OBVIOUS
<1>1. /\ phase = "idle" /\ mode = "initial"
      /\ dependsOn \in DependsOnChoices
      /\ inDegree = [t \in Tasks |-> 0]
      /\ queue = <<>> /\ ordered = <<>> /\ pending = <<>> /\ batches = <<>>
  BY DEF Init
<1>2. PlanTypes
  BY <1>1, DesignAssumption DEF PlanTypes
<1> QED BY <1>1, <1>2 DEF OrderInv, SortInv, GroupInv, PlanInv, IsInjective

\* The steps of the developer after the plan is made keep it as it is.
LEMMA RunningInv ==
    ASSUME ScheduleInv, UNCHANGED <<planVars, mode>>,
           \/ /\ phase \in {"batch", "invoke", "return", "done"}
              /\ phase' \in {"batch", "invoke", "return", "done"}
              /\ phase' = "batch" => mode = "task_batch"
           \/ phase' \in {"idle", "raised"}
    PROVE  ScheduleInv'
<1>1. UNCHANGED <<ordered, batches>>
  BY DEF planVars
<1>2. PlanInv'
  BY <1>1 DEF PlanInv, Planned
<1> QED BY <1>2, SamePlanInv

LEMMA EnterInv ==
    ASSUME ScheduleInv, EnterFirst \/ EnterRetry \/ EnterContinue
    PROVE  ScheduleInv'
<1>1. CASE StartSort /\ mode' = "task_batch"
  BY <1>1, StartSortInv
<1>2. CASE phase' = "invoke" /\ mode' # "task_batch" /\ UNCHANGED planVars
  BY <1>2, SamePlanInv DEF PlanInv
<1> QED BY <1>1, <1>2 DEF EnterFirst, EnterRetry, EnterContinue, Enter, ImplMode

LEMMA NextSchedule ==
    ASSUME ScheduleInv, [Next]_vars
    PROVE  ScheduleInv'
<1>1. CASE EnterFirst \/ EnterRetry \/ EnterContinue
  BY <1>1, EnterInv
<1>2. CASE OtherAgentInvokes
  <2>1. UNCHANGED <<phase, planVars, mode>> /\ phase \in {"idle", "done"}
    BY <1>2 DEF OtherAgentInvokes, batchVars
  <2> QED BY <2>1, RunningInv
<1>3. CASE Schedule
  <2>1. UNCHANGED mode
    BY <1>3 DEF Schedule, batchVars
  <2> QED BY <1>3, <2>1, SortNextInv, SortEndInv, GroupNextInv, GroupEndInv
          DEF Schedule, ScheduleStep
<1>4. ASSUME NEW kind, Raise(kind) PROVE ScheduleInv'
  <2>1. phase' = "raised" /\ UNCHANGED <<planVars, mode>>
    BY <1>4 DEF Raise
  <2> QED BY <2>1, RunningInv
<1>5. CASE PlanRefused \/ RefreshFails \/ ClosureFails \/ ContextRefused \/ InvokeRaises \/ Die
  BY <1>4, <1>5
  DEF PlanRefused, RefreshFails, ClosureFails, ContextRefused, InvokeRaises, Die
<1>6. CASE StopOnBudget \/ BeginBatch \/ AllBatchesDone \/ SaveManifest
  <2>1. /\ phase \in {"batch", "return"} /\ phase' \in {"invoke", "return", "done"}
        /\ UNCHANGED <<planVars, mode>>
    BY <1>6 DEF StopOnBudget, BeginBatch, AllBatchesDone, SaveManifest, batchVars
  <2> QED BY <2>1, RunningInv
<1>7. CASE Invoke \/ AcceptOutput \/ TakeWholeOutput
  <2>1. /\ phase = "invoke" /\ phase' \in {"invoke", "batch", "return"}
        /\ phase' = "batch" => mode = "task_batch"
        /\ UNCHANGED <<planVars, mode>>
    BY <1>7 DEF Invoke, AcceptOutput, TakeWholeOutput, batchVars
  <2> QED BY <2>1, RunningInv
<1>8. CASE RejectOutput
  <2>1. CASE phase = "invoke" /\ UNCHANGED <<phase, planVars, mode>>
    BY <2>1, RunningInv
  <2> QED BY <1>4, <1>8, <2>1 DEF RejectOutput
<1>9. CASE UNCHANGED vars
  <2>1. UNCHANGED <<phase, dependsOn, inDegree, queue, ordered, pending, batches, mode>>
    BY <1>9 DEF vars, planVars, batchVars
  <2>2. PlanTypes' /\ OrderInv'
    BY <2>1 DEF PlanTypes, OrderInv
  <2>3. SortInv' /\ PlanInv'
    BY <2>1 DEF SortInv, PlanInv, Done, Planned
  <2>4. GroupInv'
    BY <2>1 DEF GroupInv, Planned
  <2> QED BY <2>2, <2>3, <2>4
<1> QED BY <1>1, <1>2, <1>3, <1>5, <1>6, <1>7, <1>8, <1>9 DEF Next, DeveloperStep

THEOREM ScheduleInvariant == Spec => []ScheduleInv
<1>1. ScheduleInv /\ [Next]_vars => ScheduleInv'
  BY NextSchedule
<1> QED BY <1>1, InitSchedule, PTL DEF Spec

-----------------------------------------------------------------------------
(***************************************************************************)
(* One task to a batch.                                                    *)
(***************************************************************************)
\* The batches are cut off the sorted tasks, first to last.
OneByOne ==
    /\ Len(batches) <= Len(ordered)
    /\ \A i \in 1..Len(batches) : batches[i] = {ordered[i]}
    /\ phase = "group" =>
          /\ Len(batches) + Len(pending) = Len(ordered)
          /\ \A i \in 1..Len(pending) : pending[i] = ordered[Len(batches) + i]

LEMMA SameOneByOne ==
    ASSUME OneByOne, UNCHANGED <<ordered, batches>>,
           \/ phase' # "group"
           \/ UNCHANGED <<phase, pending>>
    PROVE  OneByOne'
<1>1. ordered' = ordered /\ batches' = batches
  OBVIOUS
<1> QED BY <1>1 DEF OneByOne

\* The head of what is pending is the next of the sorted tasks.
LEMMA GroupNextOneByOne ==
    ASSUME MaxTasksPerBatch = 1, PlanTypes, OneByOne, GroupNext
    PROVE  OneByOne'
<1>1. phase = "group" /\ pending # <<>> /\ UNCHANGED ordered
  BY DEF GroupNext
<1>2. CASE phase' = "refused" /\ UNCHANGED batches
  BY <1>1, <1>2, SameOneByOne
<1>3. CASE /\ batches' = Append(batches, {Head(pending)})
           /\ pending' = Tail(pending)
  <2>1. /\ Len(batches) + Len(pending) = Len(ordered)
        /\ \A i \in 1..Len(pending) : pending[i] = ordered[Len(batches) + i]
        /\ \A i \in 1..Len(batches) : batches[i] = {ordered[i]}
    BY <1>1 DEF OneByOne
  <2>2. /\ pending \in Seq(Tasks) /\ batches \in Seq(SUBSET Tasks)
        /\ Len(pending) \in Nat \ {0} /\ Len(batches) \in Nat /\ Len(ordered) \in Nat
    BY <1>1 DEF PlanTypes
  <2>3. /\ Head(pending) \in Tasks /\ Head(pending) = pending[1]
        /\ Tail(pending) \in Seq(Tasks) /\ Len(Tail(pending)) = Len(pending) - 1
        /\ \A i \in 1..(Len(pending) - 1) : Tail(pending)[i] = pending[i + 1]
    BY <2>2
  <2>4. /\ Len(batches') = Len(batches) + 1
        /\ \A i \in 1..Len(batches) : batches'[i] = batches[i]
        /\ batches'[Len(batches) + 1] = {Head(pending)}
    BY <1>3, <2>2, <2>3
  <2>5. Head(pending) = ordered[Len(batches) + 1]
    BY <2>1, <2>2, <2>3
  <2>6. Len(batches') <= Len(ordered')
        /\ \A i \in 1..Len(batches') : batches'[i] = {ordered'[i]}
    BY <1>1, <2>1, <2>2, <2>4, <2>5
  <2>7. \A i \in 1..Len(pending') : pending'[i] = ordered'[Len(batches') + i]
    <3> SUFFICES ASSUME NEW i \in 1..(Len(pending) - 1)
                 PROVE  Tail(pending)[i] = ordered[(Len(batches) + 1) + i]
      BY <1>1, <1>3, <2>2, <2>3, <2>4
    <3>1. i + 1 \in 1..Len(pending) /\ Len(batches) + (i + 1) = (Len(batches) + 1) + i
      BY <2>2
    <3> QED BY <2>1, <2>3, <3>1
  <2>8. Len(batches') + Len(pending') = Len(ordered')
    BY <1>1, <1>3, <2>1, <2>2, <2>3, <2>4
  <2> QED BY <2>6, <2>7, <2>8 DEF OneByOne
<1> QED BY <1>2, <1>3 DEF GroupNext, NextGroup

LEMMA NextOneByOne ==
    ASSUME MaxTasksPerBatch = 1, ScheduleInv, OneByOne, [Next]_vars
    PROVE  OneByOne'
<1>1. ASSUME batches' = <<>>, ordered' \in Seq(Tasks), phase' # "group" PROVE OneByOne'
  <2>1. Len(ordered') \in Nat /\ Len(batches') = 0
    BY <1>1
  <2> QED BY <1>1, <2>1 DEF OneByOne
<1>2. ScheduleInv' /\ ordered' \in Seq(Tasks)
  <2>1. ScheduleInv'
    BY NextSchedule
  <2> QED BY <2>1 DEF PlanTypes
<1>3. CASE EnterFirst \/ EnterRetry \/ EnterContinue
  <2>1. CASE StartSort
    BY <1>1, <1>2, <2>1 DEF StartSort
  <2>2. CASE phase' = "invoke" /\ UNCHANGED planVars
    BY <2>2, SameOneByOne DEF planVars
  <2> QED BY <1>3, <2>1, <2>2 DEF EnterFirst, EnterRetry, EnterContinue, Enter
<1>4. CASE Schedule
  <2>1. CASE SortNext
    BY <1>1, <1>2, <2>1 DEF SortNext, SortInv
  <2>2. CASE SortEnd
    <3>1. phase = "sort" /\ UNCHANGED <<ordered, batches>>
      BY <2>2 DEF SortEnd
    <3>2. CASE phase' = "refused"
      BY <3>1, <3>2, SameOneByOne
    <3>3. CASE phase' = "group" /\ pending' = ordered
      <4>1. batches' = <<>> /\ ordered' = ordered /\ Len(ordered) \in Nat
        BY <3>1 DEF SortInv, PlanTypes
      <4> QED BY <3>3, <4>1 DEF OneByOne
    <3> QED BY <2>2, <3>2, <3>3 DEF SortEnd
  <2>3. CASE GroupNext
    BY <2>3, GroupNextOneByOne
  <2>4. CASE GroupEnd
    BY <2>4, SameOneByOne DEF GroupEnd, planVars
  <2> QED BY <1>4, <2>1, <2>2, <2>3, <2>4 DEF Schedule, ScheduleStep
<1>5. CASE UNCHANGED <<planVars, phase>>
  BY <1>5, SameOneByOne DEF planVars
<1>6. CASE UNCHANGED planVars /\ phase' # "group"
  BY <1>6, SameOneByOne DEF planVars
<1>7. ASSUME NEW kind, Raise(kind) PROVE OneByOne'
  BY <1>6, <1>7 DEF Raise
<1>8. CASE PlanRefused \/ RefreshFails \/ ClosureFails \/ ContextRefused \/ InvokeRaises \/ Die
  BY <1>7, <1>8
  DEF PlanRefused, RefreshFails, ClosureFails, ContextRefused, InvokeRaises, Die
<1>9. CASE OtherAgentInvokes \/ Invoke
  BY <1>5, <1>9 DEF OtherAgentInvokes, Invoke
<1>10. CASE StopOnBudget \/ BeginBatch \/ AllBatchesDone \/ AcceptOutput
            \/ TakeWholeOutput \/ SaveManifest
  BY <1>6, <1>10
  DEF StopOnBudget, BeginBatch, AllBatchesDone, AcceptOutput, TakeWholeOutput, SaveManifest
<1>11. CASE RejectOutput
  BY <1>5, <1>7, <1>11 DEF RejectOutput
<1>12. CASE UNCHANGED vars
  BY <1>5, <1>12 DEF vars
<1> QED BY <1>3, <1>4, <1>8, <1>9, <1>10, <1>11, <1>12 DEF Next, DeveloperStep

THEOREM OneByOneInvariant ==
    ASSUME MaxTasksPerBatch = 1
    PROVE  Spec => []OneByOne
<1>1. Init => OneByOne
  BY DEF Init, OneByOne
<1>2. ScheduleInv /\ OneByOne /\ [Next]_vars => OneByOne'
  BY NextOneByOne
<1> QED BY <1>1, <1>2, ScheduleInvariant, PTL DEF Spec

\* What a batch depends on is in the batches before it.
LEMMA BatchesInOrder == ScheduleInv /\ OneByOne => BatchesRespectDependencies
<1> SUFFICES ASSUME ScheduleInv, OneByOne, NEW i \in DOMAIN batches
             PROVE  UNION {dependsOn[t] : t \in batches[i]}
                      \subseteq UNION {batches[j] : j \in 1..(i - 1)}
  BY DEF BatchesRespectDependencies
<1>1. DOMAIN batches = 1..Len(batches) /\ Len(batches) \in Nat /\ Len(ordered) \in Nat
  BY DEF PlanTypes
<1>2. i \in 1..Len(ordered) /\ \A j \in 1..(i - 1) : j \in 1..Len(batches)
  BY <1>1 DEF OneByOne
<1>3. batches[i] = {ordered[i]} /\ \A j \in 1..(i - 1) : batches[j] = {ordered[j]}
  BY <1>1, <1>2 DEF OneByOne
<1>4. dependsOn[ordered[i]] \subseteq Before(ordered, i)
  BY <1>2 DEF OrderInv
<1>5. \A j \in 1..(i - 1) : ordered[j] \in UNION {batches[k] : k \in 1..(i - 1)}
  BY <1>3
<1> QED BY <1>3, <1>4, <1>5 DEF Before

(***************************************************************************)
(* With one task to a batch, any design whose plan is not refused is run   *)
(* in an order in which every task comes after all it depends on.          *)
(***************************************************************************)
THEOREM PlanIsTopological ==
    ASSUME MaxTasksPerBatch = 1
    PROVE  Spec => []BatchesRespectDependencies
BY BatchesInOrder, ScheduleInvariant, OneByOneInvariant, PTL

-----------------------------------------------------------------------------
(***************************************************************************)
(* What the batches deliver.                                               *)
(***************************************************************************)
Delivered(i) ==
    /\ batches[i] \subseteq manifest.tasks
    /\ Required(batches[i]) \subseteq manifest.files
    /\ \A p \in Required(batches[i]) : lines[p] > 0

CodeTree == lines \in [Paths -> Nat]

\* The batches below the index are delivered; the node returns after the last
\* one, or because the budget is spent; what it returned is what it saved.
ProgressInv ==
    mode = "task_batch" =>
        /\ phase \in {"sort", "group", "refused"} => index = 1
        /\ phase \in {"batch", "invoke", "return", "done"} =>
              /\ index \in 1..(Len(batches) + 1)
              /\ \A i \in 1..(index - 1) : Delivered(i)
        /\ phase = "invoke" => index \in 1..Len(batches)
        /\ phase \in {"return", "done"} => index = Len(batches) + 1 \/ BudgetSpent
        /\ phase = "done" => saved = manifest

DeliveryInv == CodeTree /\ ProgressInv

USE DEF DeliveryInv

LEMMA RequiredPathsType ==
    ASSUME NEW group \in SUBSET Tasks
    PROVE  Required(group) \subseteq Paths
BY PathsAssumption DEF Required

\* Nothing below the index is touched while the plan, the manifest and the
\* code tree stay as they are.
LEMMA StillDelivered ==
    ASSUME UNCHANGED <<batches, manifest, lines>>, NEW i
    PROVE  Delivered(i)' <=> Delivered(i)
BY DEF Delivered, Required

\* An output that passes the gate delivers its batch and spoils no other.
LEMMA AcceptDelivers ==
    ASSUME ScheduleInv, DeliveryInv, AcceptOutput
    PROVE  DeliveryInv'
<1>1. /\ phase = "invoke" /\ mode = "task_batch" /\ mode' = "task_batch"
      /\ phase' = "batch" /\ index' = index + 1
      /\ UNCHANGED batches
  BY DEF AcceptOutput, planVars
<1>2. PICK output \in Outputs :
         /\ Acceptable(output, Batch)
         /\ Apply(output)
         /\ manifest' = MergeManifest(output)
  BY DEF AcceptOutput
<1>3. /\ output.files \in [Paths -> Nat]
      /\ batches[index] \subseteq output.done
      /\ Required(batches[index]) \subseteq Files(output)
  BY <1>2, OutputsAssumption DEF Acceptable, Batch
<1>4. /\ manifest'.tasks = manifest.tasks \cup output.done
      /\ manifest'.files = manifest.files \cup Files(output)
  BY <1>2 DEF MergeManifest
<1>5. \A p \in Paths : /\ lines'[p] \in Nat
                       /\ lines[p] > 0 => lines'[p] > 0
                       /\ p \in Files(output) => lines'[p] > 0
  BY <1>2, <1>3 DEF Apply, Files, CodeTree
<1>6. CodeTree'
  BY <1>2, <1>5 DEF Apply, CodeTree
<1>7. /\ index \in 1..Len(batches) /\ Len(batches) \in Nat
      /\ \A i \in 1..(index - 1) : Delivered(i)
      /\ \A i \in 1..Len(batches) : batches[i] \in SUBSET Tasks
  <2>1. batches \in Seq(SUBSET Tasks)
    BY DEF PlanTypes
  <2>2. index \in 1..Len(batches) /\ \A i \in 1..(index - 1) : Delivered(i)
    BY <1>1 DEF ProgressInv
  <2>3. Len(batches) \in Nat /\ \A i \in 1..Len(batches) : batches[i] \in SUBSET Tasks
    BY <2>1
  <2> QED BY <2>2, <2>3
<1>8. ASSUME NEW i \in 1..index PROVE Delivered(i)'
  <2>1. batches[i] \in SUBSET Tasks /\ batches'[i] = batches[i]
    BY <1>1, <1>7
  <2>2. Required(batches[i]) \subseteq Paths
        /\ Required(batches[i])' = Required(batches[i])
    BY <2>1, RequiredPathsType DEF Required
  <2>3. CASE i = index
    BY <1>3, <1>4, <1>5, <2>1, <2>2, <2>3 DEF Delivered
  <2>4. CASE i # index
    <3>1. Delivered(i)
      BY <1>7, <2>4
    <3> QED BY <1>4, <1>5, <2>1, <2>2, <3>1 DEF Delivered
  <2> QED BY <2>3, <2>4
<1>9. index' \in 1..(Len(batches') + 1) /\ \A i \in 1..(index' - 1) : Delivered(i)'
  BY <1>1, <1>7, <1>8
<1> QED BY <1>1, <1>6, <1>9 DEF ProgressInv

\* Steps that leave plan, manifest, code tree and index alone.
LEMMA QuietDelivery ==
    ASSUME DeliveryInv,
           UNCHANGED <<batches, lines, mode, index, manifest>>,
           \/ phase' = "raised"
           \/ /\ phase \in {"batch", "invoke", "return", "done"}
              /\ phase' \in {"batch", "invoke", "return", "done"}
              /\ mode = "task_batch" =>
                   /\ phase' = "invoke" => index \in 1..Len(batches)
                   /\ phase' \in {"return", "done"} =>
                        index = Len(batches) + 1 \/ BudgetSpent'
                   /\ phase' = "done" => saved' = manifest
    PROVE  DeliveryInv'
<1>1. CodeTree'
  BY DEF CodeTree
<1>2. \A i : Delivered(i)' <=> Delivered(i)
  BY StillDelivered
<1> QED BY <1>1, <1>2 DEF ProgressInv

LEMMA NextDelivery ==
    ASSUME ScheduleInv, DeliveryInv, [Next]_vars
    PROVE  DeliveryInv'
<1>0. ScheduleInv'
  BY NextSchedule
<1>1. CASE EnterFirst \/ EnterRetry \/ EnterContinue
  <2>1. UNCHANGED lines /\ index' = 1
    BY <1>1 DEF EnterFirst, EnterRetry, EnterContinue, Enter
  <2>2. mode' = "task_batch" => phase' = "sort"
    BY <1>1 DEF EnterFirst, EnterRetry, EnterContinue, Enter, StartSort
  <2> QED BY <2>1, <2>2 DEF CodeTree, ProgressInv
<1>2. CASE OtherAgentInvokes
  <2>1. /\ phase \in {"idle", "done"} /\ ~ BudgetSpent
        /\ UNCHANGED <<phase, batches, lines, mode, index, manifest, saved>>
    BY <1>2 DEF OtherAgentInvokes, batchVars, planVars
  <2>2. CASE phase = "done"
    <3>1. mode = "task_batch" => index = Len(batches) + 1 /\ saved = manifest
      BY <2>1, <2>2 DEF ProgressInv
    <3> QED BY <2>1, <2>2, <3>1, QuietDelivery
  <2>3. CASE phase = "idle"
    BY <2>1, <2>3 DEF ProgressInv, CodeTree
  <2> QED BY <2>1, <2>2, <2>3
<1>3. CASE Schedule
  <2>1. UNCHANGED <<lines, mode, index, manifest, saved>>
    BY <1>3 DEF Schedule, batchVars
  <2>2. phase \in {"sort", "group"} /\ phase' \in {"sort", "group", "refused", "batch"}
    BY <1>3 DEF Schedule, ScheduleStep, SortNext, SortEnd, GroupNext, GroupEnd
  <2>3. mode = "task_batch" => index = 1
    BY <2>2 DEF ProgressInv
  <2>4. Len(batches') \in Nat
    BY <1>0 DEF PlanTypes
  <2> QED BY <2>1, <2>2, <2>3, <2>4 DEF ProgressInv, CodeTree
<1>4. ASSUME NEW kind, Raise(kind) PROVE DeliveryInv'
  <2>1. phase' = "raised" /\ UNCHANGED <<batches, lines, mode, index, manifest>>
    BY <1>4 DEF Raise, planVars
  <2> QED BY <2>1, QuietDelivery
<1>5. CASE PlanRefused \/ RefreshFails \/ ClosureFails \/ ContextRefused \/ InvokeRaises \/ Die
  BY <1>4, <1>5
  DEF PlanRefused, RefreshFails, ClosureFails, ContextRefused, InvokeRaises, Die
<1>6. /\ DOMAIN batches = 1..Len(batches) /\ Len(batches) \in Nat
  BY DEF PlanTypes
<1>7. CASE StopOnBudget \/ AllBatchesDone
  <2>1. /\ phase = "batch" /\ phase' = "return"
        /\ UNCHANGED <<batches, lines, budget, mode, index, manifest>>
    BY <1>7 DEF StopOnBudget, AllBatchesDone, planVars, batchVars, llmVars
  <2>2. mode = "task_batch" => index \in 1..(Len(batches) + 1)
    BY <2>1 DEF ProgressInv
  <2>3. BudgetSpent \/ index \notin 1..Len(batches)
    BY <1>6, <1>7 DEF StopOnBudget, AllBatchesDone
  <2>4. BudgetSpent' <=> BudgetSpent
    BY <2>1 DEF BudgetSpent
  <2>5. mode = "task_batch" => index = Len(batches) + 1 \/ BudgetSpent'
    BY <1>6, <2>2, <2>3, <2>4
  <2> QED BY <2>1, <2>5, QuietDelivery
<1>8. CASE BeginBatch
  <2>1. /\ phase = "batch" /\ phase' = "invoke" /\ index \in 1..Len(batches)
        /\ UNCHANGED <<batches, lines, mode, index, manifest>>
    BY <1>6, <1>8 DEF BeginBatch, planVars
  <2> QED BY <2>1, QuietDelivery
<1>9. CASE Invoke
  <2>1. /\ phase = "invoke" /\ phase' = "invoke"
        /\ UNCHANGED <<batches, lines, mode, index, manifest>>
    BY <1>9 DEF Invoke, planVars, batchVars
  <2>2. mode = "task_batch" => index \in 1..Len(batches)
    BY <2>1 DEF ProgressInv
  <2> QED BY <2>1, <2>2, QuietDelivery
<1>10. CASE AcceptOutput
  BY <1>10, AcceptDelivers
<1>11. CASE RejectOutput
  <2>1. CASE /\ phase = "invoke"
             /\ UNCHANGED <<phase, batches, lines, mode, index, manifest>>
    <3>1. mode = "task_batch" => index \in 1..Len(batches)
      BY <2>1 DEF ProgressInv
    <3> QED BY <2>1, <3>1, QuietDelivery
  <2> QED BY <1>4, <1>11, <2>1 DEF RejectOutput, planVars
<1>12. CASE TakeWholeOutput
  <2>1. PICK output \in Outputs : Apply(output)
    BY <1>12 DEF TakeWholeOutput
  <2>2. CodeTree'
    BY <2>1, OutputsAssumption DEF Apply, CodeTree
  <2> QED BY <1>12, <2>2 DEF TakeWholeOutput, ProgressInv
<1>13. CASE SaveManifest
  <2>1. /\ phase = "return" /\ phase' = "done" /\ saved' = manifest
        /\ UNCHANGED <<batches, lines, budget, mode, index, manifest>>
    BY <1>13 DEF SaveManifest, planVars, llmVars
  <2>2. mode = "task_batch" => index = Len(batches) + 1 \/ BudgetSpent
    BY <2>1 DEF ProgressInv
  <2>3. BudgetSpent' <=> BudgetSpent
    BY <2>1 DEF BudgetSpent
  <2> QED BY <2>1, <2>2, <2>3, QuietDelivery
<1>14. CASE UNCHANGED vars
  <2>1. UNCHANGED <<phase, batches, lines, budget, mode, index, manifest, saved>>
    BY <1>14 DEF vars, planVars, llmVars, batchVars
  <2>2. \A i : Delivered(i)' <=> Delivered(i)
    BY <2>1, StillDelivered
  <2>3. BudgetSpent' <=> BudgetSpent
    BY <2>1 DEF BudgetSpent
  <2> QED BY <2>1, <2>2, <2>3 DEF ProgressInv, CodeTree
<1> QED BY <1>1, <1>2, <1>3, <1>5, <1>7, <1>8, <1>9, <1>10, <1>11, <1>12, <1>13, <1>14
        DEF Next, DeveloperStep

LEMMA InitDelivery == Init => DeliveryInv
BY DEF Init, CodeTree, ProgressInv

THEOREM DeliveryInvariant == Spec => []DeliveryInv
<1>1. ScheduleInv /\ DeliveryInv /\ [Next]_vars => DeliveryInv'
  BY NextDelivery
<1> QED BY <1>1, InitDelivery, ScheduleInvariant, PTL DEF Spec

(***************************************************************************)
(* Whatever outputs are rejected, repeated or make up files of others, the *)
(* batches passed have their files on disk and in the manifest.            *)
(***************************************************************************)
THEOREM BatchesDelivered == Spec => []BatchesRunAreDelivered
<1>1. DeliveryInv => BatchesRunAreDelivered
  BY DEF ProgressInv, Delivered, BatchesRunAreDelivered
<1> QED BY <1>1, DeliveryInvariant, PTL

(***************************************************************************)
(* The gate before a batch never finds a dependency missing: the plan puts *)
(* it into an earlier batch, and that one has reported it done.            *)
(***************************************************************************)
THEOREM DependenciesAlwaysDone ==
    ASSUME MaxTasksPerBatch = 1
    PROVE  Spec => []DependenciesAreDone
<1>1. ASSUME ScheduleInv, OneByOne, DeliveryInv PROVE DependenciesAreDone
  <2> SUFFICES ASSUME phase = "batch", index \in DOMAIN batches, NEW t \in Batch
               PROVE  dependsOn[t] \subseteq manifest.tasks
    BY DEF DependenciesAreDone
  <2>1. \A i \in 1..(index - 1) : batches[i] \subseteq manifest.tasks
    BY <1>1 DEF PlanInv, ProgressInv, Delivered
  <2>2. dependsOn[t] \subseteq UNION {batches[j] : j \in 1..(index - 1)}
    BY <1>1, BatchesInOrder DEF BatchesRespectDependencies, Batch
  <2> QED BY <2>1, <2>2
<1> QED BY <1>1, ScheduleInvariant, OneByOneInvariant, DeliveryInvariant, PTL

(***************************************************************************)
(* In mode task_batch a node that returned has done and delivered every    *)
(* task of the design, unless it was stopped by the budget.                *)
(***************************************************************************)
THEOREM PartialMeansBudget == Spec => []PartialOnlyOnBudget
<1>1. ASSUME ScheduleInv, DeliveryInv PROVE PartialOnlyOnBudget
  <2> SUFFICES ASSUME phase = "done", mode = "task_batch", ~ BudgetSpent
               PROVE  /\ Tasks \subseteq saved.tasks
                      /\ \A t \in Tasks, p \in Paths :
                            p \in RequiredPaths[t] => lines[p] > 0
    BY DEF PartialOnlyOnBudget
  <2>1. /\ index = Len(batches) + 1 /\ saved = manifest
        /\ \A i \in 1..(index - 1) : Delivered(i)
    BY <1>1 DEF ProgressInv
  <2>2. Planned = Tasks /\ Len(batches) \in Nat
    BY <1>1 DEF PlanInv, PlanTypes
  <2>3. \A i \in 1..Len(batches) : Delivered(i)
    BY <2>1, <2>2
  <2>4. ASSUME NEW t \in Tasks
        PROVE  t \in manifest.tasks /\ \A p \in RequiredPaths[t] : lines[p] > 0
    <3>1. PICK i \in 1..Len(batches) : t \in batches[i]
      BY <2>2 DEF Planned
    <3>2. Delivered(i)
      BY <2>3
    <3> QED BY <3>1, <3>2 DEF Delivered, Required
  <2> QED BY <2>1, <2>4
<1> QED BY <1>1, ScheduleInvariant, DeliveryInvariant, PTL

-----------------------------------------------------------------------------
(***************************************************************************)
(* Types.                                                                  *)
(***************************************************************************)
ManifestType == [tasks : SUBSET TaskIds, files : SUBSET Paths]

ControlTypes ==
    /\ phase \in {"idle", "sort", "group", "refused", "batch", "invoke",
                  "return", "done", "raised"}
    /\ call \in CallStates
    /\ attempt \in 1..MaxAttempts
    /\ mode \in {"initial", "retry_patch", "task_batch"}
    /\ index \in Nat \ {0}
    /\ tries \in 1..2
    /\ manifest \in ManifestType
    /\ saved \in ManifestType
    /\ fault \in {"none", "schedule", "closure", "context", "budget", "llm",
                  "output", "killed"}
    /\ entries \in 0..MaxEntries

LEMMA InitControl == Init => ControlTypes
BY EntryAssumption, BudgetAssumption
DEF Init, ControlTypes, ManifestType, EmptyManifest, CallStates

LEMMA OutputType ==
    ASSUME NEW output \in Outputs
    PROVE  output.done \in SUBSET TaskIds /\ Files(output) \in SUBSET Paths
BY OutputsAssumption DEF Files

LEMMA NextControl ==
    ASSUME ControlTypes, [Next]_vars
    PROVE  ControlTypes'
<1> USE DEF ControlTypes
<1>1. ASSUME NEW retried \in BOOLEAN, NEW previous \in ManifestType,
             NEW enabled, NEW threshold,
             Enter(retried, previous, enabled, threshold)
      PROVE  ControlTypes'
  <2>1. /\ phase' \in {"sort", "invoke"} /\ call' \in {"none", "start"}
        /\ mode' \in {"initial", "retry_patch", "task_batch"}
        /\ index' = 1 /\ tries' = 1 /\ fault' = "none" /\ UNCHANGED <<attempt, saved>>
    BY <1>1 DEF Enter, StartSort, ImplMode
  <2>2. manifest' \in {previous, EmptyManifest} /\ entries < MaxEntries
        /\ entries' = entries + 1
    BY <1>1 DEF Enter
  <2>3. manifest' \in ManifestType
    BY <2>2 DEF EmptyManifest, ManifestType
  <2>4. entries' \in 0..MaxEntries
    BY <2>2, EntryAssumption
  <2> QED BY <2>1, <2>3, <2>4 DEF CallStates
<1>2. EmptyManifest \in ManifestType /\ saved \in ManifestType
  BY DEF EmptyManifest, ManifestType
<1>3. CASE EnterFirst \/ EnterRetry \/ EnterContinue
  BY <1>1, <1>2, <1>3 DEF EnterFirst, EnterRetry, EnterContinue
<1>4. ASSUME NEW kind \in {"schedule", "closure", "context", "budget", "llm",
                           "output", "killed"}, Raise(kind)
      PROVE  ControlTypes'
  BY <1>4 DEF Raise, CallStates
<1>5. CASE PlanRefused \/ RefreshFails \/ ClosureFails \/ ContextRefused \/ InvokeRaises \/ Die
  BY <1>4, <1>5
  DEF PlanRefused, RefreshFails, ClosureFails, ContextRefused, InvokeRaises, Die
<1>6. CASE Schedule
  BY <1>6 DEF Schedule, ScheduleStep, SortNext, SortEnd, GroupNext, GroupEnd,
              batchVars, llmVars
<1>7. CASE OtherAgentInvokes \/ StopOnBudget \/ AllBatchesDone \/ BeginBatch \/ SaveManifest
  BY <1>7 DEF OtherAgentInvokes, StopOnBudget, AllBatchesDone, BeginBatch, SaveManifest,
              batchVars, llmVars, CallStates
<1>8. CASE Invoke
  <2>1. UNCHANGED <<phase, batchVars>> /\ InvokeStep
    BY <1>8 DEF Invoke
  <2>2. call' \in CallStates /\ attempt' \in 1..MaxAttempts
    <3>1. CASE InvokeStart
      BY <3>1, BudgetAssumption DEF InvokeStart, CallStates
    <3>2. CASE AttemptFails
      BY <3>2, BudgetAssumption DEF AttemptFails, Retryable, CallStates
    <3>3. CASE AttemptSucceeds \/ RecordUsage
      BY <3>3 DEF AttemptSucceeds, RecordUsage, CallStates
    <3> QED BY <2>1, <3>1, <3>2, <3>3 DEF InvokeStep
  <2> QED BY <2>1, <2>2 DEF batchVars
<1>9. CASE AcceptOutput
  <2>1. PICK output \in Outputs : manifest' = MergeManifest(output)
    BY <1>9 DEF AcceptOutput
  <2>2. manifest' \in ManifestType
    BY <2>1, OutputType DEF MergeManifest, ManifestType
  <2>3. phase' = "batch" /\ call' = "none" /\ index' = index + 1
        /\ UNCHANGED <<attempt, mode, tries, saved, fault, entries>>
    BY <1>9 DEF AcceptOutput
  <2> QED BY <2>2, <2>3 DEF CallStates
<1>10. CASE TakeWholeOutput
  <2>1. PICK output \in Outputs :
          manifest' = [tasks |-> output.done, files |-> Files(output)]
    BY <1>10 DEF TakeWholeOutput
  <2>2. manifest' \in ManifestType
    BY <2>1, OutputType DEF ManifestType
  <2>3. phase' = "return" /\ call' = "none"
        /\ UNCHANGED <<attempt, mode, index, tries, saved, fault, entries>>
    BY <1>10 DEF TakeWholeOutput
  <2> QED BY <2>2, <2>3 DEF CallStates
<1>11. CASE RejectOutput
  BY <1>4, <1>11 DEF RejectOutput, CallStates
<1>12. CASE UNCHANGED vars
  BY <1>12 DEF vars, llmVars, batchVars
<1> QED BY <1>3, <1>5, <1>6, <1>7, <1>8, <1>9, <1>10, <1>11, <1>12
        DEF Next, DeveloperStep

(***************************************************************************)
(* Every variable keeps to its type; in particular in_degree never goes    *)
(* below zero, for designs with cycles and with unknown ids too.           *)
(***************************************************************************)
THEOREM DeveloperTypes == Spec => []TypeOK
<1>1. ControlTypes /\ [Next]_vars => ControlTypes'
  BY NextControl
<1>2. Spec => []ControlTypes
  BY <1>1, InitControl, PTL DEF Spec
<1>3. ScheduleInv /\ DeliveryInv /\ LlmInv /\ ControlTypes => TypeOK
  BY DEF PlanTypes, CodeTree, LlmInv, LlmTypes, ControlTypes, ManifestType, TypeOK
<1> QED BY <1>2, <1>3, ScheduleInvariant, DeliveryInvariant, LlmInvariant, PTL

-----------------------------------------------------------------------------
(***************************************************************************)
(* The measure behind DeveloperEnds.                                       *)
(***************************************************************************)
WorkInv == {PartsLeft, ItemsLeft, OutputsLeft, CallLeft} \subseteq Nat

LEMMA WorkIsCounted ==
    ASSUME ScheduleInv, DeliveryInv, ControlTypes
    PROVE  WorkInv
<1>1. PartsLeft \in Nat
  BY DEF PartsLeft
<1>2. OutputsLeft \in Nat
  BY DEF OutputsLeft, ControlTypes
<1>3. CallLeft \in Nat
  BY BudgetAssumption DEF CallLeft, ControlTypes
<1>4. ItemsLeft \in Nat
  <2>1. /\ Len(pending) \in Nat /\ Len(batches) \in Nat
        /\ Cardinality(Tasks) - Len(ordered) \in Nat
    BY SortedAtMostOnce DEF PlanTypes
  <2>2. phase \in {"batch", "invoke"} /\ mode = "task_batch"
          => Len(batches) + 1 - index \in Nat
    BY <2>1 DEF ProgressInv
  <2> QED BY <2>1, <2>2 DEF ItemsLeft
<1> QED BY <1>1, <1>2, <1>3, <1>4 DEF WorkInv

\* One component falls and those before it stay.
LEMMA WorkFalls ==
    ASSUME WorkInv, WorkInv',
           \/ PartsLeft' < PartsLeft
           \/ PartsLeft' = PartsLeft /\ ItemsLeft' < ItemsLeft
           \/ PartsLeft' = PartsLeft /\ ItemsLeft' = ItemsLeft /\ OutputsLeft' < OutputsLeft
           \/ /\ PartsLeft' = PartsLeft /\ ItemsLeft' = ItemsLeft
              /\ OutputsLeft' = OutputsLeft /\ CallLeft' < CallLeft
    PROVE  Work' \in [1..4 -> Nat] /\ Less(Work', Work)
<1> DEFINE v == Work'
           w == Work
<1>1. /\ v = <<PartsLeft', ItemsLeft', OutputsLeft', CallLeft'>>
      /\ w = <<PartsLeft, ItemsLeft, OutputsLeft, CallLeft>>
  BY DEF Work
<1>2. /\ v[1] = PartsLeft' /\ v[2] = ItemsLeft' /\ v[3] = OutputsLeft' /\ v[4] = CallLeft'
      /\ w[1] = PartsLeft /\ w[2] = ItemsLeft /\ w[3] = OutputsLeft /\ w[4] = CallLeft
  BY <1>1
<1>3. v \in [1..4 -> Nat]
  BY <1>1 DEF WorkInv
<1> HIDE DEF v, w
<1>4. \E i \in 1..4 : v[i] < w[i] /\ \A j \in 1..(i - 1) : v[j] = w[j]
  <2>1. CASE v[1] < w[1]
    BY <2>1
  <2>2. CASE v[1] = w[1] /\ v[2] < w[2]
    BY <2>2
  <2>3. CASE v[1] = w[1] /\ v[2] = w[2] /\ v[3] < w[3]
    BY <2>3
  <2>4. CASE v[1] = w[1] /\ v[2] = w[2] /\ v[3] = w[3] /\ v[4] < w[4]
    BY <2>4
  <2> QED BY <1>2, <2>1, <2>2, <2>3, <2>4
<1> QED BY <1>3, <1>4 DEF v, w, Less

\* The plan: every turn of the sort takes one more task, every turn of the
\* grouping one less is left.
LEMMA ScheduleWorks ==
    ASSUME ScheduleInv, WorkInv, WorkInv', Schedule
    PROVE  Work' \in [1..4 -> Nat] /\ Less(Work', Work)
<1>1. CASE SortNext
  <2>1. /\ phase = "sort" /\ phase' = "sort" /\ Len(ordered') = Len(ordered) + 1
    BY <1>1 DEF SortNext, PlanTypes
  <2>2. PartsLeft' = PartsLeft /\ ItemsLeft' < ItemsLeft
    BY <2>1, SortedAtMostOnce DEF PartsLeft, ItemsLeft
  <2> QED BY <2>2, WorkFalls
<1>2. CASE GroupNext
  <2>1. phase = "group" /\ pending \in Seq(Tasks) /\ pending # <<>>
    BY <1>2 DEF GroupNext, PlanTypes
  <2>2. CASE phase' = "refused"
    BY <2>1, <2>2, WorkFalls DEF PartsLeft
  <2>3. CASE phase' = phase
    <3>1. Len(pending) \in Nat /\ Len(pending') \in Nat /\ Len(pending') < Len(pending)
      BY <1>2, <2>1, <2>3, LessPending
    <3>2. PartsLeft' = PartsLeft /\ ItemsLeft' < ItemsLeft
      BY <2>1, <2>3, <3>1 DEF PartsLeft, ItemsLeft
    <3> QED BY <3>2, WorkFalls
  <2> QED BY <1>2, <2>2, <2>3 DEF GroupNext
<1>3. CASE SortEnd \/ GroupEnd
  <2>1. \/ phase = "sort" /\ phase' \in {"group", "refused"}
        \/ phase = "group" /\ phase' = "batch"
    BY <1>3 DEF SortEnd, GroupEnd
  <2> QED BY <2>1, WorkFalls DEF PartsLeft
<1> QED BY <1>1, <1>2, <1>3 DEF Schedule, ScheduleStep

\* A call: every attempt is one of MaxAttempts.
LEMMA InvokeWorks ==
    ASSUME ControlTypes, WorkInv, WorkInv', Invoke
    PROVE  Work' \in [1..4 -> Nat] /\ Less(Work', Work)
<1>1. UNCHANGED <<phase, ordered, pending, batches, mode, index, tries>> /\ InvokeStep
  BY DEF Invoke, planVars, batchVars
<1>2. PartsLeft' = PartsLeft /\ ItemsLeft' = ItemsLeft /\ OutputsLeft' = OutputsLeft
  BY <1>1 DEF PartsLeft, ItemsLeft, OutputsLeft
<1>3. attempt \in 1..MaxAttempts /\ MaxAttempts \in Nat \ {0}
  BY BudgetAssumption DEF ControlTypes
<1>4. CallLeft' < CallLeft
  <2>1. CASE InvokeStart
    BY <1>3, <2>1 DEF InvokeStart, CallLeft
  <2>2. CASE AttemptFails
    BY <1>3, <2>2 DEF AttemptFails, CallLeft
  <2>3. CASE AttemptSucceeds \/ RecordUsage
    BY <1>3, <2>3 DEF AttemptSucceeds, RecordUsage, CallLeft
  <2> QED BY <1>1, <2>1, <2>2, <2>3 DEF InvokeStep
<1> QED BY <1>2, <1>4, WorkFalls

LEMMA StepsWork ==
    ASSUME ScheduleInv, DeliveryInv, ControlTypes,
           WorkInv, WorkInv', DeveloperStep
    PROVE  Work' \in [1..4 -> Nat] /\ Less(Work', Work)
<1>1. CASE Schedule
  BY <1>1, ScheduleWorks
<1>2. CASE Invoke
  BY <1>2, InvokeWorks
<1>3. ASSUME NEW kind, Raise(kind), phase \in {"refused", "batch", "invoke"}
      PROVE  Work' \in [1..4 -> Nat] /\ Less(Work', Work)
  BY <1>3, WorkFalls DEF Raise, PartsLeft
<1>4. CASE PlanRefused \/ RefreshFails \/ ClosureFails \/ InvokeRaises
  BY <1>3, <1>4 DEF PlanRefused, RefreshFails, ClosureFails, InvokeRaises
<1>5. CASE StopOnBudget \/ AllBatchesDone \/ TakeWholeOutput \/ SaveManifest
  <2>1. \/ phase \in {"batch", "invoke"} /\ phase' = "return"
        \/ phase = "return" /\ phase' = "done"
    BY <1>5 DEF StopOnBudget, AllBatchesDone, TakeWholeOutput, SaveManifest
  <2> QED BY <2>1, WorkFalls DEF PartsLeft
<1>6. CASE BeginBatch
  <2>1. /\ phase = "batch" /\ phase' = "invoke" /\ tries' = 1
        /\ UNCHANGED <<ordered, pending, batches, mode, index>>
    BY <1>6 DEF BeginBatch, planVars
  <2>2. PartsLeft' = PartsLeft /\ ItemsLeft' = ItemsLeft /\ OutputsLeft' < OutputsLeft
    BY <2>1 DEF PartsLeft, ItemsLeft, OutputsLeft
  <2> QED BY <2>2, WorkFalls
<1>7. CASE AcceptOutput
  <2>1. /\ phase = "invoke" /\ phase' = "batch" /\ mode = "task_batch"
        /\ index' = index + 1 /\ UNCHANGED <<batches, mode>>
    BY <1>7 DEF AcceptOutput, planVars
  <2>2. index \in Nat /\ Len(batches) \in Nat
    BY DEF ControlTypes, PlanTypes
  <2>3. PartsLeft' = PartsLeft /\ ItemsLeft' < ItemsLeft
    BY <2>1, <2>2 DEF PartsLeft, ItemsLeft
  <2> QED BY <2>3, WorkFalls
<1>8. CASE RejectOutput
  <2>1. CASE tries < 2
    <3>1. /\ phase = "invoke" /\ tries' = 2
          /\ UNCHANGED <<phase, ordered, pending, batches, mode, index>>
      BY <1>8, <2>1 DEF RejectOutput, planVars
    <3>2. PartsLeft' = PartsLeft /\ ItemsLeft' = ItemsLeft /\ OutputsLeft' < OutputsLeft
      BY <2>1, <3>1 DEF PartsLeft, ItemsLeft, OutputsLeft, ControlTypes
    <3> QED BY <3>2, WorkFalls
  <2>2. CASE ~ tries < 2
    BY <1>3, <1>8, <2>2 DEF RejectOutput
  <2> QED BY <2>1, <2>2
<1> QED BY <1>1, <1>2, <1>4, <1>5, <1>6, <1>7, <1>8 DEF DeveloperStep

(***************************************************************************)
(* Each step of the node brings it nearer its end, for any number of       *)
(* tasks, retries and attempts and whatever the model answers.             *)
(***************************************************************************)
THEOREM DeveloperWorkShrinks == Spec => EveryDeveloperStepNearerTheEnd
<1>1. ControlTypes /\ [Next]_vars => ControlTypes'
  BY NextControl
<1>2. Spec => []ControlTypes
  BY <1>1, InitControl, PTL DEF Spec
<1>3. ScheduleInv /\ DeliveryInv /\ ControlTypes => WorkInv
  BY WorkIsCounted
<1>4. Spec => [](ScheduleInv /\ DeliveryInv /\ ControlTypes /\ WorkInv)
  BY <1>2, <1>3, ScheduleInvariant, DeliveryInvariant, PTL
<1>5. (ScheduleInv /\ DeliveryInv /\ ControlTypes /\ WorkInv) /\ WorkInv' /\ [Next]_vars
        => [DeveloperStep => Work' \in [1..4 -> Nat] /\ Less(Work', Work)]_vars
  BY StepsWork
<1> QED BY <1>4, <1>5, PTL DEF Spec, EveryDeveloperStepNearerTheEnd

-----------------------------------------------------------------------------
(***************************************************************************)
(* How many steps an entry may take.                                       *)
(***************************************************************************)
\* Work as one number: the components are its digits, each to the base of its
\* range.
ItemBase == Cardinality(Tasks) + 1
CallBase == MaxAttempts + 4

ItemsWeight   == PartsLeft * ItemBase + ItemsLeft
OutputsWeight == ItemsWeight * 4 + OutputsLeft
StepsLeft     == OutputsWeight * CallBase + CallLeft

MaxSteps == 6 * ItemBase * 4 * CallBase

WorkBounded ==
    /\ PartsLeft \in 0..5
    /\ ItemsLeft \in 0..Cardinality(Tasks)
    /\ OutputsLeft \in 0..3
    /\ CallLeft \in 0..(MaxAttempts + 3)

\* Of two numbers the one with the smaller leading digits is the smaller.
LEMMA LeadingDigits ==
    ASSUME NEW base \in Nat \ {0}, NEW a \in Nat, NEW b \in Nat, a < b,
           NEW x \in 0..(base - 1), NEW y \in Nat
    PROVE  a * base + x < b * base + y
<1>1. PICK d \in Nat : b = a + 1 + d
  <2>1. b - (a + 1) \in Nat /\ b = a + 1 + (b - (a + 1))
    OBVIOUS
  <2> QED BY <2>1
<1>2. b * base = a * base + base + d * base
  BY <1>1
<1>3. a * base \in Nat /\ d * base \in Nat
  OBVIOUS
<1> QED BY <1>2, <1>3

LEMMA LastDigit ==
    ASSUME NEW base \in Nat \ {0}, NEW a \in Nat, NEW x \in Nat, NEW n \in Nat,
           a < n, x < base
    PROVE  a * base + x \in Nat /\ a * base + x < n * base
<1>1. x \in 0..(base - 1)
  OBVIOUS
<1>2. a * base + x < n * base + 0
  BY <1>1, LeadingDigits
<1>3. a * base \in Nat /\ n * base \in Nat
  OBVIOUS
<1> QED BY <1>2, <1>3

\* The batches left are at most as many as tasks, and the tries of a call at
\* most as many as its attempts.
LEMMA WorkIsBounded ==
    ASSUME ScheduleInv, DeliveryInv, ControlTypes
    PROVE  WorkBounded
<1>1. PartsLeft \in 0..5
  BY DEF PartsLeft
<1>2. OutputsLeft \in 0..3
  BY DEF OutputsLeft, ControlTypes
<1>3. CallLeft \in 0..(MaxAttempts + 3)
  BY BudgetAssumption DEF CallLeft, ControlTypes
<1>4. ItemsLeft \in 0..Cardinality(Tasks)
  <2>1. /\ Len(ordered) \in Nat /\ Len(pending) \in Nat /\ Len(batches) \in Nat
        /\ Cardinality(Tasks) \in Nat /\ Len(ordered) <= Cardinality(Tasks)
    BY SortedAtMostOnce DEF PlanTypes
  <2>2. phase = "group" => Len(batches) + Len(pending) <= Cardinality(Tasks)
    BY DEF GroupInv
  <2>3. phase \in {"batch", "invoke"} /\ mode = "task_batch"
          => index \in 1..(Len(batches) + 1) /\ Len(batches) <= Cardinality(Tasks)
    BY DEF ProgressInv, PlanInv
  <2> QED BY <2>1, <2>2, <2>3 DEF ItemsLeft
<1> QED BY <1>1, <1>2, <1>3, <1>4 DEF WorkBounded

LEMMA Bases == ItemBase \in Nat \ {0} /\ CallBase \in Nat \ {0}
<1>1. Cardinality(Tasks) \in Nat
  BY TasksFinite, TasksAssumption
<1> QED BY <1>1, BudgetAssumption DEF ItemBase, CallBase

LEMMA StepsLeftBounded ==
    ASSUME WorkBounded
    PROVE  /\ PartsLeft \in Nat /\ ItemsWeight \in Nat /\ OutputsWeight \in Nat
           /\ StepsLeft \in Nat /\ StepsLeft < MaxSteps
<1>1. /\ ItemsLeft \in Nat /\ ItemsLeft < ItemBase
      /\ OutputsLeft \in Nat /\ OutputsLeft < 4
      /\ CallLeft \in Nat /\ CallLeft < CallBase
      /\ PartsLeft \in Nat /\ PartsLeft < 6
  <2>1. Cardinality(Tasks) \in Nat /\ MaxAttempts \in Nat
    BY TasksFinite, TasksAssumption, BudgetAssumption
  <2> QED BY <2>1 DEF WorkBounded, ItemBase, CallBase
<1>2. ItemsWeight \in Nat /\ ItemsWeight < 6 * ItemBase
  BY <1>1, Bases, LastDigit DEF ItemsWeight
<1>3. 6 * ItemBase \in Nat /\ 6 * ItemBase * 4 \in Nat
  BY Bases
<1>4. OutputsWeight \in Nat /\ OutputsWeight < 6 * ItemBase * 4
  BY <1>1, <1>2, <1>3, LastDigit DEF OutputsWeight
<1>5. StepsLeft \in Nat /\ StepsLeft < 6 * ItemBase * 4 * CallBase
  BY <1>1, <1>3, <1>4, Bases, LastDigit DEF StepsLeft
<1> QED BY <1>1, <1>2, <1>4, <1>5 DEF MaxSteps

\* The number falls with the first component that differs.
LEMMA StepsLeftFall ==
    ASSUME WorkBounded, WorkBounded', Less(Work', Work)
    PROVE  StepsLeft' < StepsLeft
<1>1. /\ ItemsLeft' \in 0..(ItemBase - 1) /\ ItemsLeft \in Nat
      /\ OutputsLeft' \in 0..(4 - 1) /\ OutputsLeft \in Nat
      /\ CallLeft' \in 0..(CallBase - 1) /\ CallLeft \in Nat
  <2>1. Cardinality(Tasks) \in Nat /\ MaxAttempts \in Nat
    BY TasksFinite, TasksAssumption, BudgetAssumption
  <2> QED BY <2>1 DEF WorkBounded, ItemBase, CallBase
<1>2. /\ PartsLeft \in Nat /\ ItemsWeight \in Nat /\ OutputsWeight \in Nat
      /\ PartsLeft' \in Nat /\ ItemsWeight' \in Nat /\ OutputsWeight' \in Nat
  <2>1. WorkBounded => PartsLeft \in Nat /\ ItemsWeight \in Nat /\ OutputsWeight \in Nat
    BY StepsLeftBounded
  <2>2. (WorkBounded => PartsLeft \in Nat /\ ItemsWeight \in Nat /\ OutputsWeight \in Nat)'
    BY StepsLeftBounded, PTL
  <2> QED BY <2>1, <2>2
<1>3. /\ ItemsWeight' = PartsLeft' * ItemBase + ItemsLeft'
      /\ OutputsWeight' = ItemsWeight' * 4 + OutputsLeft'
      /\ StepsLeft' = OutputsWeight' * CallBase + CallLeft'
  BY DEF ItemsWeight, OutputsWeight, StepsLeft, ItemBase, CallBase
<1>4. PartsLeft' < PartsLeft => ItemsWeight' < ItemsWeight
  BY <1>1, <1>2, <1>3, Bases, LeadingDigits DEF ItemsWeight
<1>5. ItemsWeight' < ItemsWeight => OutputsWeight' < OutputsWeight
  BY <1>1, <1>2, <1>3, LeadingDigits DEF OutputsWeight
<1>6. OutputsWeight' < OutputsWeight => StepsLeft' < StepsLeft
  BY <1>1, <1>2, <1>3, Bases, LeadingDigits DEF StepsLeft
<1>7. \/ PartsLeft' < PartsLeft
      \/ PartsLeft' = PartsLeft /\ ItemsLeft' < ItemsLeft
      \/ PartsLeft' = PartsLeft /\ ItemsLeft' = ItemsLeft /\ OutputsLeft' < OutputsLeft
      \/ /\ PartsLeft' = PartsLeft /\ ItemsLeft' = ItemsLeft
         /\ OutputsLeft' = OutputsLeft /\ CallLeft' < CallLeft
  BY DEF Less, Work
<1>8. CASE PartsLeft' = PartsLeft /\ ItemsLeft' < ItemsLeft
  <2>1. PartsLeft * ItemBase \in Nat
    BY <1>2, Bases
  <2>2. ItemsWeight' < ItemsWeight
    BY <1>1, <1>3, <1>8, <2>1 DEF ItemsWeight
  <2> QED BY <1>5, <1>6, <2>2
<1>9. CASE PartsLeft' = PartsLeft /\ ItemsLeft' = ItemsLeft /\ OutputsLeft' < OutputsLeft
  <2>1. ItemsWeight' = ItemsWeight
    BY <1>3, <1>9 DEF ItemsWeight
  <2>2. OutputsWeight' < OutputsWeight
    BY <1>1, <1>2, <1>3, <1>9, <2>1 DEF OutputsWeight
  <2> QED BY <1>6, <2>2
<1>10. CASE /\ PartsLeft' = PartsLeft /\ ItemsLeft' = ItemsLeft
            /\ OutputsLeft' = OutputsLeft /\ CallLeft' < CallLeft
  <2>1. OutputsWeight' = OutputsWeight
    BY <1>3, <1>10 DEF ItemsWeight, OutputsWeight
  <2>2. OutputsWeight * CallBase \in Nat
    BY <1>2, Bases
  <2> QED BY <1>1, <1>3, <1>10, <2>1, <2>2 DEF StepsLeft
<1> QED BY <1>4, <1>5, <1>6, <1>7, <1>8, <1>9, <1>10

(***************************************************************************)
(* An entry of the developer takes fewer than MaxSteps steps, a number     *)
(* known from the design and the retry limits alone: whatever its plan,    *)
(* its outputs and the failures of its calls, each step leaves it fewer.   *)
(***************************************************************************)
THEOREM EntriesAreShort ==
    Spec => /\ [](StepsLeft \in 0..(MaxSteps - 1))
            /\ [][DeveloperStep => StepsLeft' < StepsLeft]_vars
<1>1. ControlTypes /\ [Next]_vars => ControlTypes'
  BY NextControl
<1>2. Spec => []ControlTypes
  BY <1>1, InitControl, PTL DEF Spec
<1>3. ScheduleInv /\ DeliveryInv /\ ControlTypes => WorkBounded
  BY WorkIsBounded
<1>4. Spec => []WorkBounded
  BY <1>2, <1>3, ScheduleInvariant, DeliveryInvariant, PTL
<1>5. WorkBounded => StepsLeft \in 0..(MaxSteps - 1)
  <2>1. MaxSteps \in Nat
    BY Bases DEF MaxSteps
  <2> QED BY <2>1, StepsLeftBounded
<1>6. WorkBounded /\ WorkBounded'
        /\ [DeveloperStep => Work' \in [1..4 -> Nat] /\ Less(Work', Work)]_vars
      => [DeveloperStep => StepsLeft' < StepsLeft]_vars
  BY StepsLeftFall
<1>7. Spec => [][DeveloperStep => Work' \in [1..4 -> Nat] /\ Less(Work', Work)]_vars
  BY DeveloperWorkShrinks DEF EveryDeveloperStepNearerTheEnd
<1> QED BY <1>4, <1>5, <1>6, <1>7, PTL
=============================================================================
