--------------------------- MODULE BatchJobs_proof ---------------------------
(***************************************************************************)
(* Theorems about BatchJobs: its types, and that the tasks cover the nodes *)
(* for any nodes, jobs and sizes.  TasksCoverNodes is inductive as it      *)
(* stands, so the work is to count the tasks.  A step changes those of one *)
(* job at most, and Refilled says what that does to the sum over all jobs: *)
(* the tasks that wait are pairs <job, number>, and those of one job are a *)
(* column of them.                                                         *)
(***************************************************************************)
EXTENDS BatchJobs, FiniteSetTheorems, TLAPS

TasksOf(A, w) == {q \in A \X (1 .. MaxWaiting) : q[2] <= w[q[1]]}

Held(A, w, j) == IF j \in A THEN w[j] ELSE 0

Queues == [Jobs -> 0 .. MaxWaiting]

-----------------------------------------------------------------------------
(* Counting tasks.                                                         *)

LEMMA TasksFinite ==
  ASSUME NEW A \in SUBSET Jobs, NEW w
  PROVE  IsFiniteSet(TasksOf(A, w)) /\ Cardinality(TasksOf(A, w)) \in Nat
<1>1. IsFiniteSet(A) BY JobAssumption, FS_Subset
<1>2. IsFiniteSet(1 .. MaxWaiting) BY JobAssumption, FS_Interval
<1>3. IsFiniteSet(A \X (1 .. MaxWaiting)) BY <1>1, <1>2, FS_Product
<1>4. TasksOf(A, w) \in SUBSET (A \X (1 .. MaxWaiting)) BY DEF TasksOf
<1> QED BY <1>3, <1>4, FS_Subset, FS_CardinalityType

\* The tasks of all jobs are those of the others and those of one.
LEMMA OneColumn ==
  ASSUME NEW A \in SUBSET Jobs, NEW w \in Queues, NEW j \in Jobs
  PROVE  Cardinality(TasksOf(A, w)) = Cardinality(TasksOf(A \ {j}, w)) + Held(A, w, j)
<1> DEFINE h      == Held(A, w, j)
           others == TasksOf(A \ {j}, w)
           column == {j} \X (1 .. h)
<1>1. h \in 0 .. MaxWaiting /\ MaxWaiting \in Nat BY JobAssumption DEF Held, Queues
<1>2. IsFiniteSet(column) /\ Cardinality(column) = h
  <2>1. IsFiniteSet({j}) /\ Cardinality({j}) = 1 BY FS_Singleton
  <2>2. IsFiniteSet(1 .. h) /\ Cardinality(1 .. h) = h BY <1>1, FS_Interval
  <2> HIDE DEF h
  <2>3. IsFiniteSet(column) /\ Cardinality(column) = 1 * h BY <2>1, <2>2, FS_Product
  <2> QED BY <1>1, <2>3
<1>3. TasksOf(A, w) = others \cup column
  <2>1. TasksOf(A, w) \subseteq others \cup column
    BY DEF TasksOf, Held, Queues
  <2>2. others \subseteq TasksOf(A, w) BY DEF TasksOf
  <2>3. column \subseteq TasksOf(A, w)
    BY <1>1 DEF TasksOf, Held, Queues
  <2> QED BY <2>1, <2>2, <2>3
<1>4. others \cap column = {} BY DEF TasksOf
<1>5. IsFiniteSet(others) /\ Cardinality(others) \in Nat BY TasksFinite
<1> HIDE DEF others, column, h
<1>6. Cardinality(others \cup column) = Cardinality(others) + Cardinality(column) - Cardinality({})
  BY <1>2, <1>4, <1>5, FS_Union
<1>7. Cardinality({}) = 0 BY FS_EmptySet
<1> QED BY <1>1, <1>2, <1>3, <1>5, <1>6, <1>7 DEF others, h

\* What a step that changes one job does to the sum.
LEMMA Refilled ==
  ASSUME NEW A \in SUBSET Jobs, NEW v \in Queues, NEW B \in SUBSET Jobs, NEW w \in Queues,
         NEW j \in Jobs, A \ {j} = B \ {j}, \A i \in Jobs \ {j} : v[i] = w[i]
  PROVE  Cardinality(TasksOf(B, w)) + Held(A, v, j) = Cardinality(TasksOf(A, v)) + Held(B, w, j)
<1>1. TasksOf(A \ {j}, v) = TasksOf(B \ {j}, w) BY DEF TasksOf
<1>2. Cardinality(TasksOf(A \ {j}, v)) \in Nat BY TasksFinite
<1>3. Held(A, v, j) \in Nat /\ Held(B, w, j) \in Nat BY JobAssumption DEF Held, Queues
<1>4. /\ Cardinality(TasksOf(A, v)) = Cardinality(TasksOf(A \ {j}, v)) + Held(A, v, j)
      /\ Cardinality(TasksOf(B, w)) = Cardinality(TasksOf(B \ {j}, w)) + Held(B, w, j)
  BY OneColumn
<1> QED BY <1>1, <1>2, <1>3, <1>4

\* The counts of TasksCoverNodes.
LEMMA Counts ==
  ASSUME TypeOK
  PROVE  /\ WaitingTasks = TasksOf(active, waiting) /\ Waiting \in Nat
         /\ IsFiniteSet(present) /\ Cardinality(present) \in Nat
         /\ IsFiniteSet(Listeners) /\ Cardinality(Listeners) \in Nat
         /\ IsFiniteSet(Failed) /\ Cardinality(Failed) \in Nat
<1>1. WaitingTasks = TasksOf(active, waiting) BY DEF WaitingTasks, TasksOf
<1>2. active \in SUBSET Jobs BY DEF TypeOK
<1>3. IsFiniteSet(present) BY JobAssumption, FS_Subset DEF TypeOK
<1>4. Listeners \in SUBSET present /\ Failed \in SUBSET present BY DEF Listeners, Failed, TypeOK
<1> QED BY <1>1, <1>2, <1>3, <1>4, TasksFinite, FS_Subset, FS_CardinalityType DEF Waiting
-----------------------------------------------------------------------------
(* Adding tasks.                                                           *)

TaskType ==
  /\ job_id \in Jobs \cup {NoJob}
  /\ active \subseteq jobs /\ jobs \subseteq Jobs
  /\ waiting \in Queues

LEMMA TypeHasTaskType == TypeOK => TaskType BY DEF TypeOK, TaskType, Queues

LEMMA WaitingIs ==
  ASSUME TaskType
  PROVE  Waiting = Cardinality(TasksOf(active, waiting)) /\ Waiting \in Nat
<1>1. WaitingTasks = TasksOf(active, waiting) BY DEF WaitingTasks, TasksOf
<1>2. active \in SUBSET Jobs BY DEF TaskType
<1> QED BY <1>1, <1>2, TasksFinite DEF Waiting

LEMMA StartedAdds ==
  ASSUME TaskType, NEW count \in Nat, NEW more \in Nat, JobStarted(count, more)
  PROVE  /\ TaskType' /\ active \subseteq active'
         /\ Waiting' = Waiting + count + more
<1>1. PICK j \in Jobs \ jobs :
        /\ count + more <= MaxWaiting
        /\ jobs' = jobs \cup {j} /\ active' = active \cup {j}
        /\ job_id' = j
        /\ waiting' = [waiting EXCEPT ![j] = count + more]
  BY DEF JobStarted
<1>2. count + more \in 0 .. MaxWaiting BY <1>1, JobAssumption
<1>3. TaskType' BY <1>1, <1>2 DEF TaskType, Queues
<1>4. /\ active \in SUBSET Jobs /\ waiting \in Queues
      /\ active' \in SUBSET Jobs /\ waiting' \in Queues
  BY <1>3 DEF TaskType
<1>5. active \ {j} = active' \ {j} /\ \A i \in Jobs \ {j} : waiting[i] = waiting'[i]
  BY <1>1, <1>4 DEF Queues
<1>6. Held(active, waiting, j) = 0 /\ Held(active', waiting', j) = count + more
  BY <1>1, <1>4 DEF Held, Queues, TaskType
<1>7. Cardinality(TasksOf(active', waiting')) + 0 = Cardinality(TasksOf(active, waiting)) + (count + more)
  BY <1>4, <1>5, <1>6, Refilled
<1>8. Waiting = Cardinality(TasksOf(active, waiting)) /\ Waiting \in Nat BY WaitingIs
<1>9. Waiting' = Cardinality(TasksOf(active', waiting')) /\ Waiting' \in Nat
  BY <1>3, <1>4, TasksFinite DEF Waiting, WaitingTasks, TasksOf
<1> QED BY <1>1, <1>3, <1>7, <1>8, <1>9

\* However the tasks get in, and over one job more, at least count of them wait.
LEMMA AddedAdds ==
  ASSUME TaskType, NEW id, NEW count \in Nat, TasksAdded(id, count)
  PROVE  /\ TaskType' /\ active \subseteq active'
         /\ Waiting' \in Nat /\ Waiting' >= Waiting + count
<1>1. Waiting = Cardinality(TasksOf(active, waiting)) /\ Waiting \in Nat BY WaitingIs
<1>2. CASE id \in active
  <2>1. /\ waiting[id] + count <= MaxWaiting
        /\ waiting' = [waiting EXCEPT ![id] = waiting[id] + count]
        /\ job_id' = id
        /\ UNCHANGED <<jobs, active>>
    BY <1>2 DEF TasksAdded
  <2>2. id \in Jobs /\ waiting[id] \in Nat /\ MaxWaiting \in Nat
    BY <1>2, JobAssumption DEF TaskType, Queues
  <2>3. waiting[id] + count \in 0 .. MaxWaiting BY <2>1, <2>2
  <2>4. TaskType' BY <2>1, <2>2, <2>3 DEF TaskType, Queues
  <2>5. /\ active \in SUBSET Jobs /\ waiting \in Queues
        /\ active' \in SUBSET Jobs /\ waiting' \in Queues
    BY <2>4 DEF TaskType
  <2>6. active \ {id} = active' \ {id} /\ \A i \in Jobs \ {id} : waiting[i] = waiting'[i]
    BY <2>1, <2>5 DEF Queues
  <2>7. Held(active, waiting, id) = waiting[id] /\ Held(active', waiting', id) = waiting[id] + count
    BY <1>2, <2>1, <2>2, <2>5 DEF Held, Queues
  <2>8. Cardinality(TasksOf(active', waiting')) + waiting[id]
          = Cardinality(TasksOf(active, waiting)) + (waiting[id] + count)
    BY <2>2, <2>5, <2>6, <2>7, Refilled
  <2>9. Waiting' = Cardinality(TasksOf(active', waiting')) /\ Waiting' \in Nat
    BY <2>4, <2>5, TasksFinite DEF Waiting, WaitingTasks, TasksOf
  <2> QED BY <1>1, <2>1, <2>2, <2>4, <2>8, <2>9
<1>3. CASE id \notin active
  <2>1. JobStarted(1, count) BY <1>3 DEF TasksAdded
  <2>2. TaskType' /\ active \subseteq active' /\ Waiting' = Waiting + 1 + count
    BY <2>1, StartedAdds
  <2> QED BY <1>1, <2>2
<1> QED BY <1>2, <1>3

\* An end in the middle takes no task away.
LEMMA PartlyAdds ==
  ASSUME TaskType, NEW id, NEW count \in Nat, PartlyAdded(id, count)
  PROVE  /\ TaskType' /\ active \subseteq active'
         /\ Waiting' \in Nat /\ Waiting' >= Waiting
<1>1. Waiting \in Nat BY WaitingIs
<1>2. CASE UNCHANGED <<job_id, jobs, active, waiting>>
  BY <1>1, <1>2 DEF TaskType, Waiting, WaitingTasks
<1>3. CASE \E k \in 1 .. count - 1 : TasksAdded(id, k)
  <2>1. PICK k \in 1 .. count - 1 : TasksAdded(id, k) BY <1>3
  <2>2. k \in Nat OBVIOUS
  <2> QED BY <1>1, <2>1, <2>2, AddedAdds
<1>4. CASE \E k \in {0, 1} : JobStarted(k, 0)
  <2>1. PICK k \in {0, 1} : JobStarted(k, 0) BY <1>4
  <2>2. k \in Nat OBVIOUS
  <2>3. TaskType' /\ active \subseteq active' /\ Waiting' = Waiting + k + 0
    BY <2>1, <2>2, StartedAdds
  <2> QED BY <1>1, <2>2, <2>3
<1> QED BY <1>2, <1>3, <1>4 DEF PartlyAdded
-----------------------------------------------------------------------------
(* Type correctness.                                                       *)

\* The listeners go on with the jobs they have, or with fewer.
TaskKept == task' = task /\ active \subseteq active'

LEMMA TypeFrom ==
  ASSUME TypeOK, TaskType', task' \in [Nodes -> active' \cup {NoJob}],
         lb' \in {"boot", "idle", "restarting", "growing", "dead"},
         pool' \in BOOLEAN, wanted' \in Nat, present' \in SUBSET Nodes,
         games' \in SUBSET present', missing' \in 0 .. MaxMissing
  PROVE  TypeOK'
BY DEF TypeOK, TaskType, Queues

LEMMA KeptTask == TypeOK /\ TaskKept => task' \in [Nodes -> active' \cup {NoJob}]
BY DEF TypeOK, TaskKept

LEMMA ReplacedType ==
  ASSUME TypeOK, NEW count \in Nat, Replaced(count)
  PROVE  missing' \in 0 .. MaxMissing /\ missing' + count >= missing
BY JobAssumption DEF TypeOK, Replaced

\* A node that is there is one that was asked for.
LEMMA SteadyWants ==
  ASSUME TypeOK, Steady
  PROVE  wanted = Cardinality(present) /\ (\A n \in present : wanted > 0)
<1>1. IsFiniteSet(present) /\ Cardinality(present) \in Nat BY Counts
<1>2. Cardinality(present) = 0 => present = {} BY <1>1, FS_EmptySet
<1> QED BY <1>1, <1>2 DEF Steady

\* Nor does a growth that ends in the middle take a task away.
LEMMA EndedGrowth ==
  ASSUME TaskType, ExpandBreaks
  PROVE  /\ TaskType' /\ active \subseteq active'
         /\ Waiting' \in Nat /\ Waiting' >= Waiting
<1>1. Waiting \in Nat /\ MinCount \in Nat BY WaitingIs, JobAssumption
<1>2. CASE UNCHANGED <<job_id, jobs, active, waiting>>
  BY <1>1, <1>2 DEF TaskType, Waiting, WaitingTasks
<1>3. ASSUME NEW k \in Nat, JobStarted(k, 0)
      PROVE  /\ TaskType' /\ active \subseteq active'
             /\ Waiting' \in Nat /\ Waiting' >= Waiting
  <2>1. TaskType' /\ active \subseteq active' /\ Waiting' = Waiting + k + 0
    BY <1>3, StartedAdds
  <2> QED BY <1>1, <2>1
<1>4. CASE \E id \in jobs : PartlyAdded(id, 1) BY <1>4, PartlyAdds
<1>5. 0 .. MinCount \subseteq Nat BY <1>1
<1> QED BY <1>1, <1>2, <1>3, <1>4, <1>5 DEF ExpandBreaks

LEMMA BalancerType == TypeOK /\ LoadBalancerStep => TypeOK'
<1> SUFFICES ASSUME TypeOK, LoadBalancerStep PROVE TypeOK' OBVIOUS
<1>1. TaskType /\ MinCount \in Nat /\ MaxMissing \in Nat
  BY TypeHasTaskType, JobAssumption
<1>2. /\ pool \in BOOLEAN /\ wanted \in Nat /\ present \in SUBSET Nodes
      /\ games \in SUBSET present /\ missing \in 0 .. MaxMissing
      /\ task \in [Nodes -> active \cup {NoJob}]
  BY DEF TypeOK
<1>3. Cardinality(present) \in Nat /\ Cardinality(Failed) \in Nat BY Counts
<1>4. CASE Boot
  <2>1. TaskType' /\ active \subseteq active'
    <3>1. CASE pool /\ jobs # {} BY <1>1, <1>4, <3>1 DEF Boot, TaskType
    <3>2. CASE ~ (pool /\ jobs # {})
      <4>1. JobStarted(MinCount, 0) BY <1>4, <3>2 DEF Boot
      <4> QED BY <1>1, <4>1, StartedAdds
    <3> QED BY <3>1, <3>2
  <2>2. task' = task /\ UNCHANGED <<present, games>> /\ pool' = TRUE
        /\ wanted' \in Nat /\ lb' = "idle"
        /\ (missing' = missing \/ Replaced(MinCount))
    BY <1>1, <1>2, <1>4 DEF Boot
  <2>3. missing' \in 0 .. MaxMissing BY <1>1, <1>2, <2>2, ReplacedType
  <2> QED BY <1>2, <2>1, <2>2, <2>3, KeptTask, TypeFrom DEF TaskKept
<1>5. CASE BootBreaks
  <2>1. PICK k \in 0 .. MinCount - 1 :
          /\ Dead(IF pool THEN 0 ELSE MinCount - k)
          /\ JobStarted(k, 0) \/ (k = 0 /\ UNCHANGED <<job_id, jobs, active, waiting>>)
    BY <1>5 DEF BootBreaks
  <2>2. TaskType' /\ active \subseteq active'
    <3>1. CASE JobStarted(k, 0)
      <4>1. k \in Nat BY <1>1
      <4> QED BY <1>1, <3>1, <4>1, StartedAdds
    <3>2. CASE UNCHANGED <<job_id, jobs, active, waiting>> BY <1>1, <3>2 DEF TaskType
    <3> QED BY <2>1, <3>1, <3>2
  <2>3. missing' \in 0 .. MaxMissing /\ lb' = "dead" BY <1>1, <1>2, <2>1 DEF Dead
  <2>4. task' = task /\ UNCHANGED <<present, games>> /\ pool' = TRUE /\ wanted' \in Nat
    BY <1>1, <1>2, <1>5 DEF BootBreaks
  <2> QED BY <1>2, <2>2, <2>3, <2>4, KeptTask, TypeFrom DEF TaskKept
<1>6. CASE Expand
  <2>1. TaskType' /\ active \subseteq active'
    <3>1. CASE jobs = {}
      <4>1. JobStarted(MinCount, 1) BY <1>6, <3>1 DEF Expand
      <4> QED BY <1>1, <4>1, StartedAdds
    <3>2. CASE jobs # {}
      <4>1. PICK id \in jobs : TasksAdded(id, 1) BY <1>6, <3>2 DEF Expand
      <4> QED BY <1>1, <4>1, AddedAdds
    <3> QED BY <3>1, <3>2
  <2>2. task' = task /\ UNCHANGED <<pool, present, games>>
        /\ wanted' \in Nat /\ lb' = "growing"
        /\ (missing' = missing \/ Replaced(MinCount))
    BY <1>3, <1>6 DEF Expand
  <2>3. missing' \in 0 .. MaxMissing BY <1>1, <1>2, <2>2, ReplacedType
  <2> QED BY <1>2, <2>1, <2>2, <2>3, KeptTask, TypeFrom DEF TaskKept
<1>7. CASE ExpandBreaks
  <2>1. wanted' \in Nat /\ missing' \in 0 .. MaxMissing /\ lb' = "dead"
    BY <1>1, <1>2, <1>3, <1>7 DEF ExpandBreaks, Dead
  <2>2. TaskType' /\ active \subseteq active' BY <1>1, <1>7, EndedGrowth
  <2>3. UNCHANGED <<pool, present, task, games>> BY <1>7 DEF ExpandBreaks
  <2> QED BY <1>2, <2>1, <2>2, <2>3, KeptTask, TypeFrom DEF TaskKept
<1>8. CASE RestartTasks
  <2>1. TaskType' /\ active \subseteq active' BY <1>1, <1>3, <1>8, AddedAdds DEF RestartTasks
  <2>2. missing' \in 0 .. MaxMissing BY <1>3, <1>8, ReplacedType DEF RestartTasks
  <2>3. UNCHANGED <<pool, wanted, present, task, games>> /\ lb' = "restarting"
    BY <1>8 DEF RestartTasks, poolVars
  <2> QED BY <1>2, <2>1, <2>2, <2>3, KeptTask, TypeFrom DEF TaskKept
<1>9. CASE RestartBreaks
  <2>1. missing' \in 0 .. MaxMissing /\ lb' = "dead" BY <1>1, <1>2, <1>9 DEF RestartBreaks, Dead
  <2>2. TaskType' /\ active \subseteq active' BY <1>1, <1>3, <1>9, PartlyAdds DEF RestartBreaks
  <2>3. UNCHANGED <<pool, wanted, present, task, games>> BY <1>9 DEF RestartBreaks, poolVars
  <2> QED BY <1>2, <2>1, <2>2, <2>3, KeptTask, TypeFrom DEF TaskKept
<1>10. CASE Grown \/ RestartDone
  BY <1>10 DEF Grown, RestartDone, TypeOK, poolVars
<1>11. ASSUME NEW n \in Nodes, RemoveNode(n) PROVE TypeOK'
  <2>1. wanted' \in Nat BY <1>2, <1>11, SteadyWants DEF RemoveNode
  <2> QED BY <1>11, <2>1 DEF RemoveNode, TypeOK
<1> QED BY <1>4, <1>5, <1>6, <1>7, <1>8, <1>9, <1>10, <1>11 DEF LoadBalancerStep

LEMMA NextTypeOK == TypeOK /\ [Next]_vars => TypeOK'
<1> SUFFICES ASSUME TypeOK, [Next]_vars PROVE TypeOK' OBVIOUS
<1>1. CASE LoadBalancerStep BY <1>1, BalancerType
<1>2. CASE LoadBalancerRestarts BY <1>2 DEF LoadBalancerRestarts, TypeOK, poolVars
<1>3. ASSUME NEW n \in Nodes, Allocate(n) \/ GameStarts(n) \/ GameStops(n)
      PROVE  TypeOK'
  BY <1>3 DEF Allocate, GameStarts, GameStops, serviceOnly, TypeOK
<1>4. ASSUME NEW n \in Nodes, TaskEnds(n) PROVE TypeOK'
  <2>1. missing' \in 0 .. MaxMissing BY <1>4, JobAssumption DEF TaskEnds, TypeOK
  <2> QED BY <1>4, <2>1 DEF TaskEnds, serviceOnly, TypeOK
<1>5. ASSUME NEW n \in Nodes, NEW j \in Jobs, Schedule(n, j) PROVE TypeOK'
  <2>1. waiting' \in [Jobs -> 0 .. MaxWaiting]
    BY <1>5, JobAssumption DEF Schedule, TypeOK
  <2> QED BY <1>5, <2>1 DEF Schedule, serviceOnly, TypeOK
<1>6. ASSUME NEW j \in Jobs, JobEnds(j) PROVE TypeOK'
  <2> DEFINE ended == {n \in Nodes : task[n] = j}
  <2>1. Cardinality(ended) \in Nat BY JobAssumption, FS_Subset, FS_CardinalityType
  <2> HIDE DEF ended
  <2>2. /\ missing + (waiting[j] + Cardinality(ended)) <= MaxMissing
        /\ active' = active \ {j} /\ jobs' \in {jobs \ {j}, jobs}
        /\ waiting' = [waiting EXCEPT ![j] = 0]
        /\ task' = [n \in Nodes |-> IF task[n] = j THEN NoJob ELSE task[n]]
        /\ missing' = missing + (waiting[j] + Cardinality(ended))
        /\ UNCHANGED <<lb, job_id, pool, wanted, present, games>>
    BY <1>6 DEF JobEnds, ended
  <2>3. waiting[j] \in Nat BY DEF TypeOK
  <2>4. missing' \in 0 .. MaxMissing BY <2>1, <2>2, <2>3, JobAssumption DEF TypeOK
  <2>5. waiting' \in [Jobs -> 0 .. MaxWaiting] BY <2>2, JobAssumption DEF TypeOK
  <2>6. task' \in [Nodes -> active' \cup {NoJob}] BY <2>2 DEF TypeOK
  <2>7. active' \subseteq jobs' /\ jobs' \subseteq Jobs
    <3>1. j \notin active \ {j} OBVIOUS
    <3> QED BY <2>2, <3>1 DEF TypeOK
  <2> QED BY <2>2, <2>4, <2>5, <2>6, <2>7 DEF TypeOK
<1>7. CASE UNCHANGED vars BY <1>7 DEF vars, poolVars, TypeOK
<1> QED BY <1>1, <1>2, <1>3, <1>4, <1>5, <1>6, <1>7 DEF Next, ServiceStep

LEMMA InitType == Init => TypeOK
<1> SUFFICES ASSUME Init PROVE TypeOK OBVIOUS
<1>1. present \in SUBSET Nodes /\ wanted = Cardinality(present) BY DEF Init
<1> DEFINE served == {n \in present : task[n] # NoJob}
<1>2. IsFiniteSet(present) /\ wanted \in Nat BY <1>1, JobAssumption, FS_Subset, FS_CardinalityType
<1>3. Cardinality(served) \in Nat /\ Cardinality(served) <= wanted
  BY <1>1, <1>2, FS_Subset, FS_CardinalityType
<1>4. missing = wanted - Cardinality(served) /\ missing <= MaxMissing BY <1>1 DEF Init
<1>5. missing \in 0 .. MaxMissing BY <1>2, <1>3, <1>4, JobAssumption
<1> QED BY <1>2, <1>5, JobAssumption DEF Init, TypeOK

\* The balancer's job is one the service knows, only active jobs have listeners, and no
\* size leaves its range (BatchPool:139-192).
THEOREM TypeCorrect == Spec => []TypeOK
BY InitType, NextTypeOK, PTL DEF Spec

-----------------------------------------------------------------------------
(* The tasks cover the nodes.                                              *)

LEMMA CountsPrime ==
  ASSUME TypeOK'
  PROVE  /\ Waiting' = Cardinality(TasksOf(active', waiting')) /\ Waiting' \in Nat
         /\ IsFiniteSet(Listeners') /\ Cardinality(Listeners') \in Nat
<1>1. WaitingTasks' = TasksOf(active', waiting') BY DEF WaitingTasks, TasksOf
<1>2. active' \in SUBSET Jobs BY DEF TypeOK
<1>3. IsFiniteSet(present') BY JobAssumption, FS_Subset DEF TypeOK
<1>4. Listeners' \in SUBSET present' BY DEF Listeners
<1> QED BY <1>1, <1>2, <1>3, <1>4, TasksFinite, FS_Subset, FS_CardinalityType DEF Waiting

\* One node less has a listener at most.
LEMMA OneListenerLess ==
  ASSUME TypeOK, TypeOK', NEW n, Listeners \ {n} \subseteq Listeners'
  PROVE  Cardinality(Listeners') >= Cardinality(Listeners) - 1
<1>1. IsFiniteSet(Listeners) /\ Cardinality(Listeners) \in Nat BY Counts
<1>2. IsFiniteSet(Listeners') /\ Cardinality(Listeners') \in Nat BY CountsPrime
<1>3. /\ Cardinality(Listeners \ {n}) >= Cardinality(Listeners) - 1
      /\ Cardinality(Listeners \ {n}) \in Nat
  <2>1. IsFiniteSet(Listeners \ {n}) /\ Cardinality(Listeners \ {n})
          = IF n \in Listeners THEN Cardinality(Listeners) - 1 ELSE Cardinality(Listeners)
    BY <1>1, FS_RemoveElement
  <2>2. Cardinality(Listeners \ {n}) \in Nat BY <2>1, FS_CardinalityType
  <2> QED BY <1>1, <2>1, <2>2
<1>4. Cardinality(Listeners \ {n}) <= Cardinality(Listeners') BY <1>2, FS_Subset
<1> QED BY <1>1, <1>2, <1>3, <1>4

\* The sizes of TasksCoverNodes before and after a step, as numbers.
Sizes(l, w, m, x) ==
  /\ l = Cardinality(Listeners) /\ w = Waiting /\ m = missing /\ x = wanted

LEMMA SizesBefore ==
  ASSUME TypeOK, TasksCoverNodes
  PROVE  \E l, w, m, x \in Nat : Sizes(l, w, m, x) /\ l + w + m >= x
<1>1. /\ Cardinality(Listeners) \in Nat /\ Waiting \in Nat /\ missing \in Nat /\ wanted \in Nat
      /\ Cardinality(Listeners) + Waiting + missing >= wanted
  BY Counts, JobAssumption DEF TypeOK, TasksCoverNodes
<1> QED BY <1>1 DEF Sizes

LEMMA SizesAfter ==
  ASSUME TypeOK'
  PROVE  \E l, w, m, x \in Nat : Sizes(l, w, m, x)' /\ (l + w + m >= x => TasksCoverNodes')
<1>1. /\ Cardinality(Listeners') \in Nat /\ Waiting' \in Nat /\ missing' \in Nat /\ wanted' \in Nat
  BY CountsPrime, JobAssumption DEF TypeOK
<1> QED BY <1>1 DEF Sizes, TasksCoverNodes

LEMMA BalancerCovers == TypeOK /\ TypeOK' /\ TasksCoverNodes /\ LoadBalancerStep => TasksCoverNodes'
<1> SUFFICES ASSUME TypeOK, TypeOK', TasksCoverNodes, LoadBalancerStep PROVE TasksCoverNodes'
  OBVIOUS
<1>1. TaskType /\ MinCount \in Nat BY TypeHasTaskType, JobAssumption
<1>2. PICK l, w, m, x \in Nat : Sizes(l, w, m, x) /\ l + w + m >= x BY SizesBefore
<1>3. PICK l2, w2, m2, x2 \in Nat : Sizes(l2, w2, m2, x2)' /\ (l2 + w2 + m2 >= x2 => TasksCoverNodes')
  BY SizesAfter
<1>4. SUFFICES l2 + w2 + m2 >= x2 BY <1>3
<1>5. UNCHANGED <<present, task>> => l2 = l BY <1>2, <1>3 DEF Sizes, Listeners
<1>6. UNCHANGED <<active, waiting>> => w2 = w BY <1>2, <1>3 DEF Sizes, Waiting, WaitingTasks
<1>7. (missing' = missing => m2 = m) /\ (wanted' = wanted => x2 = x) BY <1>2, <1>3 DEF Sizes
<1>8. CASE Boot
  <2>1. l2 = l /\ x2 = IF pool THEN x ELSE MinCount
    BY <1>2, <1>3, <1>5, <1>8 DEF Boot, Sizes
  <2>2. CASE pool /\ jobs # {}
    <3>1. w2 = w /\ m2 = m BY <1>6, <1>7, <1>8, <2>2 DEF Boot
    <3> QED BY <1>2, <2>1, <2>2, <3>1
  <2>3. CASE ~ (pool /\ jobs # {})
    <3>1. JobStarted(MinCount, 0) /\ (IF pool THEN Replaced(MinCount) ELSE UNCHANGED missing)
      BY <1>8, <2>3 DEF Boot
    <3>2. w2 = w + MinCount + 0 BY <1>1, <1>2, <1>3, <3>1, StartedAdds DEF Sizes
    <3>3. CASE pool
      <4>1. m2 + MinCount >= m BY <1>1, <1>2, <1>3, <3>1, <3>3, ReplacedType DEF Sizes
      <4> QED BY <1>1, <1>2, <1>3, <2>1, <3>2, <3>3, <4>1
    <3>4. CASE ~ pool
      <4>1. m2 = m BY <1>7, <3>1, <3>4
      <4> QED BY <1>1, <1>2, <1>3, <2>1, <3>2, <3>4, <4>1
    <3> QED BY <3>3, <3>4
  <2> QED BY <2>2, <2>3
<1>9. CASE BootBreaks
  <2>1. PICK k \in 0 .. MinCount - 1 :
          /\ Dead(IF pool THEN 0 ELSE MinCount - k)
          /\ JobStarted(k, 0) \/ (k = 0 /\ UNCHANGED <<job_id, jobs, active, waiting>>)
    BY <1>9 DEF BootBreaks
  <2>2. k \in Nat BY <1>1
  <2>3. w2 = w + k
    <3>1. CASE JobStarted(k, 0)
      <4>1. w2 = w + k + 0 BY <1>1, <1>2, <1>3, <2>2, <3>1, StartedAdds DEF Sizes
      <4> QED BY <2>2, <4>1
    <3>2. CASE k = 0 /\ UNCHANGED <<job_id, jobs, active, waiting>>
      BY <1>6, <3>2
    <3> QED BY <2>1, <3>1, <3>2
  <2>4. /\ l2 = l /\ x2 = IF pool THEN x ELSE MinCount
        /\ m2 = m + IF pool THEN 0 ELSE MinCount - k
    BY <1>2, <1>3, <1>5, <1>9, <2>1 DEF BootBreaks, Dead, Sizes
  <2> QED BY <1>1, <1>2, <2>2, <2>3, <2>4
<1>10. CASE Expand
  <2>1. l2 = l /\ x2 = x + 1
    BY <1>2, <1>3, <1>5, <1>10 DEF Expand, Steady, Sizes
  <2>2. w2 + m2 >= w + m + 1
    <3>1. CASE jobs = {}
      <4>1. JobStarted(MinCount, 1) /\ Replaced(MinCount) BY <1>10, <3>1 DEF Expand
      <4>2. w2 = w + MinCount + 1 BY <1>1, <1>2, <1>3, <4>1, StartedAdds DEF Sizes
      <4>3. m2 + MinCount >= m BY <1>1, <1>2, <1>3, <4>1, ReplacedType DEF Sizes
      <4> QED BY <1>1, <1>2, <1>3, <4>2, <4>3
    <3>2. CASE jobs # {}
      <4>1. PICK id \in jobs : TasksAdded(id, 1) BY <1>10, <3>2 DEF Expand
      <4>2. m2 = m BY <1>7, <1>10, <3>2 DEF Expand
      <4>3. w2 >= w + 1 BY <1>1, <1>2, <1>3, <4>1, AddedAdds DEF Sizes
      <4> QED BY <1>2, <1>3, <4>2, <4>3
    <3> QED BY <3>1, <3>2
  <2> QED BY <1>2, <2>1, <2>2
<1>11. CASE ExpandBreaks
  <2>1. l2 = l /\ w2 >= w
    <3>1. l2 = l BY <1>5, <1>11 DEF ExpandBreaks
    <3>2. w2 >= w BY <1>1, <1>2, <1>3, <1>11, EndedGrowth DEF Sizes
    <3> QED BY <3>1, <3>2
  <2>2. (m2 = m + 0 /\ x2 = x) \/ (m2 = m + 1 /\ x2 = x + 1)
    BY <1>2, <1>3, <1>11 DEF ExpandBreaks, Dead, Steady, Sizes
  <2> QED BY <1>2, <2>1, <2>2
<1>12. CASE RestartTasks
  <2>1. PICK f \in Nat : f = Cardinality(Failed) BY Counts
  <2>2. w2 >= w + f BY <1>1, <1>2, <1>3, <1>12, <2>1, AddedAdds DEF RestartTasks, Sizes
  <2>3. m2 + f >= m BY <1>2, <1>3, <1>12, <2>1, ReplacedType DEF RestartTasks, Sizes
  <2>4. l2 = l /\ x2 = x BY <1>5, <1>7, <1>12 DEF RestartTasks, poolVars
  <2> QED BY <1>2, <2>2, <2>3, <2>4
<1>13. CASE RestartBreaks
  <2>1. PICK f \in Nat : f = Cardinality(Failed) BY Counts
  <2>2. l2 = l /\ m2 = m + 0 /\ x2 = x
    BY <1>2, <1>3, <1>5, <1>7, <1>13 DEF RestartBreaks, Dead, poolVars, Sizes
  <2>3. w2 >= w BY <1>1, <1>2, <1>3, <1>13, <2>1, PartlyAdds DEF RestartBreaks, Sizes
  <2> QED BY <1>2, <1>3, <2>2, <2>3
<1>14. CASE Grown \/ RestartDone
  <2>1. l2 = l /\ w2 = w /\ m2 = m /\ x2 = x
    BY <1>5, <1>6, <1>7, <1>14 DEF Grown, RestartDone, poolVars
  <2> QED BY <1>2, <2>1
<1>15. ASSUME NEW n \in Nodes, RemoveNode(n) PROVE l2 + w2 + m2 >= x2
  <2>1. x2 = x - 1 /\ w2 = w /\ m2 = m
    BY <1>2, <1>3, <1>6, <1>7, <1>15 DEF RemoveNode, Sizes
  <2>2. Listeners \ {n} \subseteq Listeners' BY <1>15 DEF RemoveNode, Listeners, TypeOK
  <2>3. l2 >= l - 1 BY <1>2, <1>3, <2>2, OneListenerLess DEF Sizes
  <2> QED BY <1>2, <2>1, <2>3
<1> QED BY <1>8, <1>9, <1>10, <1>11, <1>12, <1>13, <1>14, <1>15 DEF LoadBalancerStep

LEMMA NextCovers == TypeOK /\ TypeOK' /\ TasksCoverNodes /\ [Next]_vars => TasksCoverNodes'
<1> SUFFICES ASSUME TypeOK, TypeOK', TasksCoverNodes, [Next]_vars, ~ LoadBalancerStep
             PROVE  TasksCoverNodes'
  BY BalancerCovers
<1>1. /\ active \in SUBSET Jobs /\ waiting \in Queues
      /\ active' \in SUBSET Jobs /\ waiting' \in Queues
  BY DEF TypeOK, Queues
<1>2. PICK l, w, m, x \in Nat : Sizes(l, w, m, x) /\ l + w + m >= x BY SizesBefore
<1>3. PICK l2, w2, m2, x2 \in Nat : Sizes(l2, w2, m2, x2)' /\ (l2 + w2 + m2 >= x2 => TasksCoverNodes')
  BY SizesAfter
<1>4. SUFFICES l2 + w2 + m2 >= x2 BY <1>3
<1>5. UNCHANGED <<present, task>> => l2 = l BY <1>2, <1>3 DEF Sizes, Listeners
<1>6. UNCHANGED <<active, waiting>> => w2 = w BY <1>2, <1>3 DEF Sizes, Waiting, WaitingTasks
<1>7. (missing' = missing => m2 = m) /\ (wanted' = wanted => x2 = x) BY <1>2, <1>3 DEF Sizes
<1>8. w = Cardinality(TasksOf(active, waiting)) /\ w2 = Cardinality(TasksOf(active', waiting'))
  BY <1>2, <1>3, Counts, CountsPrime DEF Waiting, Sizes
<1>9. /\ IsFiniteSet(Listeners) /\ IsFiniteSet(Listeners')
      /\ l = Cardinality(Listeners) /\ l2 = Cardinality(Listeners')
  BY <1>2, <1>3, Counts, CountsPrime DEF Sizes
<1>10. CASE LoadBalancerRestarts \/ UNCHANGED vars
  <2>1. l2 = l /\ w2 = w /\ m2 = m /\ x2 = x
    BY <1>5, <1>6, <1>7, <1>10 DEF LoadBalancerRestarts, poolVars, vars
  <2> QED BY <1>2, <2>1
<1>11. ASSUME NEW n \in Nodes, Allocate(n) \/ GameStarts(n) \/ GameStops(n)
       PROVE  l2 + w2 + m2 >= x2
  <2>1. w2 = w /\ m2 = m /\ x2 = x
    BY <1>6, <1>7, <1>11 DEF Allocate, GameStarts, GameStops, serviceOnly
  <2>2. Listeners \subseteq Listeners'
    BY <1>11 DEF Allocate, GameStarts, GameStops, serviceOnly, Listeners
  <2>3. l2 >= l BY <1>9, <2>2, FS_Subset
  <2> QED BY <1>2, <2>1, <2>3
<1>12. ASSUME NEW n \in Nodes, TaskEnds(n)
       PROVE  l2 + w2 + m2 >= x2
  <2>1. w2 = w /\ m2 = m + 1 /\ x2 = x
    BY <1>2, <1>3, <1>6, <1>7, <1>12 DEF TaskEnds, serviceOnly, Sizes
  <2>2. Listeners \ {n} \subseteq Listeners' BY <1>12 DEF TaskEnds, Listeners, TypeOK
  <2>3. l2 >= l - 1 BY <1>2, <1>3, <2>2, OneListenerLess DEF Sizes
  <2> QED BY <1>2, <2>1, <2>3
<1>13. ASSUME NEW n \in Nodes, NEW j \in Jobs, Schedule(n, j)
       PROVE  l2 + w2 + m2 >= x2
  <2>1. /\ active' = active /\ waiting' = [waiting EXCEPT ![j] = waiting[j] - 1]
        /\ m2 = m /\ x2 = x /\ j \in active
    BY <1>7, <1>13 DEF Schedule, serviceOnly
  <2>2. Listeners' = Listeners \cup {n} /\ n \notin Listeners
    BY <1>13, JobAssumption DEF Schedule, serviceOnly, Listeners, TypeOK
  <2>3. l2 = l + 1 BY <1>9, <2>2, FS_AddElement
  <2>4. PICK h \in Nat : h = waiting[j] BY <1>1 DEF Queues
  <2>5. Held(active, waiting, j) = h /\ Held(active', waiting', j) = h - 1
    BY <1>1, <2>1, <2>4 DEF Held, Queues
  <2>6. active \ {j} = active' \ {j} /\ \A i \in Jobs \ {j} : waiting[i] = waiting'[i]
    BY <1>1, <2>1 DEF Queues
  <2>7. w2 + h = w + (h - 1) BY <1>1, <1>8, <2>5, <2>6, Refilled
  <2> QED BY <1>2, <2>1, <2>3, <2>7
<1>14. ASSUME NEW j \in Jobs, JobEnds(j)
       PROVE  l2 + w2 + m2 >= x2
  <2> DEFINE ended == {n \in Nodes : task[n] = j}
  <2>1. IsFiniteSet(ended) BY JobAssumption, FS_Subset
  <2>2. PICK e \in Nat : e = Cardinality(ended) BY <2>1, FS_CardinalityType
  <2>3. PICK h \in Nat : h = waiting[j] BY <1>1 DEF Queues
  <2>4. Listeners \subseteq Listeners' \cup ended
    BY <1>14 DEF JobEnds, Listeners, TypeOK
  <2>5. /\ active' = active \ {j} /\ waiting' = [waiting EXCEPT ![j] = 0]
        /\ m2 = m + (h + e) /\ x2 = x
    BY <1>2, <1>3, <1>7, <1>14, <2>2, <2>3 DEF JobEnds, Sizes
  <2> HIDE DEF ended
  <2>6. l <= l2 + e
    <3>1. /\ IsFiniteSet(Listeners' \cup ended)
          /\ Cardinality(Listeners' \cup ended) = l2 + e - Cardinality(Listeners' \cap ended)
      BY <1>9, <2>1, <2>2, FS_Union
    <3>2. Cardinality(Listeners' \cap ended) \in Nat BY <1>9, FS_Subset, FS_CardinalityType
    <3>3. l <= Cardinality(Listeners' \cup ended) BY <1>9, <2>4, <3>1, FS_Subset
    <3> QED BY <3>1, <3>2, <3>3
  <2>7. PICK b \in {0, h} : Held(active, waiting, j) = b /\ Held(active', waiting', j) = 0
    BY <2>3, <2>5 DEF Held
  <2>8. active \ {j} = active' \ {j} /\ \A i \in Jobs \ {j} : waiting[i] = waiting'[i]
    BY <1>1, <2>5 DEF Queues
  <2>9. w2 + b = w + 0 BY <1>1, <1>8, <2>7, <2>8, Refilled
  <2> QED BY <1>2, <1>3, <2>2, <2>3, <2>5, <2>6, <2>7, <2>9
<1> QED BY <1>10, <1>11, <1>12, <1>13, <1>14 DEF Next, ServiceStep

\* A task for every node, for any nodes, jobs and sizes and wherever the process ends in
\* between (BatchPool:139-174, 186-192, 329-330).
THEOREM TasksCover == Spec => []TasksCoverNodes
<1>1. Init => TasksCoverNodes
  <2> SUFFICES ASSUME Init PROVE TasksCoverNodes OBVIOUS
  <2>1. TypeOK BY InitType
  <2>2. wanted = Cardinality(present) /\ missing = wanted - Cardinality(Listeners)
    BY DEF Init, Listeners
  <2> QED BY <2>1, <2>2, Counts DEF TasksCoverNodes
<1> QED BY <1>1, InitType, NextTypeOK, NextCovers, PTL DEF Spec

-----------------------------------------------------------------------------
(* A task for each node that is there: the pool is never larger than what  *)
(* was asked for, so what covers the nodes asked for covers these.         *)

\* A node that is there without a listener has a task waiting for it: no growth whose task
\* went to another node (PoolManager:179), no removal and no new start leaves it to wait for
\* nothing, unless a task is missing for which no restart has added one.
BareNodesHaveTasks == (\E n \in present : task[n] = NoJob) => Waiting > 0 \/ missing > 0

PoolFits ==
  /\ Cardinality(present) <= wanted
  /\ ~ pool => wanted = 0 /\ lb = "boot"

LEMMA NextFits == TypeOK /\ TypeOK' /\ PoolFits /\ [Next]_vars => PoolFits'
<1> SUFFICES ASSUME TypeOK, TypeOK', PoolFits, [Next]_vars PROVE PoolFits' OBVIOUS
<1>1. /\ IsFiniteSet(present) /\ Cardinality(present) \in Nat /\ wanted \in Nat /\ pool \in BOOLEAN
      /\ MinCount \in Nat
  BY Counts, JobAssumption DEF TypeOK
<1>2. CASE Boot \/ BootBreaks
  <2>1. present' = present /\ pool' = TRUE /\ wanted' = IF pool THEN wanted ELSE MinCount
    BY <1>2 DEF Boot, BootBreaks
  <2> QED BY <1>1, <2>1 DEF PoolFits
<1>3. CASE Expand \/ ExpandBreaks
  <2>1. present' = present /\ pool' = pool /\ wanted = Cardinality(present) /\ lb # "boot"
        /\ wanted' \in {wanted, Cardinality(present) + 1}
    BY <1>3 DEF Expand, ExpandBreaks, Steady
  <2> QED BY <1>1, <2>1 DEF PoolFits
<1>4. ASSUME NEW n \in Nodes, RemoveNode(n) PROVE PoolFits'
  <2>1. present' = present \ {n} /\ n \in present /\ wanted' = wanted - 1 /\ pool' = pool
        /\ wanted = Cardinality(present) /\ lb # "boot"
    BY <1>4 DEF RemoveNode, Steady
  <2>2. Cardinality(present') = Cardinality(present) - 1 BY <1>1, <2>1, FS_RemoveElement
  <2>3. Cardinality(present) # 0 BY <1>1, <2>1, FS_EmptySet
  <2> QED BY <1>1, <2>1, <2>2, <2>3 DEF PoolFits
<1>5. ASSUME NEW n \in Nodes, Allocate(n) PROVE PoolFits'
  <2>1. /\ Cardinality(present) < wanted /\ n \notin present
        /\ present' = present \cup {n} /\ wanted' = wanted /\ pool' = pool /\ lb' = lb
    BY <1>5 DEF Allocate, serviceOnly
  <2>2. Cardinality(present') = Cardinality(present) + 1 BY <1>1, <2>1, FS_AddElement
  <2> QED BY <1>1, <2>1, <2>2 DEF PoolFits
<1>6. UNCHANGED <<pool, wanted, present>> /\ (pool \/ lb' \in {lb, "boot"}) => PoolFits'
  BY DEF PoolFits
<1>7. Grown \/ RestartTasks \/ RestartBreaks \/ RestartDone \/ LoadBalancerRestarts
        => UNCHANGED <<pool, wanted, present>> /\ (pool \/ lb' \in {lb, "boot"})
  BY DEF Grown, RestartTasks, RestartBreaks, RestartDone, LoadBalancerRestarts, poolVars, PoolFits
<1>8. \A n \in Nodes : GameStarts(n) \/ GameStops(n) \/ TaskEnds(n) \/ (\E j \in Jobs : Schedule(n, j))
        => UNCHANGED <<pool, wanted, present, lb>>
  BY DEF GameStarts, GameStops, TaskEnds, Schedule, serviceOnly
<1>9. \A j \in Jobs : JobEnds(j) => UNCHANGED <<pool, wanted, present, lb>>
  BY DEF JobEnds, serviceOnly
<1>10. UNCHANGED vars => UNCHANGED <<pool, wanted, present, lb>> BY DEF vars, poolVars
<1> QED BY <1>2, <1>3, <1>4, <1>5, <1>6, <1>7, <1>8, <1>9, <1>10
        DEF Next, LoadBalancerStep, ServiceStep

LEMMA BareNodesCounted == TypeOK /\ TasksCoverNodes /\ PoolFits => BareNodesHaveTasks
<1> SUFFICES ASSUME TypeOK, TasksCoverNodes, PoolFits, NEW n \in present, task[n] = NoJob
             PROVE  Waiting > 0 \/ missing > 0
  BY DEF BareNodesHaveTasks
<1>1. /\ Waiting \in Nat /\ IsFiniteSet(present) /\ Cardinality(present) \in Nat
      /\ Cardinality(Listeners) \in Nat /\ missing \in Nat /\ wanted \in Nat
  BY Counts, JobAssumption DEF TypeOK
<1>2. Listeners \subseteq present /\ Listeners # present BY DEF Listeners
<1>3. Cardinality(Listeners) < Cardinality(present)
  BY <1>1, <1>2, FS_Subset
<1> QED BY <1>1, <1>3 DEF TasksCoverNodes, PoolFits

\* Every node without a listener has a task waiting for it, unless one is missing, for any
\* nodes, jobs and sizes (PoolManager:179, BatchPool:139-192).
THEOREM BareNodesServed == Spec => []BareNodesHaveTasks
<1>1. Init => PoolFits
  <2> SUFFICES ASSUME Init PROVE PoolFits OBVIOUS
  <2>1. Cardinality(present) \in Nat BY InitType, Counts
  <2>2. wanted = Cardinality(present) /\ (~ pool => present = {}) /\ lb = "boot" BY DEF Init
  <2> QED BY <2>1, <2>2, FS_EmptySet DEF PoolFits
<1>2. Spec => []TypeOK BY TypeCorrect
<1>3. Spec => []PoolFits BY <1>1, <1>2, NextFits, PTL DEF Spec
<1> QED BY <1>2, <1>3, TasksCover, BareNodesCounted, PTL
=============================================================================
