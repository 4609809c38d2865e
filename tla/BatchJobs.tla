------------------------------ MODULE BatchJobs ------------------------------
(***************************************************************************)
(* The jobs and tasks of modules/BatchPool.py: every node needs a task that*)
(* runs the listener, and the listener starts the game.  The code adds     *)
(* tasks when it creates the pool, when it grows the pool by a node and    *)
(* when a listener has ended on a node whose game still answers; the       *)
(* service runs a task that waits on any node without one.                 *)
(***************************************************************************)
EXTENDS FiniteSets, Integers

CONSTANTS
  Nodes,       \* nodes the pool can have
  Jobs,        \* names of jobs; bound: no more are created
  NoJob,       \* no job
  MinCount,    \* POOL mincount
  MaxWaiting,  \* bound: tasks that wait in a job
  MaxMissing   \* bound: tasks that may be missing

ASSUME JobAssumption ==
  /\ IsFiniteSet(Nodes) /\ IsFiniteSet(Jobs)
  /\ NoJob \notin Jobs
  /\ {MinCount, MaxWaiting, MaxMissing} \subseteq Nat

VARIABLES
  lb,        \* the load balancer: "boot", "idle", "restarting", "growing" or "dead"
  job_id,    \* the job that new tasks go to
  jobs,      \* jobs of the pool that the service lists, completed ones included
  active,    \* those that still take tasks
  waiting,   \* tasks of each job that wait for a node
  pool,      \* does the pool exist
  wanted,    \* target_dedicated_nodes
  present,   \* nodes of the pool
  task,      \* the job of the listener that runs on each node, or NoJob
  games,     \* nodes whose game answers
  missing    \* history: tasks that ended, or were not added because the process ended,
             \* and that no restart and no new job has replaced

poolVars == <<pool, wanted, present, task, games>>
vars == <<lb, job_id, jobs, active, waiting, poolVars, missing>>

TypeOK ==
  /\ lb \in {"boot", "idle", "restarting", "growing", "dead"}
  /\ job_id \in Jobs \cup {NoJob}
  /\ active \subseteq jobs /\ jobs \subseteq Jobs
  /\ waiting \in [Jobs -> 0 .. MaxWaiting]
  /\ pool \in BOOLEAN
  /\ wanted \in Nat
  /\ present \in SUBSET Nodes
  /\ task \in [Nodes -> active \cup {NoJob}]
  /\ games \in SUBSET present
  /\ missing \in 0 .. MaxMissing

\* No pool yet, or one with nodes that run listeners or have lost them, next to jobs that
\* go on, have completed or are gone.
Init ==
  /\ lb = "boot" /\ job_id = NoJob
  /\ pool \in BOOLEAN
  /\ waiting = [j \in Jobs |-> 0]
  /\ present \in SUBSET Nodes /\ wanted = Cardinality(present)
  /\ jobs \in SUBSET Jobs /\ active \in SUBSET jobs
  /\ task \in [Nodes -> active \cup {NoJob}]
  /\ \A n \in Nodes : task[n] # NoJob => n \in present
  /\ games \in SUBSET present
  /\ ~ pool => present = {}
  /\ missing = Cardinality(present) - Cardinality({n \in present : task[n] # NoJob})
  /\ missing <= MaxMissing

-----------------------------------------------------------------------------
(* Adding tasks.                                                           *)

\* start_mc_server_job_pool: a new job with count tasks.  more are added to it after that.
JobStarted(count, more) ==
  \E j \in Jobs \ jobs :
    /\ count + more <= MaxWaiting
    /\ jobs' = jobs \cup {j} /\ active' = active \cup {j}
    /\ job_id' = j
    /\ waiting' = [waiting EXCEPT ![j] = count + more]

\* Mutant of TasksAdded: the job is made, its name is not kept.
TasksAddedAstray(id, count) ==
  IF id \in active
  THEN /\ waiting[id] + count <= MaxWaiting
       /\ waiting' = [waiting EXCEPT ![id] = @ + count]
       /\ job_id' = id
       /\ UNCHANGED <<jobs, active>>
  ELSE \E j \in Jobs \ jobs :
         /\ jobs' = jobs \cup {j} /\ active' = active \cup {j}
         /\ job_id' = id
         /\ UNCHANGED waiting

\* add_task_to_start_server, count times: if the job id takes no task, one more job is
\* made with a task of its own, and the task that failed is added to it as well.
TasksAdded(id, count) ==
  IF id \in active
  THEN /\ waiting[id] + count <= MaxWaiting
       /\ waiting' = [waiting EXCEPT ![id] = @ + count]
       /\ job_id' = id
       /\ UNCHANGED <<jobs, active>>
  ELSE JobStarted(1, count)

\* An end in the middle: none of the tasks, some of them, or the job that was made for
\* them without the one that failed.
PartlyAdded(id, count) ==
  \/ UNCHANGED <<job_id, jobs, active, waiting>>
  \/ \E k \in 1 .. count - 1 : TasksAdded(id, k)
  \/ id \notin active /\ \E k \in {0, 1} : JobStarted(k, 0)

Replaced(count) == missing' = IF missing > count THEN missing - count ELSE 0

\* The process ends by an error of the service or from outside.
Dead(changed) == lb' = "dead" /\ missing' = missing + changed /\ missing' <= MaxMissing

-----------------------------------------------------------------------------
(* The load balancer.                                                      *)

\* check_or_create_pool at start up.  Of several jobs of the pool the first listed one is
\* taken, whether it is active or not.
Boot ==
  /\ lb = "boot" /\ lb' = "idle"
  /\ IF pool /\ jobs # {}
     THEN job_id' \in jobs /\ UNCHANGED <<jobs, active, waiting, missing>>
     ELSE JobStarted(MinCount, 0) /\ IF pool THEN Replaced(MinCount) ELSE UNCHANGED missing
  /\ pool' = TRUE
  /\ wanted' = IF pool THEN wanted ELSE MinCount
  /\ UNCHANGED <<present, task, games>>

\* The process ends in between: the pool is there, and a job with fewer tasks, or none.
BootBreaks ==
  /\ lb = "boot" /\ ~ (pool /\ jobs # {})
  /\ \E k \in 0 .. MinCount - 1 :
       /\ Dead(IF pool THEN 0 ELSE MinCount - k)
       /\ JobStarted(k, 0) \/ (k = 0 /\ UNCHANGED <<job_id, jobs, active, waiting>>)
  /\ pool' = TRUE
  /\ wanted' = IF pool THEN wanted ELSE MinCount
  /\ UNCHANGED <<present, task, games>>

Steady == Cardinality(present) = wanted

\* expand_pool_add_server(1) looks for a job as start up does, and then resizes.
Expand ==
  /\ lb \in {"idle", "restarting"} /\ Steady
  /\ IF jobs = {} THEN JobStarted(MinCount, 1) /\ Replaced(MinCount)
                  ELSE (\E id \in jobs : TasksAdded(id, 1)) /\ UNCHANGED missing
  /\ wanted' = Cardinality(present) + 1
  /\ lb' = "growing"
  /\ UNCHANGED <<pool, present, task, games>>

\* The process ends before the resize, where it may have made a job, or after it and before
\* the task.
ExpandBreaks ==
  /\ lb \in {"idle", "restarting"} /\ Steady
  /\ \/ /\ Dead(0) /\ UNCHANGED wanted
        /\ \/ UNCHANGED <<job_id, jobs, active, waiting>>
           \/ jobs = {} /\ \E k \in 0 .. MinCount : JobStarted(k, 0)
     \/ /\ Dead(1) /\ wanted' = Cardinality(present) + 1
        /\ IF jobs = {} THEN JobStarted(MinCount, 0)
                        ELSE \E id \in jobs : PartlyAdded(id, 1)
  /\ UNCHANGED <<pool, present, task, games>>

\* The new node is there and has come up or crashed.
Grown ==
  /\ lb = "growing" /\ Steady
  /\ lb' = "idle"
  /\ UNCHANGED <<job_id, jobs, active, waiting, poolVars, missing>>

\* Nodes in STABLE_BUT_TASK_FAILED.
Failed == {n \in games : task[n] = NoJob}

\* Mutant of RestartTasks: one task for all failed nodes.
RestartOneTask ==
  /\ lb = "idle" /\ Failed # {}
  /\ TasksAdded(job_id, 1)
  /\ lb' = "restarting"
  /\ Replaced(Cardinality(Failed))
  /\ UNCHANGED poolVars

RestartTasks ==
  /\ lb = "idle" /\ Failed # {}
  /\ TasksAdded(job_id, Cardinality(Failed))
  /\ lb' = "restarting"
  /\ Replaced(Cardinality(Failed))
  /\ UNCHANGED poolVars

RestartBreaks ==
  /\ lb = "idle" /\ Failed # {}
  /\ PartlyAdded(job_id, Cardinality(Failed))
  /\ Dead(0)
  /\ UNCHANGED poolVars

\* Mutant of RestartDone: a node without a game holds the restart up.
RestartDoneIfAllUp ==
  /\ lb = "restarting" /\ Failed = {} /\ games = present
  /\ lb' = "idle"
  /\ UNCHANGED <<job_id, jobs, active, waiting, poolVars, missing>>

\* No task is added for a listener that ends while a restart goes on.
RestartDone ==
  /\ lb = "restarting" /\ Failed = {}
  /\ lb' = "idle"
  /\ UNCHANGED <<job_id, jobs, active, waiting, poolVars, missing>>

\* Mutant of RemoveNode: the game of the node is still counted.
RemoveNodeNotGame(n) ==
  /\ lb \in {"idle", "restarting"} /\ Steady /\ n \in present
  /\ lb' = "idle"
  /\ present' = present \ {n} /\ wanted' = wanted - 1
  /\ task' = [task EXCEPT ![n] = NoJob]
  /\ UNCHANGED <<games, job_id, jobs, active, waiting, pool, missing>>

\* A server that retired or crashed is taken out, and its listener with it; the wait for
\* the removal ends a restart.
RemoveNode(n) ==
  /\ lb \in {"idle", "restarting"} /\ Steady /\ n \in present
  /\ lb' = "idle"
  /\ present' = present \ {n} /\ wanted' = wanted - 1
  /\ task' = [task EXCEPT ![n] = NoJob]
  /\ games' = games \ {n}
  /\ UNCHANGED <<job_id, jobs, active, waiting, pool, missing>>

\* The process ends and another one starts; the service keeps jobs and tasks.
LoadBalancerRestarts ==
  /\ lb # "boot"
  /\ lb' = "boot" /\ job_id' = NoJob
  /\ UNCHANGED <<jobs, active, waiting, poolVars, missing>>

LoadBalancerStep ==
  \/ Boot \/ BootBreaks \/ Expand \/ ExpandBreaks \/ Grown
  \/ RestartTasks \/ RestartBreaks \/ RestartDone
  \/ \E n \in Nodes : RemoveNode(n)

-----------------------------------------------------------------------------
(* The service and the nodes.                                              *)

serviceOnly == <<lb, job_id, jobs, pool, wanted>>

Allocate(n) ==
  /\ Cardinality(present) < wanted /\ n \notin present
  /\ present' = present \cup {n}
  /\ UNCHANGED <<serviceOnly, active, waiting, task, games, missing>>

Schedule(n, j) ==
  /\ n \in present /\ task[n] = NoJob
  /\ j \in active /\ waiting[j] > 0
  /\ waiting' = [waiting EXCEPT ![j] = @ - 1]
  /\ task' = [task EXCEPT ![n] = j]
  /\ UNCHANGED <<serviceOnly, active, present, games, missing>>

GameStarts(n) ==
  /\ n \in present \ games /\ task[n] # NoJob
  /\ games' = games \cup {n}
  /\ UNCHANGED <<serviceOnly, active, waiting, present, task, missing>>

GameStops(n) ==
  /\ n \in games
  /\ games' = games \ {n}
  /\ UNCHANGED <<serviceOnly, active, waiting, present, task, missing>>

TaskEnds(n) ==
  /\ task[n] # NoJob /\ missing < MaxMissing
  /\ task' = [task EXCEPT ![n] = NoJob]
  /\ missing' = missing + 1
  /\ UNCHANGED <<serviceOnly, active, waiting, present, games>>

\* Somebody ends a job, and its tasks with it, or deletes it; the service lists one that
\* has ended.
JobEnds(j) ==
  LET lost == waiting[j] + Cardinality({n \in Nodes : task[n] = j})
  IN  /\ j \in jobs /\ missing + lost <= MaxMissing
      /\ jobs' \in {jobs \ {j}} \cup IF j \in active THEN {jobs} ELSE {}
      /\ active' = active \ {j}
      /\ waiting' = [waiting EXCEPT ![j] = 0]
      /\ task' = [n \in Nodes |-> IF task[n] = j THEN NoJob ELSE task[n]]
      /\ missing' = missing + lost
      /\ UNCHANGED <<lb, job_id, pool, wanted, present, games>>

ServiceStep ==
  \/ \E n \in Nodes : \/ Allocate(n) \/ GameStarts(n) \/ GameStops(n) \/ TaskEnds(n)
                      \/ \E j \in Jobs : Schedule(n, j)
  \/ \E j \in Jobs : JobEnds(j)

-----------------------------------------------------------------------------
Next == LoadBalancerStep \/ LoadBalancerRestarts \/ ServiceStep

Spec == Init /\ [][Next]_vars

\* The load balancer looks at its servers again and again, and the service brings the
\* nodes it was asked for and runs what waits.
Fairness ==
  /\ WF_vars(Grown \/ RestartDone)
  /\ WF_vars(\E n \in Nodes : Allocate(n))
  /\ \A n \in Nodes : WF_vars(\E j \in Jobs : Schedule(n, j))

FairSpec == Spec /\ Fairness

-----------------------------------------------------------------------------
\* The tasks that wait, as pairs of a job and a number.
WaitingTasks == {q \in active \X (1 .. MaxWaiting) : q[2] <= waiting[q[1]]}
Waiting == Cardinality(WaitingTasks)
Listeners == {n \in present : task[n] # NoJob}

\* A task for every node: creating, growing and restarting, over completed jobs, an end in
\* the middle and restarts of the load balancer, never leave more nodes asked for than
\* tasks that run or wait, but for those that ended by themselves or were never added
\* (BatchPool:139-174, 186-192, 329-330).
TasksCoverNodes == Cardinality(Listeners) + Waiting + missing >= wanted

\* The wait in RESTARTING_TASK (LoadBalancerMain:271-283) ends, unless a task is missing
\* for which no restart has added one.
RestartEnds == lb = "restarting" ~> lb # "restarting" \/ missing > 0

\* A node that has come gets a listener, whichever node each task goes to (PoolManager:179),
\* or is removed, unless a task is missing for which no restart has added one.
NodesGetListeners ==
  \A n \in Nodes : n \in present ~> task[n] # NoJob \/ n \notin present \/ missing > 0
=============================================================================
