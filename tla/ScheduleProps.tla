--------------------------- MODULE ScheduleProps ----------------------------
(***************************************************************************)
(* What the scheduler must keep, and what its comments and descriptions    *)
(* say of it.                                                              *)
(***************************************************************************)
EXTENDS ScheduleSvc

Running(t) == run[t].pc \in Active

\* No task is being executed and no machine is being worked on.
Quiet == node = {} /\ \A t \in TaskId : ~Running(t)

LiveRows(m) == {r \in RowId : r[2] = m /\ Exists(r) /\ instance[r].status # "DELETED"}

-----------------------------------------------------------------------------
(* The commands a task has in flight all belong to one of its instructions   *)
(* and run on different machines: the poll between base and service          *)
(* initialisation, and wg.Wait between deploy instructions, are barriers,    *)
(* whatever fails and whatever other tasks do meanwhile.                     *)
PhaseBarrier ==
    \A g, h \in node : g.task = h.task =>
        /\ g.target = h.target
        /\ (g.inst = h.inst => g = h)

(* A task handles machines of its own service cluster only, on which it runs *)
(* commands or which it mounts or releases; the rows it finds them by carry  *)
(* the cluster of their machine, although ServiceEnvInitAsync is called with *)
(* service cluster 0.                                                        *)
WorksInOwnCluster ==
    /\ \A t \in TaskId : \A m \in run[t].grp : machine[m].cluster = task[t].cluster
    /\ \A g \in node : machine[g.inst].cluster = task[g.task].cluster
    /\ \A r \in RowId : Exists(r) => instance[r].cluster = machine[r[2]].cluster

(* The records of a task tell how far it came: an instruction starts only   *)
(* after all before it succeeded, at most the last one started is unfinished *)
(* or failed, and none is left RUNNING by a task that ended without a crash. *)
RecordsTellProgress ==
    \A t \in TaskId :
        /\ \A i, j \in 1..MaxInstr :
              (i < j /\ instr_record[t][j] # None) => instr_record[t][i] = "SUCC"
        /\ run[t].pc = "done" => \A i \in 1..MaxInstr : instr_record[t][i] # "RUNNING"

(* A task is reported SUCC only when every instruction of its group is. *)
SuccessIsComplete ==
    \A t \in TaskId : task[t].status = "SUCC" =>
        \A i \in 1..GroupLen(task[t].kind) : instr_record[t][i] = "SUCC"

(* Seen from outside a task is no more than TaskLifecycle says: its row and  *)
(* its records never contradict each other, and an end is final.             *)
Completed(t) == Cardinality({i \in 1..MaxInstr : instr_record[t][i] = "SUCC"})

Lifecycle == INSTANCE TaskLifecycle WITH
    Task <- TaskId, MaxLen <- MaxInstr,
    status <- [t \in TaskId |-> task[t].status],
    len <- [t \in TaskId |-> IF task[t].kind = None THEN 0 ELSE GroupLen(task[t].kind)],
    done <- [t \in TaskId |-> Completed(t)]

ImplementsLifecycle == Lifecycle!Spec

(* A machine BridgX has released does not serve behind the load balancer. *)
ReleasedNotServing == \A m \in slb : machine[m].state # "gone"

(* A machine enters the server group only with its service environment set  *)
(* up: at that moment a row of it says SVC.                                 *)
OnlyReadyMachinesServe ==
    [][\A m \in slb' \ slb : \E k \in Key : instance[<<k, m>>].status = "SVC"]_vars

(* A shrink asks BridgX for more machines than its caller named only when    *)
(* the service cluster has no mounted row.                                   *)
ShrinkWithinCountIfMounted ==
    [][\A t \in TaskId :
          (run[t].pc = "shrink_call" /\ run'[t].pc = "shrink_poll" /\ task[t].inst_cnt > 0)
             => \/ Cardinality(bx'[run'[t].bx].machines) <= task[t].inst_cnt
                \/ RowsToUmount(task[t].cluster) = {}]_vars

(* A deploy reported SUCC took every machine it began with through all five  *)
(* stages, or lost it in the first one: a later failure fails the task.      *)
DeploySuccessIsComplete ==
    \A t \in TaskId : (task[t].kind = "Deploy" /\ task[t].status = "SUCC") =>
        /\ \A m \in run[t].grp : instance[<<t, m>>].status \in {"AFTER_DEPLOY", "FAIL", "DELETED"}
        /\ t \notin deploy_err

(* Of all rows of a machine at most one is not DELETED, also while tasks work *)
(* on it: the queries for rows of a cluster name no machine twice.           *)
OneLiveRow == \A m \in Machine : Cardinality(LiveRows(m)) <= 1

(* When nothing is going on, every machine that runs has a row that is not   *)
(* DELETED, where the next shrink will find it: none is paid for and lost.   *)
RunningIsTracked ==
    Quiet => \A m \in Machine : machine[m].state = "running" => LiveRows(m) # {}

(* When nothing is going on, the instance count of a cluster, which counts   *)
(* rows of tasks, is the number of its machines that run: no machine is      *)
(* counted after its release, twice or not at all.                           *)
CountIsOfRunning ==
    Quiet => \A sc \in Cluster :
        GetInstanceCountByClusterIds(sc) = Cardinality(RunningIn(sc))

(* A machine that runs with no row to find it by is some task's reported    *)
(* failure: a row that was lost, or never written, fails a task of the      *)
(* machine's service cluster or leaves it unfinished for good.              *)
LossIsReported ==
    Quiet => \A m \in Machine : (machine[m].state = "running" /\ LiveRows(m) = {}) =>
        \E t \in TaskId : task[t].cluster = machine[m].cluster
                          /\ task[t].status \in Unfinished \cup {"FAIL"}

(* While Describe is polled for the nodes of a task the task has rows: the  *)
(* rate it computes is a division of integers by their number.              *)
RateIsDefined ==
    \A t \in TaskId : run[t].pc = "node_poll" => InstsOfTask(run[t].key) # {}

(* A row that a deploy or a shrink marked DELETED comes back to life only   *)
(* through the task that wrote it, while that task or one of its commands   *)
(* is under way: a late callback never reaches the row of another task.     *)
WroteRow(t, r) == r[1] \in {t, run[t].key}

RevivedByItsOwnTask ==
    [][\A r \in RowId :
          (instance[r].status = "DELETED" /\ instance'[r].status # "DELETED") =>
             \E t \in TaskId : WroteRow(t, r) /\ (Running(t) \/ InFlight(t) # {})]_vars

(* Every task that was accepted is eventually reported SUCC or FAIL. *)
TasksEnd ==
    \A t \in TaskId : task[t].status \in Unfinished ~> task[t].status \in {"SUCC", "FAIL"}

-----------------------------------------------------------------------------
(* What the repository says of itself. *)

(* models/db/task.go: inst_cnt is the number of instances the task operates on. *)
ShrinkWithinCount ==
    \A t \in TaskId : (task[t].kind = "Shrink" /\ run[t].pc = "shrink_poll")
        => Cardinality(bx[run[t].bx].machines) <= task[t].inst_cnt

(* mountsvc.go: an empty query means there is no instance to unmount. *)
EmptyUmountMeansUnmounted ==
    [][\A t \in TaskId :
          (run[t].pc = "umount_query" /\ run'[t].pc = "next")
             => RunningIn(task[t].cluster) \cap slb = {}]_vars
=============================================================================
