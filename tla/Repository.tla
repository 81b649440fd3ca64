----------------------------- MODULE Repository -----------------------------
(***************************************************************************)
(* The tables task, instr_record and instance of the schedulx database and *)
(* the operations the repository package offers on them.                   *)
(*                                                                         *)
(* An operation is an operator from the table before to the table after:   *)
(* the services of the other modules compose them into steps.  An id of a  *)
(* machine stands for its instance_id and for its inner IP, which the code *)
(* uses interchangeably.  The rows of a query come without their order.    *)
(***************************************************************************)
EXTENDS Integers, FiniteSets

CONSTANTS
    TaskId,    \* ids of rows of the table task (auto-increment)
    BxTaskId,  \* ids BridgX gives to its own tasks
    Machine,   \* cloud machines
    Cluster,   \* ids of service clusters
    Faults     \* which failures of the environment may occur

ASSUME IdAssumption ==
    /\ TaskId \subseteq Nat \ {0}
    /\ BxTaskId \subseteq Nat \ {0}
    /\ Cluster \subseteq Nat \ {0}
    /\ IsFiniteSet(Machine)

ASSUME FaultsAssumption ==
    Faults \subseteq {"bridgx",  \* BridgX refuses a call, or a task of its own fails
                      "lost",    \* BridgX or the load balancer acts, its answer is lost
                      "auth",    \* BridgX does not answer the query for the cluster
                      "slb",     \* the load balancer refuses a call
                      "ssh",     \* a remote command fails
                      "slow",    \* remote work outlasts the five minutes of a poll
                      "db",      \* a statement fails
                      "crash"}   \* the process dies

VARIABLES
    task,         \* task[t]: the row of schedule task t
    instr_record, \* instr_record[t][i]: status of the record of t's i-th instruction
    instance      \* instance[<<k, m>>]: the row with task_id k and instance_id m

(***************************************************************************)
(* instance.task_id holds the id of a BridgX task in the rows an expand    *)
(* creates and the id of a schedule task in the rows a deploy creates.     *)
(***************************************************************************)
Key == TaskId \cup BxTaskId

RowId == Key \X Machine

Kinds == {"Expand", "Shrink", "Deploy"}

TaskStatus == {"RUNNING", "ROLLING_BACK", "SUCC", "FAIL"}

Unfinished == {"RUNNING", "ROLLING_BACK"}

InstrRecStatus == {"RUNNING", "SUCC", "FAIL"}

InstanceStatus ==
    {"INIT", "BASE", "DOWNLOAD", "BEFORE_DEPLOY", "DEPLOY", "AFTER_DEPLOY",
     "SVC", "ALB", "UNALB", "FAIL", "DELETED"}

\* Absence of a row; 0 is what an int64 id holds when nothing was assigned.
None == "NONE"

\* A task step is the instruction it belongs to and how far that came.
Action ==
    {"bridgx.expand", "nodeact.initbase", "nodeact.initsvc", "mount.slb",
     "umount.slb", "bridgx.shrink", "nodeact.before_download", "nodeact.download",
     "nodeact.before_deploy", "nodeact.deploy", "nodeact.after_deploy"}

TaskStep == [instr : Action \cup {None}, phase : {"INIT", "SUCC", "FAIL"}]

StepInit == [instr |-> None, phase |-> "INIT"]

NoTask == [kind |-> None, cluster |-> 0, inst_cnt |-> 0, status |-> None,
           step |-> StepInit, bridgx_task_id |-> 0, nodeact_task_id |-> 0]

NoRow == [status |-> None, cluster |-> 0]

MaxInstr == 5   \* the longest instruction group, the one of a deploy

NoRecords == [i \in 1..MaxInstr |-> None]

-----------------------------------------------------------------------------
(* taskrepo.go *)

\* TaskRepo.CreateTask: RUNNING, or ROLLING_BACK for a deploy that rolls back.
CreateTask(tbl, t, kind, sc, cnt, isRollback) ==
    [tbl EXCEPT ![t] =
        [NoTask EXCEPT !.kind = kind, !.cluster = sc, !.inst_cnt = cnt,
                       !.status = IF isRollback THEN "ROLLING_BACK" ELSE "RUNNING"]]

UpdateTaskStatus(tbl, t, status) == [tbl EXCEPT ![t].status = status]

UpdateTaskStep(tbl, t, step) == [tbl EXCEPT ![t].step = step]

UpdateTaskRelationTaskId(tbl, t, field, k) ==
    IF field = "bridgx_task_id" THEN [tbl EXCEPT ![t].bridgx_task_id = k]
                                ELSE [tbl EXCEPT ![t].nodeact_task_id = k]

\* TaskService.HasRunningTask, over the templates of one service cluster.
HasRunningTask(sc) ==
    \E t \in TaskId : task[t].cluster = sc /\ task[t].status \in Unfinished

-----------------------------------------------------------------------------
(* instr_record: InstrSvc.createInstrRecord and updateInstrRecord *)

CreateInstrRecord(tbl, t, i) == [tbl EXCEPT ![t][i] = "RUNNING"]

UpdateInstrRecord(tbl, t, i, status) == [tbl EXCEPT ![t][i] = status]

-----------------------------------------------------------------------------
(* instancerepo.go *)

Exists(r) == instance[r].status # None

NewRow(sc) == [status |-> "INIT", cluster |-> sc]

\* Insert the machines that have no row of this task yet; leave the others alone.
UpInsertInstanceBatch(ms, k, sc) ==
    [r \in RowId |-> IF r[1] = k /\ r[2] \in ms /\ ~Exists(r) THEN NewRow(sc) ELSE instance[r]]

\* Mutant: the update that comes first is forgotten.
MarkNothing(sc) == instance

\* First write of UpInsertInstanceBatchByCluster: every row of the cluster.
MarkClusterDeleted(sc) ==
    [r \in RowId |-> IF Exists(r) /\ instance[r].cluster = sc
                     THEN [instance[r] EXCEPT !.status = "DELETED"] ELSE instance[r]]

\* Second write; the unique key (instance_id, task_id) refuses a duplicate.
CanBatchCreate(ms, k) == \A m \in ms : ~Exists(<<k, m>>)

\* Mutant: machines that have a row already, whatever it says, get no new one.
BatchCreateUnknown(ms, k, sc) ==
    [r \in RowId |-> IF r[1] = k /\ r[2] \in ms /\ \A j \in Key : ~Exists(<<j, r[2]>>)
                     THEN NewRow(sc) ELSE instance[r]]

BatchCreate(ms, k, sc) ==
    [r \in RowId |-> IF r[1] = k /\ r[2] \in ms THEN NewRow(sc) ELSE instance[r]]

\* Mutant: the row is looked for by its machine alone.
UpdateInstOfMachine(k, m, status) ==
    [r \in RowId |-> IF r[2] = m /\ Exists(r)
                     THEN [instance[r] EXCEPT !.status = status] ELSE instance[r]]

\* UpdateInst looks for the row first and does nothing when there is none.
UpdateInst(k, m, status) ==
    [r \in RowId |-> IF r = <<k, m>> /\ Exists(r)
                     THEN [instance[r] EXCEPT !.status = status] ELSE instance[r]]

BatchUpdateStatus(ms, k, status) ==
    [r \in RowId |-> IF r[1] = k /\ r[2] \in ms /\ Exists(r)
                     THEN [instance[r] EXCEPT !.status = status] ELSE instance[r]]

BatchUpdateStatusByIds(ms, status) ==
    [r \in RowId |-> IF r[2] \in ms /\ Exists(r)
                     THEN [instance[r] EXCEPT !.status = status] ELSE instance[r]]

\* Machines with a row of task_id k, and those of them with a given status.
InstsOfTask(k) == {m \in Machine : <<k, m>> \in RowId /\ Exists(<<k, m>>)}

\* Mutant: the condition on the status is dropped.
InstsQueryAnyStatus(k, status) == InstsOfTask(k)

InstsQueryByTaskId(k, status) ==
    {m \in InstsOfTask(k) : instance[<<k, m>>].status = status}

\* Mutant: the condition on the cluster is dropped.
RowsOfAnyCluster(sc) == {r \in RowId : Exists(r)}

RowsOfCluster(sc) == {r \in RowId : Exists(r) /\ instance[r].cluster = sc}

\* QueryInstsToUmount takes `limit' rows, all of them when the limit is negative.
\* Its SELECT leaves out task_id, so the task id it returns is 0, which no row has.
RowsToUmount(sc) == {r \in RowsOfCluster(sc) : instance[r].status = "ALB"}

\* Mutant: the limit is ignored.
QueryAllToUmount(sc, limit) == {RowsToUmount(sc)}

QueryInstsToUmount(sc, limit) ==
    LET rows == RowsToUmount(sc)
        n    == IF limit \in 1..Cardinality(rows) THEN limit ELSE Cardinality(rows)
    IN  {picked \in SUBSET rows : Cardinality(picked) = n}

UmountTaskId == 0

\* NotDeletedInstsWithLimit: Order and Limit come after Find, where they change
\* nothing, so every row that is not deleted is returned.
NotDeletedInstsWithLimit(sc, limit) ==
    {r \in RowsOfCluster(sc) : instance[r].status # "DELETED"}

\* Mutant: the condition on the status is dropped.
CountWithDeleted(sc) == Cardinality(RowsOfCluster(sc))

\* What the lists of services and clusters show; a cluster that the grouped query
\* does not name has 0.
GetInstanceCountByClusterIds(sc) ==
    Cardinality({r \in RowsOfCluster(sc) : instance[r].status # "DELETED"})

-----------------------------------------------------------------------------
TaskRow ==
    [kind : Kinds \cup {None}, cluster : Cluster \cup {0}, inst_cnt : Int,
     status : TaskStatus \cup {None}, step : TaskStep,
     bridgx_task_id : BxTaskId \cup {0}, nodeact_task_id : BxTaskId \cup {0}]

InstanceRow == [status : InstanceStatus \cup {None}, cluster : Cluster \cup {0}]

RepositoryTypeOK ==
    /\ task \in [TaskId -> TaskRow]
    /\ instr_record \in [TaskId -> [1..MaxInstr -> InstrRecStatus \cup {None}]]
    /\ instance \in [RowId -> InstanceRow]
=============================================================================
