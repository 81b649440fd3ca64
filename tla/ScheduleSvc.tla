---------------------------- MODULE ScheduleSvc -----------------------------
(***************************************************************************)
(* The scheduler: ScheduleSvc starts one goroutine per expand, shrink or   *)
(* deploy task, which executes the instructions of the template one after  *)
(* the other through InstrSvc, BridgXSvc, NodeActSvc and MountService.     *)
(*                                                                         *)
(* run[t] is that goroutine: its program counter names the call it is      *)
(* about to make, and a step of this module is one call to BridgX, to the  *)
(* load balancer or to a table other goroutines use, together with the     *)
(* code up to the next one, the writes to the task's own records included. *)
(***************************************************************************)
EXTENDS Cloud, EnvService

CONSTANTS
    EndStep,     \* how many of the four expand steps the expand template has
    Broken,      \* kinds of task whose template may have no readable instr_group
    Requested,   \* kinds of task the callers ask for
    Counts,      \* instance counts a caller may ask for
    Mounted,     \* machines an earlier expand left in the server group
    OneAtATime,  \* TRUE: callers take turns, and each asks first (GET scheduling)
    MaxServers   \* ALIYUNAddServerGroupLenMax

ASSUME TemplateAssumption ==
    /\ EndStep \in 1..4
    /\ Broken \subseteq Kinds
    /\ Requested \subseteq Kinds
    /\ Counts \subseteq Int \ {0}
    /\ Mounted \subseteq Machine
    /\ (Mounted # {}) => (BxTaskId # {} /\ Cluster # {})
    /\ OneAtATime \in BOOLEAN
    /\ MaxServers \in Nat

VARIABLES
    run,  \* run[t]: the goroutine of task t
    up    \* whether the schedulx process is running

vars == <<task, instr_record, instance, bx, machine, slb, node, deploy_err, run, up>>

cloudVars == <<bx, machine, slb>>

envVars == <<node, deploy_err>>

-----------------------------------------------------------------------------
(* The instruction groups, as TemplateSvc writes them. *)

ExpandStep == <<"bridgx.expand", "nodeact.initbase", "nodeact.initsvc", "mount.slb">>

InstanceDeployStep ==
    <<"nodeact.before_download", "nodeact.download", "nodeact.before_deploy",
      "nodeact.deploy", "nodeact.after_deploy">>

GroupLen(kind) ==
    CASE kind = "Expand" -> EndStep
      [] kind = "Shrink" -> IF EndStep = 4 THEN 2 ELSE 1
      [] OTHER -> 5

\* Mutant: the reverse template keeps the order of the template it reverses.
InstrAtSwapped(kind, i) ==
    CASE kind = "Expand" -> ExpandStep[i]
      [] kind = "Shrink" -> IF EndStep = 4 /\ i = 2 THEN "umount.slb" ELSE "bridgx.shrink"
      [] OTHER -> InstanceDeployStep[i]

InstrAt(kind, i) ==
    CASE kind = "Expand" -> ExpandStep[i]
      [] kind = "Shrink" -> IF EndStep = 4 /\ i = 1 THEN "umount.slb" ELSE "bridgx.shrink"
      [] OTHER -> InstanceDeployStep[i]

\* The status a deploy instruction looks for: the one its predecessor left.
Previous(action) ==
    CASE action = "nodeact.download"      -> "BASE"
      [] action = "nodeact.before_deploy" -> "DOWNLOAD"
      [] action = "nodeact.deploy"        -> "BEFORE_DEPLOY"
      [] OTHER -> "DEPLOY"

DeployActions == {"nodeact.before_download", "nodeact.download", "nodeact.before_deploy",
                  "nodeact.deploy", "nodeact.after_deploy"}

\* The first call of each instruction.
FirstCall(action) ==
    CASE action = "bridgx.expand"           -> "expand_call"
      [] action = "nodeact.initbase"        -> "store"
      [] action = "nodeact.initsvc"         -> "store"
      [] action = "mount.slb"               -> "mount_call"
      [] action = "umount.slb"              -> "umount_query"
      [] action = "bridgx.shrink"           -> "shrink_pick"
      [] action = "nodeact.before_download" -> "deploy_instances"
      [] OTHER                              -> "deploy_query"

Calls == {"expand_call", "expand_poll", "get_cluster", "store", "node_poll", "node_list",
          "mount_call", "mount_db", "umount_query", "umount_call", "umount_db",
          "shrink_pick", "shrink_call", "shrink_poll", "shrink_db", "deploy_instances",
          "deploy_mark", "deploy_insert", "deploy_query", "deploy_wait"}

Active == Calls \cup {"next", "relation", "finish"}

PC == Active \cup {"idle", "done", "dead"}

NewRun == [pc |-> "idle", i |-> 1, grp |-> {}, key |-> 0, bx |-> 0, err |-> FALSE]

Goto(t, pc) == run' = [run EXCEPT ![t].pc = pc]

At(t, pc) == up /\ run[t].pc = pc

Instr(t) == InstrAt(task[t].kind, run[t].i)

InstrStep(t, phase) == [instr |-> Instr(t), phase |-> phase]

Init ==
    LET b0 == CHOOSE b \in BxTaskId : \A c \in BxTaskId : b <= c
        c0 == CHOOSE c \in Cluster : TRUE
    IN  /\ task = [t \in TaskId |-> NoTask]
        /\ instr_record = [t \in TaskId |-> NoRecords]
        /\ instance = [r \in RowId |-> IF r[2] \in Mounted /\ r[1] = b0
                                       THEN [status |-> "ALB", cluster |-> c0] ELSE NoRow]
        /\ bx = [b \in BxTaskId |-> IF Mounted # {} /\ b = b0
                   THEN [kind |-> "expand", state |-> "done", machines |-> Mounted] ELSE NoBxTask]
        /\ machine = [m \in Machine |-> IF m \in Mounted
                        THEN [state |-> "running", cluster |-> c0] ELSE [state |-> None, cluster |-> 0]]
        /\ slb = Mounted
        /\ node = {}
        /\ deploy_err = {}
        /\ run = [t \in TaskId |-> NewRun]
        /\ up = TRUE

-----------------------------------------------------------------------------
(* The three entry points: a task row and, unless the instruction group of  *)
(* the template cannot be read, a goroutine for it.                         *)

CreateAndRun(t, kind, sc, cnt, isRollback) ==
    /\ up /\ kind \in Requested
    /\ run[t].pc = "idle"
    /\ \A u \in TaskId : u < t => run[u].pc # "idle"
    /\ OneAtATime => ~HasRunningTask(sc)
    /\ LET created == CreateTask(task, t, kind, sc, cnt, isRollback)
       IN  \/ task' = created /\ Goto(t, "next")
           \/ /\ kind \in Broken
              /\ task' = UpdateTaskStatus(created, t, "FAIL")
              /\ Goto(t, "done")
    /\ UNCHANGED <<instr_record, instance, cloudVars, envVars, up>>

ExpandAction(t, sc, cnt) == CreateAndRun(t, "Expand", sc, cnt, FALSE)

ShrinkAction(t, sc, cnt) == CreateAndRun(t, "Shrink", sc, cnt, FALSE)

\* The handler asks BridgX for the number of instances and refuses zero.
DeployAction(t, sc, isRollback) ==
    /\ RunningIn(sc) # {}
    /\ CreateAndRun(t, "Deploy", sc, Cardinality(RunningIn(sc)), isRollback)

-----------------------------------------------------------------------------
(* doInstr and InstrSvc.ExecAct around an instruction. *)

\* Errors of the updates of task.task_step and of the record are ignored.
WriteStep(t, phase) ==
    \E stored \in Outcomes("db") :
        task' = IF stored THEN UpdateTaskStep(task, t, InstrStep(t, phase)) ELSE task

WriteRecord(t, status) ==
    \E stored \in Outcomes("db") :
        instr_record' = IF stored THEN UpdateInstrRecord(instr_record, t, run[t].i, status)
                                  ELSE instr_record

BeginInstr(t) ==
    /\ At(t, "next")
    /\ instr_record' = CreateInstrRecord(instr_record, t, run[t].i)
    /\ WriteStep(t, "INIT")
    /\ Goto(t, FirstCall(Instr(t)))
    /\ UNCHANGED <<instance, cloudVars, envVars, up>>

\* GetInstr or createInstrRecord fails: no record to mark, the task fails.
BeginInstrFails(t) ==
    /\ At(t, "next")
    /\ "db" \in Faults
    /\ run' = [run EXCEPT ![t].pc = "finish", ![t].err = TRUE]
    /\ UNCHANGED <<task, instr_record, instance, cloudVars, envVars, up>>

\* The loop over instrGroup goes on, or ends.
Advance(t, r) == IF r.i = GroupLen(task[t].kind) THEN [r EXCEPT !.pc = "finish"]
                 ELSE [r EXCEPT !.pc = "next", !.i = @ + 1]

HasRelation(t) == Instr(t) \in {"bridgx.expand", "nodeact.initbase"}

\* The instruction returns nil; r is what it leaves to the next one.
Succeed(t, r) ==
    /\ WriteStep(t, "SUCC")
    /\ WriteRecord(t, "SUCC")
    /\ run' = [run EXCEPT ![t] = IF HasRelation(t) THEN [r EXCEPT !.pc = "relation"]
                                 ELSE Advance(t, r)]

\* Mutant: the loop goes on after an error.
FailGoesOn(t) ==
    /\ UNCHANGED task
    /\ WriteRecord(t, "FAIL")
    /\ run' = [run EXCEPT ![t] = [Advance(t, @) EXCEPT !.err = TRUE]]

\* The instruction returns an error: only the deploy ones write a step for that.
Fail(t) ==
    /\ IF Instr(t) \in DeployActions THEN WriteStep(t, "FAIL") ELSE UNCHANGED task
    /\ WriteRecord(t, "FAIL")
    /\ run' = [run EXCEPT ![t].pc = "finish", ![t].err = TRUE]

\* After an expand or a base initialisation doInstr saves the id of the related
\* task; the record of the instruction says SUCC already when that fails.
SaveRelation(t) ==
    /\ At(t, "relation")
    /\ task' = UpdateTaskRelationTaskId(task, t,
                 IF Instr(t) = "bridgx.expand" THEN "bridgx_task_id" ELSE "nodeact_task_id",
                 run[t].key)
    /\ run' = [run EXCEPT ![t] = Advance(t, @)]
    /\ UNCHANGED <<instr_record, instance, cloudVars, envVars, up>>

SaveRelationFails(t) ==
    /\ At(t, "relation")
    /\ "db" \in Faults
    /\ run' = [run EXCEPT ![t].pc = "finish", ![t].err = TRUE]
    /\ UNCHANGED <<task, instr_record, instance, cloudVars, envVars, up>>

\* Mutants: the deferred function does not look at the error, or writes the
\* status of another table.
FinalStatusAlways(r) == "SUCC"

FinalStatusForeign(r) == IF r.err THEN "FAILED" ELSE "SUCC"

\* The deferred function of the goroutine; it ignores an error of its update.
FinalStatus(r) == IF r.err THEN "FAIL" ELSE "SUCC"

Finish(t) ==
    /\ At(t, "finish")
    /\ \E stored \in Outcomes("db") :
         task' = IF stored THEN UpdateTaskStatus(task, t, FinalStatus(run[t])) ELSE task
    /\ Goto(t, "done")
    /\ UNCHANGED <<instr_record, instance, cloudVars, envVars, up>>

-----------------------------------------------------------------------------
(* bridgx.expand *)

ExpandCall(t) ==
    /\ At(t, "expand_call")
    /\ \E b \in NextBx, ms \in SUBSET FreeMachines :
         /\ ms # {} /\ Cardinality(ms) = task[t].inst_cnt
         /\ BxExpand(b, task[t].cluster, ms)
         /\ \/ /\ run' = [run EXCEPT ![t].pc = "expand_poll", ![t].bx = b]
               /\ UNCHANGED <<task, instr_record>>
            \/ "lost" \in Faults /\ Fail(t)
    /\ UNCHANGED <<instance, slb, envVars, up>>

\* The rate has reached 1: page through the running instances of the task.
ExpandPolled(t) ==
    /\ At(t, "expand_poll")
    /\ bx[run[t].bx].state = "done"
    /\ TaskInstances(run[t].bx) # {}
    /\ run' = [run EXCEPT ![t].pc = "get_cluster", ![t].key = run[t].bx,
                          ![t].grp = TaskInstances(run[t].bx)]
    /\ UNCHANGED <<task, instr_record, instance, cloudVars, envVars, up>>

GetCluster(t) ==
    /\ At(t, "get_cluster")
    /\ Succeed(t, run[t])
    /\ UNCHANGED <<instance, cloudVars, envVars, up>>

-----------------------------------------------------------------------------
(* nodeact.initbase and nodeact.initsvc *)

\* BaseEnvInitAsync and ServiceEnvInitAsync: NodeUpdateStore, then the
\* goroutines.  The caller of initsvc passes no service cluster: 0.
StoredCluster(t) == IF Instr(t) = "nodeact.initbase" THEN task[t].cluster ELSE 0

\* Mutant: the rows get the id of the schedule task, which no poll asks for.
StoreNodesUnderTask(t) ==
    /\ At(t, "store")
    /\ instance' = UpInsertInstanceBatch(run[t].grp, t, StoredCluster(t))
    /\ Spawn(t, run[t].key, run[t].grp, Target(Instr(t)))
    /\ Goto(t, "node_poll")
    /\ UNCHANGED <<task, instr_record, cloudVars, up>>

StoreNodes(t) ==
    /\ At(t, "store")
    /\ instance' = UpInsertInstanceBatch(run[t].grp, run[t].key, StoredCluster(t))
    /\ Spawn(t, run[t].key, run[t].grp, Target(Instr(t)))
    /\ Goto(t, "node_poll")
    /\ UNCHANGED <<task, instr_record, cloudVars, up>>

\* Mutant: one machine that is ready is enough.
RatePassAny(k, status) == InstsQueryByTaskId(k, status) # {}

\* Describe counts the rows of the task; the integer quotient is 1 only when
\* every row has the status.
RatePass(k, status) == InstsQueryByTaskId(k, status) = InstsOfTask(k)

NodePolled(t) ==
    /\ At(t, "node_poll")
    /\ RatePass(run[t].key, Target(Instr(t)))
    /\ Goto(t, "node_list")
    /\ UNCHANGED <<task, instr_record, instance, cloudVars, envVars, up>>

NodeListed(t) ==
    /\ At(t, "node_list")
    /\ LET ms == InstsQueryByTaskId(run[t].key, Target(Instr(t)))
       IN  /\ ms # {}
           /\ Succeed(t, [run[t] EXCEPT !.grp = ms])
    /\ UNCHANGED <<instance, cloudVars, envVars, up>>

-----------------------------------------------------------------------------
(* mount.slb and umount.slb *)

CanMount(ms) == Cardinality(ms) < MaxServers

MountCall(t) ==
    /\ At(t, "mount_call")
    /\ CanMount(run[t].grp)
    /\ slb' = slb \cup run[t].grp
    /\ \/ Goto(t, "mount_db") /\ UNCHANGED <<task, instr_record>>
       \/ "lost" \in Faults /\ Fail(t)
    /\ UNCHANGED <<instance, bx, machine, envVars, up>>

MountDb(t) ==
    /\ At(t, "mount_db")
    /\ instance' = BatchUpdateStatus(run[t].grp, run[t].key, "ALB")
    /\ Succeed(t, run[t])
    /\ UNCHANGED <<cloudVars, envVars, up>>

\* Nothing to unmount is a success, and leaves the next instruction no machines.
UmountQuery(t) ==
    /\ At(t, "umount_query")
    /\ \E rows \in QueryInstsToUmount(task[t].cluster, task[t].inst_cnt) :
         IF rows = {} THEN Succeed(t, run[t])
         ELSE /\ run' = [run EXCEPT ![t].pc = "umount_call", ![t].grp = {r[2] : r \in rows}]
              /\ UNCHANGED <<task, instr_record>>
    /\ UNCHANGED <<instance, cloudVars, envVars, up>>

UmountCall(t) ==
    /\ At(t, "umount_call")
    /\ CanMount(run[t].grp)
    /\ slb' = slb \ run[t].grp
    /\ \/ Goto(t, "umount_db") /\ UNCHANGED <<task, instr_record>>
       \/ "lost" \in Faults /\ Fail(t)
    /\ UNCHANGED <<instance, bx, machine, envVars, up>>

UmountDb(t) ==
    /\ At(t, "umount_db")
    /\ instance' = BatchUpdateStatus(run[t].grp, UmountTaskId, "UNALB")
    /\ Succeed(t, run[t])
    /\ UNCHANGED <<cloudVars, envVars, up>>

-----------------------------------------------------------------------------
(* bridgx.shrink *)

ShrinkPick(t) ==
    /\ At(t, "shrink_pick")
    /\ run' = [run EXCEPT ![t].pc = "shrink_call",
                 ![t].grp = IF @ # {} THEN @ ELSE
                   {r[2] : r \in NotDeletedInstsWithLimit(task[t].cluster, task[t].inst_cnt)}]
    /\ UNCHANGED <<task, instr_record, instance, cloudVars, envVars, up>>

\* The query's error is a new variable: the function returns it, but the deferred
\* function sees the outer one, still nil, and writes the step of a success.
ShrinkPickFails(t) ==
    /\ At(t, "shrink_pick")
    /\ "db" \in Faults /\ run[t].grp = {}
    /\ WriteStep(t, "SUCC")
    /\ WriteRecord(t, "FAIL")
    /\ run' = [run EXCEPT ![t].pc = "finish", ![t].err = TRUE]
    /\ UNCHANGED <<instance, cloudVars, envVars, up>>

ShrinkCall(t) ==
    /\ At(t, "shrink_call")
    /\ run[t].grp # {}
    /\ \E b \in NextBx :
         /\ BxShrink(b, run[t].grp)
         /\ \/ /\ run' = [run EXCEPT ![t].pc = "shrink_poll", ![t].bx = b]
               /\ UNCHANGED <<task, instr_record>>
            \/ "lost" \in Faults /\ Fail(t)
    /\ UNCHANGED <<instance, slb, envVars, up>>

ShrinkPolled(t) ==
    /\ At(t, "shrink_poll")
    /\ bx[run[t].bx].state = "done"
    /\ Goto(t, "shrink_db")
    /\ UNCHANGED <<task, instr_record, instance, cloudVars, envVars, up>>

ShrinkDb(t) ==
    /\ At(t, "shrink_db")
    /\ instance' = BatchUpdateStatusByIds(run[t].grp, "DELETED")
    /\ Succeed(t, run[t])
    /\ UNCHANGED <<cloudVars, envVars, up>>

-----------------------------------------------------------------------------
(* The deploy instructions *)

\* getBridgxInstances: the running machines of the BridgX cluster.
DeployInstances(t) ==
    /\ At(t, "deploy_instances")
    /\ RunningIn(task[t].cluster) # {}
    /\ run' = [run EXCEPT ![t].pc = "deploy_mark", ![t].grp = RunningIn(task[t].cluster)]
    /\ UNCHANGED <<task, instr_record, instance, cloudVars, envVars, up>>

\* UpInsertInstanceBatchByCluster writes twice, in no transaction.
DeployMark(t) ==
    /\ At(t, "deploy_mark")
    /\ instance' = MarkClusterDeleted(task[t].cluster)
    /\ Goto(t, "deploy_insert")
    /\ UNCHANGED <<task, instr_record, cloudVars, envVars, up>>

DeployInsert(t) ==
    /\ At(t, "deploy_insert")
    /\ CanBatchCreate(run[t].grp, t)
    /\ instance' = BatchCreate(run[t].grp, t, task[t].cluster)
    /\ Spawn(t, t, run[t].grp, Target(Instr(t)))
    /\ Goto(t, "deploy_wait")
    /\ UNCHANGED <<task, instr_record, cloudVars, up>>

\* The later instructions work on the rows their predecessor left behind.
DeployQuery(t) ==
    /\ At(t, "deploy_query")
    /\ LET ms == InstsQueryByTaskId(t, Previous(Instr(t)))
       IN  ms # {} /\ Spawn(t, t, ms, Target(Instr(t)))
    /\ Goto(t, "deploy_wait")
    /\ UNCHANGED <<task, instr_record, instance, cloudVars, up>>

\* wg.Wait returns; the error of doDeploy is the first one of its goroutines.
DeployWaited(t) ==
    /\ At(t, "deploy_wait")
    /\ InFlight(t) = {}
    /\ IF t \in deploy_err THEN Fail(t) ELSE Succeed(t, run[t])
    /\ UNCHANGED <<instance, cloudVars, envVars, up>>

-----------------------------------------------------------------------------
(* Errors.  A poll gives up after five minutes or three failed queries.     *)

Slow == "slow" \in Faults

CallRefused(t) ==
    \/ "bridgx" \in Faults /\ run[t].pc \in {"expand_call", "expand_poll", "shrink_call",
                                             "shrink_poll"}
    \/ Faults \cap {"bridgx", "auth", "db"} # {} /\ run[t].pc = "deploy_instances"
    \/ "slb" \in Faults /\ run[t].pc \in {"mount_call", "umount_call"}
    \/ "db" \in Faults /\ run[t].pc \in {"store", "mount_db", "umount_query", "umount_db",
                                "shrink_db", "deploy_mark", "deploy_insert", "deploy_query"}

\* Mutant: the select has no time.After.
PollWithoutTimer(t) ==
    \/ run[t].pc \in {"expand_poll", "shrink_poll"} /\ bx[run[t].bx].state = "failed"
    \/ run[t].pc = "node_poll" /\ InFlight(t) = {} /\ ~RatePass(run[t].key, Target(Instr(t)))

PollGivesUp(t) ==
    \/ run[t].pc \in {"expand_poll", "shrink_poll"} /\ (Slow \/ bx[run[t].bx].state = "failed")
    \/ run[t].pc = "node_poll" /\ (Slow \/ ~RatePass(run[t].key, Target(Instr(t))))
                               /\ (Slow \/ InFlight(t) = {})

ErrorReturn(t) ==
    \/ run[t].pc = "expand_call" /\ Cardinality(FreeMachines) < task[t].inst_cnt
    \/ run[t].pc = "expand_call" /\ task[t].inst_cnt <= 0
    \/ run[t].pc \in {"expand_call", "shrink_call"} /\ NextBx = {}
    \/ run[t].pc = "expand_poll" /\ bx[run[t].bx].state = "done" /\ TaskInstances(run[t].bx) = {}
    \/ run[t].pc = "node_list" /\ InstsQueryByTaskId(run[t].key, Target(Instr(t))) = {}
    \/ run[t].pc \in {"mount_call", "umount_call"} /\ ~CanMount(run[t].grp)
    \/ run[t].pc = "shrink_call" /\ run[t].grp = {}
    \/ run[t].pc = "deploy_instances" /\ RunningIn(task[t].cluster) = {}
    \/ run[t].pc = "deploy_insert" /\ ~CanBatchCreate(run[t].grp, t)
    \/ run[t].pc = "deploy_query" /\ InstsQueryByTaskId(t, Previous(Instr(t))) = {}

InstrFails(t) ==
    /\ up /\ run[t].pc \in Calls
    /\ CallRefused(t) \/ PollGivesUp(t) \/ ErrorReturn(t)
    /\ Fail(t)
    /\ UNCHANGED <<instance, cloudVars, envVars, up>>

-----------------------------------------------------------------------------
(* The process dies: every goroutine with it, and nothing resumes a task.   *)

Killed(r) == IF r.pc \in Active THEN [r EXCEPT !.pc = "dead"] ELSE r

ProcessDies ==
    /\ up' = FALSE
    /\ run' = [t \in TaskId |-> Killed(run[t])]
    /\ node' = {}
    /\ UNCHANGED <<deploy_err, instance, cloudVars>>

Crash ==
    /\ up /\ "crash" \in Faults
    /\ ProcessDies
    /\ UNCHANGED <<task, instr_record>>

\* A nil response is dereferenced in the goroutine of an expand.  The deferred
\* functions run with their errors still nil: they record a success, then the
\* process dies.  Only the one that saw GetCluster fail leaves the step alone.
TaskPanics(t) ==
    /\ \/ At(t, "get_cluster") /\ "auth" \in Faults
       \/ At(t, "node_list") /\ "db" \in Faults
    /\ \E stepped, stored \in Outcomes("db") :
         LET done == IF stepped /\ run[t].pc = "node_list"
                     THEN UpdateTaskStep(task, t, InstrStep(t, "SUCC")) ELSE task
         IN  task' = IF stored THEN UpdateTaskStatus(done, t, "SUCC") ELSE done
    /\ WriteRecord(t, "SUCC")
    /\ ProcessDies

\* The polling goroutine dereferences a nil answer of Describe: nobody recovers.
PollPanics(t) ==
    /\ At(t, "node_poll") /\ "db" \in Faults
    /\ ProcessDies
    /\ UNCHANGED <<task, instr_record>>

Restart ==
    /\ ~up
    /\ up' = TRUE
    /\ UNCHANGED <<task, instr_record, instance, cloudVars, envVars, run>>

-----------------------------------------------------------------------------
RunStep(t) ==
    \/ BeginInstr(t) \/ BeginInstrFails(t) \/ SaveRelation(t) \/ SaveRelationFails(t)
    \/ ExpandCall(t) \/ ExpandPolled(t) \/ GetCluster(t)
    \/ StoreNodes(t) \/ NodePolled(t) \/ NodeListed(t)
    \/ MountCall(t) \/ MountDb(t) \/ UmountQuery(t) \/ UmountCall(t) \/ UmountDb(t)
    \/ ShrinkPick(t) \/ ShrinkPickFails(t) \/ ShrinkCall(t) \/ ShrinkPolled(t) \/ ShrinkDb(t)
    \/ DeployInstances(t) \/ DeployMark(t) \/ DeployInsert(t) \/ DeployQuery(t) \/ DeployWaited(t)
    \/ InstrFails(t) \/ Finish(t)

NodeStep(g) == NodeReturns(g) /\ UNCHANGED <<cloudVars, run, up>>

BxStep(b) ==
    /\ \E upMachines \in SUBSET bx[b].machines :
         /\ "bridgx" \in Faults \/ upMachines = bx[b].machines
         /\ BxFinish(b, upMachines)
    /\ UNCHANGED <<task, instr_record, instance, slb, envVars, run, up>>

Request ==
    \E t \in TaskId, sc \in Cluster :
        \/ \E cnt \in Counts : ExpandAction(t, sc, cnt) \/ ShrinkAction(t, sc, cnt)
        \/ \E isRollback \in BOOLEAN : DeployAction(t, sc, isRollback)

Panic == \E t \in TaskId : TaskPanics(t) \/ PollPanics(t)

\* With no task to execute the server waits for callers, who may never come.
Idle ==
    /\ up /\ \A t \in TaskId : run[t].pc \notin Active
    /\ UNCHANGED vars

Next ==
    \/ Request
    \/ \E t \in TaskId : RunStep(t)
    \/ \E g \in node : NodeStep(g)
    \/ \E b \in BxTaskId : BxStep(b)
    \/ Panic \/ Crash \/ Restart \/ Idle

Spec == Init /\ [][Next]_vars

TypeOK ==
    /\ RepositoryTypeOK
    /\ CloudTypeOK
    /\ EnvTypeOK
    /\ run \in [TaskId -> [pc : PC, i : 1..MaxInstr, grp : SUBSET Machine, key : BxTaskId \cup {0},
                           bx : BxTaskId \cup {0}, err : BOOLEAN]]
    /\ up \in BOOLEAN
=============================================================================
