------------------------ MODULE ScheduleSvc_proofs -------------------------
(***************************************************************************)
(* Proofs about the scheduler, for any number of tasks, machines and       *)
(* service clusters and whatever fails.                                    *)
(***************************************************************************)
EXTENDS ScheduleProps, TLAPS, FiniteSetTheorems

RunRec == [pc : PC, i : 1..MaxInstr, grp : SUBSET Machine, key : BxTaskId \cup {0},
           bx : BxTaskId \cup {0}, err : BOOLEAN]

\* The calls an instruction makes.
CallsOf(action) ==
    CASE action = "bridgx.expand" -> {"expand_call", "expand_poll", "get_cluster"}
      [] action \in {"nodeact.initbase", "nodeact.initsvc"} -> {"store", "node_poll", "node_list"}
      [] action = "mount.slb" -> {"mount_call", "mount_db"}
      [] action = "umount.slb" -> {"umount_query", "umount_call", "umount_db"}
      [] action = "bridgx.shrink" -> {"shrink_pick", "shrink_call", "shrink_poll", "shrink_db"}
      [] action = "nodeact.before_download" ->
            {"deploy_instances", "deploy_mark", "deploy_insert", "deploy_wait"}
      [] OTHER -> {"deploy_query", "deploy_wait"}

(* A goroutine is where its instruction may have brought it, within its      *)
(* group, and knows the BridgX task whose machines it works on.              *)
Consistent(r, kind) ==
    /\ r.i <= GroupLen(kind)
    /\ r.pc = "idle" => r.i = 1
    /\ r.pc \in Calls => r.pc \in CallsOf(InstrAt(kind, r.i))
    /\ r.pc = "relation" => kind = "Expand"
    /\ (kind = "Expand" /\ (r.i > 1 \/ r.pc \in {"get_cluster", "relation"})) => r.key \in BxTaskId
    /\ r.pc \in {"expand_poll", "shrink_poll"} => r.bx \in BxTaskId

Control == \A t \in TaskId : Consistent(run[t], task[t].kind)

IInv == TypeOK /\ Control

-----------------------------------------------------------------------------
(* The instruction groups *)

LEMMA GroupLenType == \A kind : GroupLen(kind) \in 1..MaxInstr
  BY TemplateAssumption DEF GroupLen, MaxInstr

LEMMA InstrAtType ==
  ASSUME NEW kind, NEW i \in 1..MaxInstr, i <= GroupLen(kind)
  PROVE  InstrAt(kind, i) \in Action
<1>1. CASE kind = "Expand"
  <2>1. i \in 1..4
    BY <1>1, TemplateAssumption DEF GroupLen, MaxInstr
  <2> QED
    BY <1>1, <2>1 DEF InstrAt, ExpandStep, Action
<1>2. CASE kind = "Shrink"
  BY <1>2 DEF InstrAt, Action
<1>3. CASE kind \notin {"Expand", "Shrink"}
  BY <1>3 DEF InstrAt, InstanceDeployStep, Action, MaxInstr
<1> QED
  BY <1>1, <1>2, <1>3

\* Only an expand initialises nodes, and not with its first instruction.
LEMMA InitNodesIsExpand ==
  ASSUME NEW kind, NEW i \in 1..MaxInstr, i <= GroupLen(kind),
         InstrAt(kind, i) \in {"nodeact.initbase", "nodeact.initsvc"}
  PROVE  kind = "Expand" /\ i > 1
<1>1. CASE kind = "Expand"
  BY <1>1 DEF InstrAt, ExpandStep, MaxInstr
<1>2. CASE kind = "Shrink"
  BY <1>2 DEF InstrAt
<1>3. CASE kind \notin {"Expand", "Shrink"}
  BY <1>3 DEF InstrAt, InstanceDeployStep, MaxInstr
<1> QED
  BY <1>1, <1>2, <1>3

LEMMA RelationIsExpand ==
  ASSUME NEW kind, NEW i \in 1..MaxInstr,
         InstrAt(kind, i) \in {"bridgx.expand", "nodeact.initbase"}
  PROVE  kind = "Expand"
<1>1. CASE kind = "Shrink"
  BY <1>1 DEF InstrAt
<1>2. CASE kind \notin {"Expand", "Shrink"}
  BY <1>2 DEF InstrAt, InstanceDeployStep, MaxInstr
<1> QED
  BY <1>1, <1>2

LEMMA FirstCallOfInstr ==
  ASSUME NEW action \in Action
  PROVE  /\ FirstCall(action) \in CallsOf(action) \cap Calls
         /\ FirstCall(action) \notin {"get_cluster", "expand_poll", "shrink_poll"}
  BY DEF Action, FirstCall, CallsOf, Calls


-----------------------------------------------------------------------------
(* The tables *)

TasksOK == task \in [TaskId -> TaskRow]

RecordsOK == instr_record \in [TaskId -> [1..MaxInstr -> InstrRecStatus \cup {None}]]

RowsOK == instance \in [RowId -> InstanceRow]

RunsOK == run \in [TaskId -> RunRec]

LEMMA TypeParts == TypeOK <=> /\ TasksOK /\ RecordsOK /\ RowsOK
                              /\ CloudTypeOK /\ EnvTypeOK
                              /\ RunsOK /\ up \in BOOLEAN
  BY DEF TypeOK, RepositoryTypeOK, TasksOK, RecordsOK, RowsOK, RunsOK, RunRec

\* A task keeps its kind.
SameKinds == \A t \in TaskId : task'[t].kind = task[t].kind

LEMMA InstrType ==
  ASSUME IInv, NEW t \in TaskId
  PROVE  Instr(t) \in Action
  BY InstrAtType, TypeParts DEF IInv, Control, Consistent, RunsOK, RunRec, Instr

LEMMA StepType ==
  ASSUME NEW tbl \in [TaskId -> TaskRow], NEW t \in TaskId, NEW step \in TaskStep
  PROVE  /\ UpdateTaskStep(tbl, t, step) \in [TaskId -> TaskRow]
         /\ \A u \in TaskId : UpdateTaskStep(tbl, t, step)[u].kind = tbl[u].kind
  BY DEF UpdateTaskStep, TaskRow

LEMMA StatusType ==
  ASSUME NEW tbl \in [TaskId -> TaskRow], NEW t \in TaskId, NEW status \in TaskStatus
  PROVE  /\ UpdateTaskStatus(tbl, t, status) \in [TaskId -> TaskRow]
         /\ \A u \in TaskId : UpdateTaskStatus(tbl, t, status)[u].kind = tbl[u].kind
  BY DEF UpdateTaskStatus, TaskRow

LEMMA WriteStepType ==
  ASSUME IInv, NEW t \in TaskId, NEW phase \in {"INIT", "SUCC", "FAIL"}, WriteStep(t, phase)
  PROVE  TasksOK' /\ SameKinds
<1>1. InstrStep(t, phase) \in TaskStep
  BY InstrType DEF InstrStep, TaskStep
<1>2. task \in [TaskId -> TaskRow]
  BY TypeParts DEF IInv, TasksOK
<1>3. PICK stored \in Outcomes("db") :
        task' = IF stored THEN UpdateTaskStep(task, t, InstrStep(t, phase)) ELSE task
  BY DEF WriteStep
<1> QED
  BY <1>1, <1>2, <1>3, StepType DEF TasksOK, SameKinds

LEMMA WriteRecordType ==
  ASSUME IInv, NEW t \in TaskId, NEW status \in InstrRecStatus, WriteRecord(t, status)
  PROVE  RecordsOK'
<1>1. instr_record \in [TaskId -> [1..MaxInstr -> InstrRecStatus \cup {None}]]
      /\ run[t].i \in 1..MaxInstr
  BY TypeParts DEF IInv, RecordsOK, RunsOK, RunRec
<1> QED
  BY <1>1 DEF WriteRecord, UpdateInstrRecord, RecordsOK

\* The operators on the table instance.
LEMMA InstanceOpsType ==
  ASSUME RowsOK, NEW ms, NEW k, NEW m, NEW sc \in Cluster \cup {0},
         NEW status \in InstanceStatus
  PROVE  /\ UpInsertInstanceBatch(ms, k, sc) \in [RowId -> InstanceRow]
         /\ MarkClusterDeleted(sc) \in [RowId -> InstanceRow]
         /\ BatchCreate(ms, k, sc) \in [RowId -> InstanceRow]
         /\ UpdateInst(k, m, status) \in [RowId -> InstanceRow]
         /\ BatchUpdateStatus(ms, k, status) \in [RowId -> InstanceRow]
         /\ BatchUpdateStatusByIds(ms, status) \in [RowId -> InstanceRow]
<1>1. NewRow(sc) \in InstanceRow
  BY DEF NewRow, InstanceRow, InstanceStatus
<1>2. \A r \in RowId : /\ instance[r] \in InstanceRow
                       /\ [instance[r] EXCEPT !.status = status] \in InstanceRow
                       /\ [instance[r] EXCEPT !.status = "DELETED"] \in InstanceRow
  BY DEF RowsOK, InstanceRow, InstanceStatus
<1> QED
  BY <1>1, <1>2 DEF UpInsertInstanceBatch, MarkClusterDeleted, BatchCreate, UpdateInst,
                    BatchUpdateStatus, BatchUpdateStatusByIds

\* Queries return machines.
LEMMA QueriesType ==
  /\ \A k : InstsOfTask(k) \subseteq Machine
  /\ \A k, status : InstsQueryByTaskId(k, status) \subseteq Machine
  /\ \A sc : RunningIn(sc) \subseteq Machine
  /\ \A sc, n : {r[2] : r \in NotDeletedInstsWithLimit(sc, n)} \subseteq Machine
  /\ \A sc, n : \A rows \in QueryInstsToUmount(sc, n) : {r[2] : r \in rows} \subseteq Machine
<1>1. \A r \in RowId : r[2] \in Machine
  BY DEF RowId
<1> QED
  BY <1>1 DEF InstsOfTask, InstsQueryByTaskId, RunningIn, NotDeletedInstsWithLimit,
              QueryInstsToUmount, RowsToUmount, RowsOfCluster

-----------------------------------------------------------------------------
(* Steps of a goroutine *)

LEMMA SetRun ==
  ASSUME IInv, SameKinds, NEW t \in TaskId, NEW r \in RunRec,
         Consistent(r, task[t].kind), run' = [run EXCEPT ![t] = r]
  PROVE  RunsOK' /\ Control'
<1>1. run \in [TaskId -> RunRec]
  BY TypeParts DEF IInv, RunsOK
<1>2. \A u \in TaskId : Consistent(run'[u], task'[u].kind)
  BY <1>1 DEF IInv, Control, SameKinds
<1> QED
  BY <1>1, <1>2 DEF RunsOK, Control

\* From the second instruction on an expand knows its BridgX task.
LEMMA KeyKnown ==
  ASSUME NEW r \in RunRec, NEW kind, Consistent(r, kind),
         r.pc \in Calls \ {"expand_call", "expand_poll"}, kind = "Expand"
  PROVE  r.key \in BxTaskId
<1>1. r.i \in 1..4
  BY TemplateAssumption DEF Consistent, RunRec, GroupLen, MaxInstr
<1>2. CASE r.i = 1
  <2>1. InstrAt(kind, r.i) = "bridgx.expand"
    BY <1>2 DEF InstrAt, ExpandStep
  <2>2. r.pc = "get_cluster"
    BY <2>1 DEF Consistent, CallsOf
  <2> QED
    BY <2>2 DEF Consistent
<1> QED
  BY <1>1, <1>2 DEF Consistent

LEMMA AdvanceType ==
  ASSUME IInv, NEW t \in TaskId, NEW r \in RunRec, r.i <= GroupLen(task[t].kind),
         task[t].kind = "Expand" => r.key \in BxTaskId
  PROVE  Advance(t, r) \in RunRec /\ Consistent(Advance(t, r), task[t].kind)
<1> DEFINE kind == task[t].kind
<1>1. GroupLen(kind) \in 1..MaxInstr
  BY GroupLenType
<1>2. CASE r.i = GroupLen(kind)
  BY <1>1, <1>2 DEF Advance, RunRec, Consistent, PC, Active, Calls
<1>3. CASE r.i # GroupLen(kind)
  <2>1. r.i + 1 \in 1..MaxInstr /\ r.i + 1 <= GroupLen(kind)
    BY <1>1, <1>3 DEF RunRec, MaxInstr
  <2>2. Advance(t, r) = [r EXCEPT !.pc = "next", !.i = r.i + 1]
    BY <1>3 DEF Advance
  <2> QED
    BY <2>1, <2>2 DEF RunRec, Consistent, PC, Active, Calls
<1> QED
  BY <1>2, <1>3

LEMMA SucceedType ==
  ASSUME IInv, NEW t \in TaskId, NEW r \in RunRec, r.i = run[t].i,
         task[t].kind = "Expand" => r.key \in BxTaskId, Succeed(t, r)
  PROVE  TasksOK' /\ RecordsOK' /\ RunsOK' /\ Control'
<1>1. TasksOK' /\ SameKinds
  BY WriteStepType DEF Succeed
<1>2. RecordsOK'
  BY WriteRecordType DEF Succeed, InstrRecStatus
<1>3. r.i <= GroupLen(task[t].kind)
  BY DEF IInv, Control, Consistent
<1>4. CASE HasRelation(t)
  <2>1. task[t].kind = "Expand"
    BY <1>4, RelationIsExpand DEF HasRelation, Instr, RunRec
  <2> DEFINE q == [r EXCEPT !.pc = "relation"]
  <2>2. q \in RunRec /\ Consistent(q, task[t].kind)
    BY <2>1, <1>3 DEF RunRec, Consistent, PC, Active, Calls
  <2>3. run' = [run EXCEPT ![t] = q]
    BY <1>4 DEF Succeed
  <2> QED
    BY <1>1, <1>2, <2>2, <2>3, SetRun
<1>5. CASE ~HasRelation(t)
  <2>1. run' = [run EXCEPT ![t] = Advance(t, r)]
    BY <1>5 DEF Succeed
  <2> QED
    BY <1>1, <1>2, <1>3, <2>1, AdvanceType, SetRun
<1> QED
  BY <1>4, <1>5

LEMMA FinishConsistent ==
  ASSUME NEW r \in RunRec, NEW kind, Consistent(r, kind), NEW err \in BOOLEAN,
         NEW pc \in {"finish", "done", "dead"}
  PROVE  /\ [r EXCEPT !.pc = pc, !.err = err] \in RunRec
         /\ Consistent([r EXCEPT !.pc = pc, !.err = err], kind)
         /\ [r EXCEPT !.pc = pc] \in RunRec
         /\ Consistent([r EXCEPT !.pc = pc], kind)
  BY DEF RunRec, Consistent, PC, Active, Calls

LEMMA RunFacts ==
  ASSUME IInv, NEW t \in TaskId
  PROVE  run[t] \in RunRec /\ Consistent(run[t], task[t].kind)
  BY TypeParts DEF IInv, Control, RunsOK

LEMMA RunErrs ==
  ASSUME IInv, SameKinds, NEW t \in TaskId, run' = [run EXCEPT ![t].pc = "finish", ![t].err = TRUE]
  PROVE  RunsOK' /\ Control'
<1> DEFINE q == [run[t] EXCEPT !.pc = "finish", !.err = TRUE]
<1>1. q \in RunRec /\ Consistent(q, task[t].kind)
  BY RunFacts, FinishConsistent
<1>2. run' = [run EXCEPT ![t] = q]
  BY TypeParts DEF IInv, RunsOK, RunRec
<1> QED
  BY <1>1, <1>2, SetRun

LEMMA FailType ==
  ASSUME IInv, NEW t \in TaskId, Fail(t)
  PROVE  TasksOK' /\ RecordsOK' /\ RunsOK' /\ Control'
<1>1. TasksOK' /\ SameKinds
  BY WriteStepType, TypeParts DEF Fail, IInv, TasksOK, SameKinds
<1>2. RecordsOK'
  BY WriteRecordType DEF Fail, InstrRecStatus
<1> QED
  BY <1>1, <1>2, RunErrs DEF Fail

\* Which instruction a call belongs to.
LEMMA PcInstr ==
  ASSUME IInv, NEW t \in TaskId
  PROVE  LET pc == run[t].pc IN
         /\ pc \in {"expand_call", "expand_poll", "get_cluster"} => Instr(t) = "bridgx.expand"
         /\ pc \in {"store", "node_poll", "node_list"} =>
               Instr(t) \in {"nodeact.initbase", "nodeact.initsvc"}
         /\ pc \in {"mount_call", "mount_db"} => Instr(t) = "mount.slb"
         /\ pc \in {"umount_query", "umount_call", "umount_db"} => Instr(t) = "umount.slb"
         /\ pc \in {"shrink_pick", "shrink_call", "shrink_poll", "shrink_db"} =>
               Instr(t) = "bridgx.shrink"
         /\ pc \in {"deploy_instances", "deploy_mark", "deploy_insert"} =>
               Instr(t) = "nodeact.before_download"
         /\ pc = "deploy_query" =>
               Instr(t) \in DeployActions \ {"nodeact.before_download"}
         /\ pc = "deploy_wait" => Instr(t) \in DeployActions
<1>1. Instr(t) \in Action /\ Consistent(run[t], task[t].kind)
  BY InstrType, RunFacts
<1>2. run[t].pc \in Calls => run[t].pc \in CallsOf(Instr(t))
  BY <1>1 DEF Consistent, Instr
<1> QED
  BY <1>1, <1>2 DEF CallsOf, Action, DeployActions, Calls

\* The next call of the same instruction, with other machines.
LEMMA NextCallType ==
  ASSUME IInv, SameKinds, NEW t \in TaskId, run[t].pc \in Calls,
         NEW pc \in CallsOf(Instr(t)) \cap Calls, pc \notin {"get_cluster", "expand_poll", "shrink_poll"},
         NEW grp \in SUBSET Machine
  PROVE  /\ run' = [run EXCEPT ![t].pc = pc, ![t].grp = grp] => RunsOK' /\ Control'
         /\ Goto(t, pc) => RunsOK' /\ Control'
<1> DEFINE q == [run[t] EXCEPT !.pc = pc, !.grp = grp]
           q2 == [run[t] EXCEPT !.pc = pc]
<1>1. run[t] \in RunRec /\ Consistent(run[t], task[t].kind)
  BY RunFacts
<1>2. q \in RunRec /\ q2 \in RunRec
  BY <1>1 DEF RunRec, PC, Active
<1>3. Consistent(q, task[t].kind) /\ Consistent(q2, task[t].kind)
  BY <1>1 DEF Consistent, Instr, Calls, RunRec
<1>4. ASSUME run' = [run EXCEPT ![t].pc = pc, ![t].grp = grp]
      PROVE  run' = [run EXCEPT ![t] = q]
  BY <1>4, TypeParts DEF IInv, RunsOK, RunRec
<1>5. ASSUME Goto(t, pc)
      PROVE  run' = [run EXCEPT ![t] = q2]
  BY <1>5, TypeParts DEF IInv, RunsOK, RunRec, Goto
<1> QED
  BY <1>2, <1>3, <1>4, <1>5, SetRun

LEMMA EndCallType ==
  ASSUME IInv, SameKinds, NEW t \in TaskId, NEW pc \in {"finish", "done", "dead"}, Goto(t, pc)
  PROVE  RunsOK' /\ Control'
<1> DEFINE q == [run[t] EXCEPT !.pc = pc]
<1>1. q \in RunRec /\ Consistent(q, task[t].kind)
  BY RunFacts, FinishConsistent
<1>2. run' = [run EXCEPT ![t] = q]
  BY TypeParts DEF IInv, RunsOK, RunRec, Goto
<1> QED
  BY <1>1, <1>2, SetRun

LEMMA SpawnType ==
  ASSUME IInv, NEW t \in TaskId, NEW k \in Key, NEW ms \in SUBSET Machine,
         NEW target \in Targets, Spawn(t, k, ms, target)
  PROVE  EnvTypeOK'
<1>1. node \subseteq Goroutine /\ deploy_err \subseteq TaskId
  BY TypeParts DEF IInv, EnvTypeOK
<1>2. \A m \in ms : [task |-> t, key |-> k, inst |-> m, target |-> target] \in Goroutine
  BY DEF Goroutine
<1> QED
  BY <1>1, <1>2 DEF Spawn, EnvTypeOK

LEMMA TargetType ==
  \A action \in DeployActions \cup {"nodeact.initbase", "nodeact.initsvc"} : Target(action) \in Targets
  BY DEF DeployActions, Target, Targets

LEMMA RowsUnchanged == ASSUME IInv, UNCHANGED instance PROVE RowsOK'
  BY TypeParts DEF IInv, RowsOK

LEMMA TasksUnchanged == ASSUME IInv, UNCHANGED task PROVE TasksOK' /\ SameKinds
  BY TypeParts DEF IInv, TasksOK, SameKinds

LEMMA RecordsUnchanged == ASSUME IInv, UNCHANGED instr_record PROVE RecordsOK'
  BY TypeParts DEF IInv, RecordsOK

LEMMA CloudUnchanged == ASSUME IInv, UNCHANGED cloudVars PROVE CloudTypeOK'
  BY TypeParts DEF IInv, CloudTypeOK, cloudVars

LEMMA EnvUnchanged == ASSUME IInv, UNCHANGED envVars PROVE EnvTypeOK'
  BY TypeParts DEF IInv, EnvTypeOK, envVars

LEMMA UpUnchanged == ASSUME IInv, UNCHANGED up PROVE up' \in BOOLEAN
  BY TypeParts DEF IInv

\* What stays the same keeps its type, together.
LEMMA Unchanged ==
  ASSUME IInv
  PROVE  /\ UNCHANGED instance => RowsOK'
         /\ UNCHANGED task => TasksOK' /\ SameKinds
         /\ UNCHANGED instr_record => RecordsOK'
         /\ UNCHANGED cloudVars => CloudTypeOK'
         /\ UNCHANGED envVars => EnvTypeOK'
         /\ UNCHANGED up => up' \in BOOLEAN
  BY RowsUnchanged, TasksUnchanged, RecordsUnchanged, CloudUnchanged, EnvUnchanged, UpUnchanged

LEMMA CloudOpsType ==
  ASSUME CloudTypeOK, NEW b \in BxTaskId, NEW ms \in SUBSET Machine, NEW sc \in Cluster \cup {0}
  PROVE  /\ BxExpand(b, sc, ms) /\ UNCHANGED slb => CloudTypeOK'
         /\ BxShrink(b, ms) /\ UNCHANGED slb => CloudTypeOK'
         /\ BxFinish(b, ms) /\ UNCHANGED slb => CloudTypeOK'
<1> USE DEF CloudTypeOK, BxKinds, BxStates
<1>1. ASSUME BxExpand(b, sc, ms), UNCHANGED slb PROVE CloudTypeOK'
  <2>1. bx' \in [BxTaskId -> [kind : BxKinds \cup {None}, state : BxStates \cup {None},
                              machines : SUBSET Machine]]
    BY <1>1 DEF BxExpand
  <2>2. machine' \in [Machine -> [state : {"pending", "running", "gone", None},
                                  cluster : Cluster \cup {0}]]
    BY <1>1 DEF BxExpand
  <2> QED
    BY <1>1, <2>1, <2>2
<1>2. ASSUME BxShrink(b, ms), UNCHANGED slb PROVE CloudTypeOK'
  BY <1>2 DEF BxShrink
<1>3. ASSUME BxFinish(b, ms), UNCHANGED slb PROVE CloudTypeOK'
  <2>1. bx' \in [BxTaskId -> [kind : BxKinds \cup {None}, state : BxStates \cup {None},
                              machines : SUBSET Machine]]
    BY <1>3 DEF BxFinish
  <2>2. machine' \in [Machine -> [state : {"pending", "running", "gone", None},
                                  cluster : Cluster \cup {0}]]
    BY <1>3 DEF BxFinish
  <2> QED
    BY <1>3, <2>1, <2>2
<1> QED
  BY <1>1, <1>2, <1>3

-----------------------------------------------------------------------------
(* The inductive invariant holds at first. *)

LEMMA InitIInv == Init => IInv
<1> SUFFICES ASSUME Init PROVE IInv
  OBVIOUS
<1>1. TasksOK /\ RecordsOK
  BY DEF Init, TasksOK, RecordsOK, TaskRow, NoTask, NoRecords, StepInit, TaskStep
<1>2. RowsOK /\ CloudTypeOK
  <2> DEFINE b0 == CHOOSE b \in BxTaskId : \A c \in BxTaskId : b <= c
             c0 == CHOOSE c \in Cluster : TRUE
  <2>1. Mounted # {} => c0 \in Cluster
    BY TemplateAssumption
  <2>2. RowsOK
    <3>1. \A r \in RowId : r[2] \in Mounted => [status |-> "ALB", cluster |-> c0] \in InstanceRow
      BY <2>1 DEF InstanceRow, InstanceStatus
    <3>2. NoRow \in InstanceRow
      BY DEF NoRow, InstanceRow
    <3>3. instance = [r \in RowId |-> IF r[2] \in Mounted /\ r[1] = b0
                                      THEN [status |-> "ALB", cluster |-> c0] ELSE NoRow]
      BY DEF Init
    <3> QED
      BY <3>1, <3>2, <3>3 DEF RowsOK
  <2>3. bx \in [BxTaskId -> [kind : BxKinds \cup {None}, state : BxStates \cup {None},
                             machines : SUBSET Machine]]
    BY TemplateAssumption DEF Init, NoBxTask, BxKinds, BxStates
  <2>4. machine \in [Machine -> [state : {"pending", "running", "gone", None},
                                 cluster : Cluster \cup {0}]]
    <3>1. machine = [m \in Machine |-> IF m \in Mounted THEN [state |-> "running", cluster |-> c0]
                                       ELSE [state |-> None, cluster |-> 0]]
      BY DEF Init
    <3> QED
      BY <2>1, <3>1
  <2> QED
    BY <2>2, <2>3, <2>4, TemplateAssumption DEF CloudTypeOK, Init
<1>3. EnvTypeOK /\ up \in BOOLEAN
  BY DEF Init, EnvTypeOK
<1>4. NewRun \in RunRec
  BY DEF NewRun, RunRec, PC, MaxInstr
<1>5. \A kind : Consistent(NewRun, kind)
  <2>1. \A kind : 1 <= GroupLen(kind)
    BY GroupLenType
  <2> QED
    BY <2>1 DEF Consistent, NewRun, Calls
<1>6. RunsOK /\ Control
  BY <1>4, <1>5 DEF Init, RunsOK, Control
<1> QED
  BY <1>1, <1>2, <1>3, <1>6, TypeParts DEF IInv

-----------------------------------------------------------------------------
(* Every step keeps it: requests and the frame of an instruction. *)

LEMMA NextParts ==
  ASSUME TasksOK', RecordsOK', RowsOK', CloudTypeOK', EnvTypeOK', RunsOK', Control', up' \in BOOLEAN
  PROVE  IInv'
  BY DEF IInv, TypeOK, RepositoryTypeOK, TasksOK, RecordsOK, RowsOK, RunsOK, RunRec

LEMMA CountType == \A sc : Cardinality(RunningIn(sc)) \in Int
<1>1. \A sc : IsFiniteSet(RunningIn(sc))
  BY QueriesType, IdAssumption, FS_Subset
<1> QED
  BY <1>1, FS_CardinalityType

LEMMA CreateType ==
  ASSUME IInv, NEW t \in TaskId, NEW kind, NEW sc \in Cluster, NEW cnt \in Int,
         NEW isRollback \in BOOLEAN, CreateAndRun(t, kind, sc, cnt, isRollback)
  PROVE  IInv'
<1>1. kind \in Kinds
  BY TemplateAssumption DEF CreateAndRun
<1> DEFINE created == CreateTask(task, t, kind, sc, cnt, isRollback)
<1>0. PICK pc \in {"next", "done"} : Goto(t, pc)
  BY DEF CreateAndRun
<1> DEFINE q == [run[t] EXCEPT !.pc = pc]
<1>2. created \in [TaskId -> TaskRow]
  BY <1>1, TypeParts DEF IInv, TasksOK, CreateTask, NoTask, TaskRow, TaskStatus, StepInit, TaskStep
<1>3. TasksOK'
  BY <1>2, StatusType DEF CreateAndRun, TasksOK, TaskStatus
<1>4. \A u \in TaskId \ {t} : task'[u] = task[u]
  BY TypeParts DEF IInv, TasksOK, CreateAndRun, CreateTask, UpdateTaskStatus
<1>5. run \in [TaskId -> RunRec] /\ run[t].pc = "idle" /\ Consistent(run[t], task[t].kind)
  BY RunFacts, TypeParts DEF IInv, RunsOK, CreateAndRun
<1>6. run' = [run EXCEPT ![t] = q]
  BY <1>5, <1>0 DEF Goto, RunRec
<1>7. q \in RunRec
  BY <1>5 DEF RunRec, PC, Active
<1>8. \A k : Consistent(q, k)
  <2>1. q.i = 1 /\ q.pc \in {"done", "next"}
    BY <1>5 DEF Consistent, RunRec
  <2>2. \A k : 1 <= GroupLen(k)
    BY GroupLenType
  <2> QED
    BY <2>1, <2>2 DEF Consistent, Calls
<1>9. RunsOK' /\ Control'
  <2>1. \A u \in TaskId : Consistent(run'[u], task'[u].kind)
    BY <1>4, <1>5, <1>6, <1>8 DEF IInv, Control
  <2> QED
    BY <2>1, <1>5, <1>6, <1>7 DEF RunsOK, Control
<1> QED
  BY <1>3, <1>9, Unchanged, NextParts DEF CreateAndRun

LEMMA RequestType == ASSUME IInv, Request PROVE IInv'
<1>1. PICK t \in TaskId, sc \in Cluster :
        \/ \E cnt \in Counts : ExpandAction(t, sc, cnt) \/ ShrinkAction(t, sc, cnt)
        \/ \E isRollback \in BOOLEAN : DeployAction(t, sc, isRollback)
  BY DEF Request
<1>2. \A cnt \in Counts : cnt \in Int
  BY TemplateAssumption
<1> QED
  BY <1>1, <1>2, CountType, CreateType DEF ExpandAction, ShrinkAction, DeployAction

LEMMA BeginType ==
  ASSUME IInv, NEW t \in TaskId, BeginInstr(t)
  PROVE  IInv'
<1>1. TasksOK' /\ SameKinds
  BY WriteStepType DEF BeginInstr
<1>2. RecordsOK'
  BY TypeParts DEF IInv, RecordsOK, RunsOK, RunRec, BeginInstr, CreateInstrRecord, InstrRecStatus
<1>3. Instr(t) \in Action
  BY InstrType
<1> DEFINE pc == FirstCall(Instr(t))
           q == [run[t] EXCEPT !.pc = pc]
<1>4. /\ pc \in CallsOf(Instr(t)) \cap Calls
      /\ pc \notin {"get_cluster", "expand_poll", "shrink_poll"}
  BY <1>3, FirstCallOfInstr
<1>5. run[t] \in RunRec /\ Consistent(run[t], task[t].kind)
  BY RunFacts
<1>6. q \in RunRec
  BY <1>4, <1>5 DEF RunRec, PC, Active
<1>7. Consistent(q, task[t].kind)
  BY <1>4, <1>5 DEF Consistent, Instr, Calls, RunRec
<1>8. run' = [run EXCEPT ![t] = q]
  BY TypeParts DEF BeginInstr, Goto, IInv, RunsOK, RunRec
<1>9. RunsOK' /\ Control'
  BY <1>1, <1>6, <1>7, <1>8, SetRun
<1> QED
  BY <1>1, <1>2, <1>9, Unchanged, NextParts DEF BeginInstr

LEMMA RelationType ==
  ASSUME IInv, NEW t \in TaskId, SaveRelation(t)
  PROVE  IInv'
<1>1. run[t] \in RunRec /\ Consistent(run[t], task[t].kind) /\ run[t].pc = "relation"
  BY RunFacts DEF SaveRelation, At
<1>2. run[t].key \in BxTaskId
  BY <1>1 DEF Consistent
<1>3. TasksOK' /\ SameKinds
  BY <1>2, TypeParts DEF IInv, TasksOK, SameKinds, SaveRelation, UpdateTaskRelationTaskId, TaskRow
<1>4. RunsOK' /\ Control'
  BY <1>1, <1>2, <1>3, AdvanceType, SetRun DEF SaveRelation, Consistent
<1> QED
  BY <1>3, <1>4, Unchanged, NextParts DEF SaveRelation

LEMMA FinishType ==
  ASSUME IInv, NEW t \in TaskId, Finish(t)
  PROVE  IInv'
<1>1. task \in [TaskId -> TaskRow] /\ FinalStatus(run[t]) \in TaskStatus
  BY TypeParts DEF IInv, TasksOK, FinalStatus, TaskStatus
<1>2. TasksOK' /\ SameKinds
  BY <1>1, StatusType DEF Finish, TasksOK, SameKinds
<1>3. RunsOK' /\ Control'
  BY <1>2, EndCallType DEF Finish
<1> QED
  BY <1>2, <1>3, Unchanged, NextParts DEF Finish

LEMMA ErrsType ==
  ASSUME IInv, NEW t \in TaskId, BeginInstrFails(t) \/ SaveRelationFails(t)
  PROVE  IInv'
<1>1. TasksOK' /\ SameKinds /\ RecordsOK' /\ RowsOK' /\ CloudTypeOK' /\ EnvTypeOK' /\ up' \in BOOLEAN
  BY Unchanged DEF BeginInstrFails, SaveRelationFails
<1>2. RunsOK' /\ Control'
  BY <1>1, RunErrs DEF BeginInstrFails, SaveRelationFails
<1> QED
  BY <1>1, <1>2, NextParts

LEMMA InstrFailsType ==
  ASSUME IInv, NEW t \in TaskId, InstrFails(t)
  PROVE  IInv'
<1>1. TasksOK' /\ RecordsOK' /\ RunsOK' /\ Control'
  BY FailType DEF InstrFails
<1>2. RowsOK' /\ CloudTypeOK' /\ EnvTypeOK' /\ up' \in BOOLEAN
  BY Unchanged DEF InstrFails
<1> QED
  BY <1>1, <1>2, NextParts

-----------------------------------------------------------------------------
(* Expand, base and service initialisation *)

\* The BridgX task a call has started is polled next.
LEMMA PollType ==
  ASSUME IInv, SameKinds, NEW t \in TaskId, NEW b \in BxTaskId,
         NEW pc \in {"expand_poll", "shrink_poll"},
         Instr(t) = IF pc = "expand_poll" THEN "bridgx.expand" ELSE "bridgx.shrink",
         run' = [run EXCEPT ![t].pc = pc, ![t].bx = b]
  PROVE  RunsOK' /\ Control'
<1> DEFINE q == [run[t] EXCEPT !.pc = pc, !.bx = b]
<1>1. run[t] \in RunRec /\ Consistent(run[t], task[t].kind)
  BY RunFacts
<1>2. q \in RunRec
  BY <1>1 DEF RunRec, PC, Active, Calls
<1>3. pc \in CallsOf(Instr(t))
  BY DEF CallsOf
<1>4. Consistent(q, task[t].kind)
  BY <1>1, <1>3 DEF Consistent, Instr, RunRec
<1>5. run' = [run EXCEPT ![t] = q]
  BY TypeParts DEF IInv, RunsOK, RunRec
<1> QED
  BY <1>2, <1>4, <1>5, SetRun

LEMMA ExpandCallType ==
  ASSUME IInv, NEW t \in TaskId, ExpandCall(t)
  PROVE  IInv'
<1>1. PICK b \in NextBx, ms \in SUBSET FreeMachines :
         /\ BxExpand(b, task[t].cluster, ms)
         /\ \/ /\ run' = [run EXCEPT ![t].pc = "expand_poll", ![t].bx = b]
               /\ UNCHANGED <<task, instr_record>>
            \/ "lost" \in Faults /\ Fail(t)
  BY DEF ExpandCall
<1>2. b \in BxTaskId /\ ms \in SUBSET Machine
  BY DEF NextBx, FreeMachines
<1>3. task[t].cluster \in Cluster \cup {0} /\ CloudTypeOK
  BY TypeParts DEF IInv, TasksOK, TaskRow
<1>4. CloudTypeOK'
  BY <1>1, <1>2, <1>3, CloudOpsType DEF ExpandCall
<1>5. Instr(t) = "bridgx.expand"
  BY PcInstr DEF ExpandCall, At
<1>6. TasksOK' /\ RecordsOK' /\ RunsOK' /\ Control'
  BY <1>1, <1>2, <1>5, PollType, FailType, Unchanged
<1>7. RowsOK' /\ EnvTypeOK' /\ up' \in BOOLEAN
  BY Unchanged DEF ExpandCall
<1> QED
  BY <1>4, <1>6, <1>7, NextParts

LEMMA ExpandPolledType ==
  ASSUME IInv, NEW t \in TaskId, ExpandPolled(t)
  PROVE  IInv'
<1>1. TasksOK' /\ SameKinds /\ RecordsOK' /\ RowsOK' /\ CloudTypeOK' /\ EnvTypeOK' /\ up' \in BOOLEAN
  BY Unchanged DEF ExpandPolled
<1>2. run[t] \in RunRec /\ Consistent(run[t], task[t].kind) /\ run[t].pc = "expand_poll"
  BY RunFacts DEF ExpandPolled, At
<1>3. run[t].bx \in BxTaskId
  BY <1>2 DEF Consistent
<1> DEFINE grp == TaskInstances(run[t].bx)
           q == [run[t] EXCEPT !.pc = "get_cluster", !.key = run[t].bx, !.grp = grp]
<1>4. grp \in SUBSET Machine
  BY <1>3, TypeParts DEF IInv, CloudTypeOK, TaskInstances
<1>5. q \in RunRec
  BY <1>2, <1>3, <1>4 DEF RunRec, PC, Active, Calls
<1>6. "get_cluster" \in CallsOf(Instr(t))
  BY PcInstr, <1>2 DEF CallsOf
<1>7. Consistent(q, task[t].kind)
  BY <1>2, <1>3, <1>6 DEF Consistent, Instr, RunRec
<1>8. run' = [run EXCEPT ![t] = q]
  BY TypeParts DEF IInv, RunsOK, RunRec, ExpandPolled
<1> QED
  BY <1>1, <1>5, <1>7, <1>8, SetRun, NextParts

\* An instruction that succeeds in a later call than its first.
LEMMA SucceedLate ==
  ASSUME IInv, NEW t \in TaskId, run[t].pc \in Calls \ {"expand_call", "expand_poll"},
         NEW grp \in SUBSET Machine, Succeed(t, [run[t] EXCEPT !.grp = grp]) \/ Succeed(t, run[t])
  PROVE  TasksOK' /\ RecordsOK' /\ RunsOK' /\ Control'
<1> DEFINE q == [run[t] EXCEPT !.grp = grp]
<1>1. run[t] \in RunRec /\ Consistent(run[t], task[t].kind)
  BY RunFacts
<1>2. q \in RunRec /\ q.i = run[t].i /\ q.key = run[t].key
  BY <1>1 DEF RunRec
<1>3. task[t].kind = "Expand" => run[t].key \in BxTaskId
  BY <1>1, KeyKnown
<1> QED
  BY <1>1, <1>2, <1>3, SucceedType

LEMMA GetClusterType ==
  ASSUME IInv, NEW t \in TaskId, GetCluster(t)
  PROVE  IInv'
<1>1. TasksOK' /\ RecordsOK' /\ RunsOK' /\ Control'
  BY SucceedLate, RunFacts DEF GetCluster, At, Calls, RunRec
<1> QED
  BY <1>1, Unchanged, NextParts DEF GetCluster

LEMMA StoreType ==
  ASSUME IInv, NEW t \in TaskId, StoreNodes(t)
  PROVE  IInv'
<1>1. run[t] \in RunRec /\ Consistent(run[t], task[t].kind) /\ run[t].pc = "store"
  BY RunFacts DEF StoreNodes, At
<1>2. Instr(t) \in {"nodeact.initbase", "nodeact.initsvc"}
  BY <1>1, PcInstr
<1>3. task[t].kind = "Expand"
  BY <1>1, <1>2, InitNodesIsExpand DEF Consistent, Instr, RunRec
<1>4. run[t].key \in Key /\ run[t].grp \in SUBSET Machine
  BY <1>1, <1>3, KeyKnown DEF RunRec, Calls, Key
<1>5. EnvTypeOK'
  BY <1>2, <1>4, SpawnType, TargetType DEF StoreNodes
<1>6. StoredCluster(t) \in Cluster \cup {0}
  BY TypeParts DEF IInv, TasksOK, TaskRow, StoredCluster
<1>7. RowsOK'
  <2>1. "INIT" \in InstanceStatus /\ RowsOK
    BY TypeParts DEF InstanceStatus, IInv
  <2> QED
    BY <2>1, <1>6, InstanceOpsType DEF StoreNodes, RowsOK
<1>8. TasksOK' /\ SameKinds /\ RecordsOK' /\ CloudTypeOK' /\ up' \in BOOLEAN
  BY Unchanged DEF StoreNodes
<1>9. "node_poll" \in CallsOf(Instr(t)) \cap Calls
  BY <1>2 DEF CallsOf, Calls
<1>10. RunsOK' /\ Control'
  BY <1>1, <1>8, <1>9, NextCallType DEF StoreNodes, Calls
<1> QED
  BY <1>5, <1>7, <1>8, <1>10, NextParts

LEMMA NodePolledType ==
  ASSUME IInv, NEW t \in TaskId, NodePolled(t)
  PROVE  IInv'
<1>1. TasksOK' /\ SameKinds /\ RecordsOK' /\ RowsOK' /\ CloudTypeOK' /\ EnvTypeOK' /\ up' \in BOOLEAN
  BY Unchanged DEF NodePolled
<1>2. run[t].pc = "node_poll" /\ "node_list" \in CallsOf(Instr(t)) \cap Calls
  BY PcInstr DEF CallsOf, Calls, NodePolled, At
<1>3. RunsOK' /\ Control'
  BY <1>1, <1>2, NextCallType DEF NodePolled, Calls
<1> QED
  BY <1>1, <1>3, NextParts

LEMMA NodeListedType ==
  ASSUME IInv, NEW t \in TaskId, NodeListed(t)
  PROVE  IInv'
<1>1. run[t].pc \in Calls \ {"expand_call", "expand_poll"}
  BY DEF NodeListed, At, Calls
<1>2. TasksOK' /\ RecordsOK' /\ RunsOK' /\ Control'
  BY <1>1, SucceedLate, QueriesType DEF NodeListed
<1> QED
  BY <1>2, Unchanged, NextParts DEF NodeListed

-----------------------------------------------------------------------------
(* Mounting and unmounting *)

\* Steps that leave all but the run and the load balancer alone, or fail.
LEMMA SlbStep ==
  ASSUME IInv, NEW t \in TaskId, run[t].pc \in {"mount_call", "umount_call"},
         slb' \subseteq Machine, UNCHANGED <<instance, bx, machine, envVars, up>>,
         NEW pc \in CallsOf(Instr(t)), pc \in {"mount_db", "umount_db"},
         \/ Goto(t, pc) /\ UNCHANGED <<task, instr_record>>
         \/ Fail(t)
  PROVE  IInv'
<1>1. RowsOK' /\ EnvTypeOK' /\ up' \in BOOLEAN
  BY Unchanged
<1>2. CloudTypeOK'
  BY TypeParts DEF IInv, CloudTypeOK
<1>3. CASE Goto(t, pc) /\ UNCHANGED <<task, instr_record>>
  <2>1. TasksOK' /\ SameKinds /\ RecordsOK'
    BY <1>3, Unchanged
  <2>2. RunsOK' /\ Control'
    BY <1>3, <2>1, NextCallType DEF Calls
  <2> QED
    BY <1>1, <1>2, <2>1, <2>2, NextParts
<1>4. CASE Fail(t)
  BY <1>1, <1>2, <1>4, FailType, NextParts
<1> QED
  BY <1>3, <1>4

LEMMA MountCallType ==
  ASSUME IInv, NEW t \in TaskId, MountCall(t) \/ UmountCall(t)
  PROVE  IInv'
<1>1. run[t].grp \subseteq Machine /\ slb \subseteq Machine
  BY RunFacts, TypeParts DEF RunRec, IInv, CloudTypeOK
<1>2. CASE MountCall(t)
  <2>1. run[t].pc = "mount_call" /\ "mount_db" \in CallsOf(Instr(t))
    BY <1>2, PcInstr DEF MountCall, At, CallsOf
  <2> QED
    BY <1>1, <1>2, <2>1, SlbStep DEF MountCall
<1>3. CASE UmountCall(t)
  <2>1. run[t].pc = "umount_call" /\ "umount_db" \in CallsOf(Instr(t))
    BY <1>3, PcInstr DEF UmountCall, At, CallsOf
  <2> QED
    BY <1>1, <1>3, <2>1, SlbStep DEF UmountCall
<1> QED
  BY <1>2, <1>3

\* The last call of an instruction writes rows and succeeds.
LEMMA LastCallType ==
  ASSUME IInv, NEW t \in TaskId, run[t].pc \in Calls \ {"expand_call", "expand_poll"},
         RowsOK', Succeed(t, run[t]), UNCHANGED <<cloudVars, envVars, up>>
  PROVE  IInv'
<1>1. TasksOK' /\ RecordsOK' /\ RunsOK' /\ Control'
  BY SucceedLate, RunFacts DEF RunRec
<1> QED
  BY <1>1, Unchanged, NextParts

LEMMA MountDbType ==
  ASSUME IInv, NEW t \in TaskId, MountDb(t) \/ UmountDb(t) \/ ShrinkDb(t)
  PROVE  IInv'
<1>1. run[t].pc \in Calls \ {"expand_call", "expand_poll"}
  BY DEF MountDb, UmountDb, ShrinkDb, At, Calls
<1>2. RowsOK'
  <2>1. RowsOK
    BY TypeParts DEF IInv
  <2>2. \A ms, k : \A status \in {"ALB", "UNALB", "DELETED"} :
           /\ BatchUpdateStatus(ms, k, status) \in [RowId -> InstanceRow]
           /\ BatchUpdateStatusByIds(ms, status) \in [RowId -> InstanceRow]
    <3> SUFFICES ASSUME NEW ms, NEW k, NEW status \in {"ALB", "UNALB", "DELETED"}
                 PROVE  /\ BatchUpdateStatus(ms, k, status) \in [RowId -> InstanceRow]
                        /\ BatchUpdateStatusByIds(ms, status) \in [RowId -> InstanceRow]
      OBVIOUS
    <3>1. status \in InstanceStatus /\ 0 \in Cluster \cup {0}
      BY DEF InstanceStatus
    <3> QED
      BY <2>1, <3>1, InstanceOpsType
  <2> QED
    BY <2>2 DEF MountDb, UmountDb, ShrinkDb, RowsOK
<1> QED
  BY <1>1, <1>2, LastCallType DEF MountDb, UmountDb, ShrinkDb

LEMMA UmountQueryType ==
  ASSUME IInv, NEW t \in TaskId, UmountQuery(t)
  PROVE  IInv'
<1>1. RowsOK' /\ CloudTypeOK' /\ EnvTypeOK' /\ up' \in BOOLEAN
  BY Unchanged DEF UmountQuery
<1>2. run[t].pc = "umount_query" /\ "umount_call" \in CallsOf(Instr(t))
  BY PcInstr DEF UmountQuery, At, CallsOf
<1>3. PICK rows \in QueryInstsToUmount(task[t].cluster, task[t].inst_cnt) :
         IF rows = {} THEN Succeed(t, run[t])
         ELSE /\ run' = [run EXCEPT ![t].pc = "umount_call", ![t].grp = {r[2] : r \in rows}]
              /\ UNCHANGED <<task, instr_record>>
  BY DEF UmountQuery
<1>4. CASE rows = {}
  <2>1. TasksOK' /\ RecordsOK' /\ RunsOK' /\ Control'
    BY <1>2, <1>3, <1>4, SucceedLate, RunFacts DEF Calls, RunRec
  <2> QED
    BY <1>1, <2>1, NextParts
<1>5. CASE rows # {}
  <2> DEFINE grp == {r[2] : r \in rows}
  <2>1. grp \in SUBSET Machine
    BY QueriesType
  <2>2. TasksOK' /\ SameKinds /\ RecordsOK'
    BY <1>3, <1>5, Unchanged
  <2>3. run' = [run EXCEPT ![t].pc = "umount_call", ![t].grp = grp]
    BY <1>3, <1>5
  <2> HIDE DEF grp
  <2>4. RunsOK' /\ Control'
    BY <1>2, <2>1, <2>2, <2>3, NextCallType DEF Calls
  <2> QED
    BY <1>1, <2>2, <2>4, NextParts
<1> QED
  BY <1>4, <1>5

-----------------------------------------------------------------------------
(* Shrink *)

LEMMA ShrinkPickType ==
  ASSUME IInv, NEW t \in TaskId, ShrinkPick(t)
  PROVE  IInv'
<1>1. /\ TasksOK' /\ SameKinds /\ RecordsOK' /\ RowsOK' /\ CloudTypeOK' /\ EnvTypeOK'
      /\ up' \in BOOLEAN
  BY Unchanged DEF ShrinkPick
<1>2. run[t].pc = "shrink_pick" /\ "shrink_call" \in CallsOf(Instr(t))
  BY PcInstr DEF ShrinkPick, At, CallsOf
<1> DEFINE picked == {r[2] : r \in NotDeletedInstsWithLimit(task[t].cluster, task[t].inst_cnt)}
           grp == IF run[t].grp # {} THEN run[t].grp ELSE picked
<1>3. grp \in SUBSET Machine
  BY QueriesType, RunFacts DEF RunRec
<1>4. run' = [run EXCEPT ![t].pc = "shrink_call", ![t].grp = grp]
  BY TypeParts DEF IInv, RunsOK, RunRec, ShrinkPick
<1> HIDE DEF grp
<1>5. RunsOK' /\ Control'
  BY <1>1, <1>2, <1>3, <1>4, NextCallType DEF Calls
<1> QED
  BY <1>1, <1>5, NextParts

LEMMA ShrinkPickFailsType ==
  ASSUME IInv, NEW t \in TaskId, ShrinkPickFails(t)
  PROVE  IInv'
<1>1. TasksOK' /\ SameKinds
  BY WriteStepType DEF ShrinkPickFails
<1>2. RecordsOK'
  BY WriteRecordType DEF ShrinkPickFails, InstrRecStatus
<1>3. RunsOK' /\ Control'
  BY <1>1, RunErrs DEF ShrinkPickFails
<1> QED
  BY <1>1, <1>2, <1>3, Unchanged, NextParts DEF ShrinkPickFails

LEMMA ShrinkCallType ==
  ASSUME IInv, NEW t \in TaskId, ShrinkCall(t)
  PROVE  IInv'
<1>1. PICK b \in NextBx :
         /\ BxShrink(b, run[t].grp)
         /\ \/ /\ run' = [run EXCEPT ![t].pc = "shrink_poll", ![t].bx = b]
               /\ UNCHANGED <<task, instr_record>>
            \/ "lost" \in Faults /\ Fail(t)
  BY DEF ShrinkCall
<1>2. b \in BxTaskId /\ run[t].grp \in SUBSET Machine /\ CloudTypeOK /\ 0 \in Cluster \cup {0}
  BY RunFacts, TypeParts DEF NextBx, RunRec, IInv
<1>3. CloudTypeOK'
  BY <1>1, <1>2, CloudOpsType DEF ShrinkCall
<1>4. Instr(t) = "bridgx.shrink"
  BY PcInstr DEF ShrinkCall, At
<1>5. TasksOK' /\ RecordsOK' /\ RunsOK' /\ Control'
  BY <1>1, <1>2, <1>4, PollType, FailType, Unchanged
<1> QED
  BY <1>3, <1>5, Unchanged, NextParts DEF ShrinkCall

LEMMA ShrinkPolledType ==
  ASSUME IInv, NEW t \in TaskId, ShrinkPolled(t)
  PROVE  IInv'
<1>1. /\ TasksOK' /\ SameKinds /\ RecordsOK' /\ RowsOK' /\ CloudTypeOK' /\ EnvTypeOK'
      /\ up' \in BOOLEAN
  BY Unchanged DEF ShrinkPolled
<1>2. run[t].pc = "shrink_poll" /\ "shrink_db" \in CallsOf(Instr(t))
  BY PcInstr DEF ShrinkPolled, At, CallsOf
<1>3. RunsOK' /\ Control'
  BY <1>1, <1>2, NextCallType DEF ShrinkPolled, Calls
<1> QED
  BY <1>1, <1>3, NextParts

-----------------------------------------------------------------------------
(* Deploy *)

LEMMA DeployInstancesType ==
  ASSUME IInv, NEW t \in TaskId, DeployInstances(t)
  PROVE  IInv'
<1>1. /\ TasksOK' /\ SameKinds /\ RecordsOK' /\ RowsOK' /\ CloudTypeOK' /\ EnvTypeOK'
      /\ up' \in BOOLEAN
  BY Unchanged DEF DeployInstances
<1>2. run[t].pc = "deploy_instances" /\ "deploy_mark" \in CallsOf(Instr(t))
  BY PcInstr DEF DeployInstances, At, CallsOf
<1> DEFINE grp == RunningIn(task[t].cluster)
<1>3. grp \in SUBSET Machine
  BY QueriesType
<1>4. run' = [run EXCEPT ![t].pc = "deploy_mark", ![t].grp = grp]
  BY DEF DeployInstances
<1> HIDE DEF grp
<1>5. RunsOK' /\ Control'
  BY <1>1, <1>2, <1>3, <1>4, NextCallType DEF Calls
<1> QED
  BY <1>1, <1>5, NextParts

LEMMA DeployMarkType ==
  ASSUME IInv, NEW t \in TaskId, DeployMark(t)
  PROVE  IInv'
<1>1. TasksOK' /\ SameKinds /\ RecordsOK' /\ CloudTypeOK' /\ EnvTypeOK' /\ up' \in BOOLEAN
  BY Unchanged DEF DeployMark
<1>2. RowsOK'
  <2>1. RowsOK /\ task[t].cluster \in Cluster \cup {0} /\ "INIT" \in InstanceStatus
    BY TypeParts DEF IInv, TasksOK, TaskRow, InstanceStatus
  <2>2. MarkClusterDeleted(task[t].cluster) \in [RowId -> InstanceRow]
    BY <2>1, InstanceOpsType
  <2> QED
    BY <2>2 DEF DeployMark, RowsOK
<1>3. run[t].pc = "deploy_mark" /\ "deploy_insert" \in CallsOf(Instr(t))
  BY PcInstr DEF DeployMark, At, CallsOf
<1>4. RunsOK' /\ Control'
  BY <1>1, <1>3, NextCallType DEF DeployMark, Calls
<1> QED
  BY <1>1, <1>2, <1>4, NextParts

LEMMA DeployInsertType ==
  ASSUME IInv, NEW t \in TaskId, DeployInsert(t)
  PROVE  IInv'
<1>1. TasksOK' /\ SameKinds /\ RecordsOK' /\ CloudTypeOK' /\ up' \in BOOLEAN
  BY Unchanged DEF DeployInsert
<1>2. RowsOK'
  <2>1. RowsOK /\ task[t].cluster \in Cluster \cup {0} /\ "INIT" \in InstanceStatus
    BY TypeParts DEF IInv, TasksOK, TaskRow, InstanceStatus
  <2>2. BatchCreate(run[t].grp, t, task[t].cluster) \in [RowId -> InstanceRow]
    BY <2>1, InstanceOpsType
  <2> QED
    BY <2>2 DEF DeployInsert, RowsOK
<1>3. run[t].pc = "deploy_insert" /\ "deploy_wait" \in CallsOf(Instr(t))
      /\ Instr(t) \in DeployActions
  BY PcInstr DEF DeployInsert, At, CallsOf, DeployActions
<1>4. RunsOK' /\ Control'
  BY <1>1, <1>3, NextCallType DEF DeployInsert, Calls
<1>5. EnvTypeOK'
  <2>1. run[t].grp \in SUBSET Machine /\ t \in Key
    BY RunFacts DEF RunRec, Key
  <2> QED
    BY <1>3, <2>1, SpawnType, TargetType DEF DeployInsert
<1> QED
  BY <1>1, <1>2, <1>4, <1>5, NextParts

LEMMA DeployQueryType ==
  ASSUME IInv, NEW t \in TaskId, DeployQuery(t)
  PROVE  IInv'
<1>1. TasksOK' /\ SameKinds /\ RecordsOK' /\ RowsOK' /\ CloudTypeOK' /\ up' \in BOOLEAN
  BY Unchanged DEF DeployQuery
<1>2. run[t].pc = "deploy_query" /\ "deploy_wait" \in CallsOf(Instr(t))
      /\ Instr(t) \in DeployActions
  BY PcInstr DEF DeployQuery, At, CallsOf, DeployActions
<1>3. RunsOK' /\ Control'
  BY <1>1, <1>2, NextCallType DEF DeployQuery, Calls
<1>4. EnvTypeOK'
  <2>1. InstsQueryByTaskId(t, Previous(Instr(t))) \in SUBSET Machine /\ t \in Key
    BY QueriesType DEF Key
  <2> QED
    BY <1>2, <2>1, SpawnType, TargetType DEF DeployQuery
<1> QED
  BY <1>1, <1>3, <1>4, NextParts

LEMMA DeployWaitedType ==
  ASSUME IInv, NEW t \in TaskId, DeployWaited(t)
  PROVE  IInv'
<1>1. run[t].pc \in Calls \ {"expand_call", "expand_poll"}
  BY DEF DeployWaited, At, Calls
<1>2. TasksOK' /\ RecordsOK' /\ RunsOK' /\ Control'
  BY <1>1, SucceedLate, FailType, RunFacts DEF DeployWaited, RunRec
<1> QED
  BY <1>2, Unchanged, NextParts DEF DeployWaited

-----------------------------------------------------------------------------
(* Steps of others, and the end of the process *)

LEMMA SameRuns == ASSUME IInv, UNCHANGED run, SameKinds PROVE RunsOK' /\ Control'
  BY TypeParts DEF IInv, RunsOK, Control, SameKinds

LEMMA NodeStepType ==
  ASSUME IInv, NEW g \in node, NodeStep(g)
  PROVE  IInv'
<1>1. TasksOK' /\ SameKinds /\ RecordsOK' /\ CloudTypeOK' /\ up' \in BOOLEAN
  BY Unchanged DEF NodeStep, NodeReturns
<1>2. RowsOK /\ node \subseteq Goroutine /\ deploy_err \subseteq TaskId /\ g \in Goroutine
  BY TypeParts DEF IInv, EnvTypeOK
<1>3. EnvTypeOK'
  BY <1>2 DEF NodeStep, NodeReturns, EnvTypeOK, Goroutine
<1>4. RowsOK'
  <2>1. PICK ok \in Outcomes("ssh"), stored \in Outcomes("db") :
          instance' = IF stored THEN UpdateInst(g.key, g.inst, Reported(g, ok)) ELSE instance
    BY DEF NodeStep, NodeReturns
  <2>2. Reported(g, ok) \in InstanceStatus /\ 0 \in Cluster \cup {0}
    BY <1>2 DEF Reported, Goroutine, Targets, InstanceStatus
  <2>3. UpdateInst(g.key, g.inst, Reported(g, ok)) \in [RowId -> InstanceRow]
    BY <1>2, <2>2, InstanceOpsType
  <2> QED
    BY <1>2, <2>1, <2>3 DEF RowsOK
<1>5. RunsOK' /\ Control'
  BY <1>1, SameRuns DEF NodeStep
<1> QED
  BY <1>1, <1>3, <1>4, <1>5, NextParts

LEMMA BxStepType ==
  ASSUME IInv, NEW b \in BxTaskId, BxStep(b)
  PROVE  IInv'
<1>1. TasksOK' /\ SameKinds /\ RecordsOK' /\ RowsOK' /\ EnvTypeOK' /\ up' \in BOOLEAN
  BY Unchanged DEF BxStep
<1>2. PICK upMachines \in SUBSET bx[b].machines : BxFinish(b, upMachines)
  BY DEF BxStep
<1>3. CloudTypeOK /\ upMachines \in SUBSET Machine /\ 0 \in Cluster \cup {0}
  BY TypeParts DEF IInv, CloudTypeOK
<1>4. CloudTypeOK'
  BY <1>2, <1>3, CloudOpsType DEF BxStep
<1>5. RunsOK' /\ Control'
  BY <1>1, SameRuns DEF BxStep
<1> QED
  BY <1>1, <1>4, <1>5, NextParts

LEMMA DeathType ==
  ASSUME IInv, ProcessDies, TasksOK', SameKinds, RecordsOK'
  PROVE  IInv'
<1>1. RowsOK' /\ CloudTypeOK' /\ up' \in BOOLEAN
  BY Unchanged DEF ProcessDies
<1>2. EnvTypeOK'
  BY TypeParts DEF IInv, EnvTypeOK, ProcessDies
<1>3. \A t \in TaskId : /\ Killed(run[t]) \in RunRec
                        /\ Consistent(Killed(run[t]), task[t].kind)
  <2> TAKE t \in TaskId
  <2>1. run[t] \in RunRec /\ Consistent(run[t], task[t].kind)
    BY RunFacts
  <2> QED
    BY <2>1, FinishConsistent DEF Killed
<1>4. RunsOK' /\ Control'
  BY <1>3 DEF ProcessDies, RunsOK, Control, SameKinds
<1> QED
  BY <1>1, <1>2, <1>4, NextParts

LEMMA CrashType == ASSUME IInv, Crash PROVE IInv'
  BY Unchanged, DeathType DEF Crash

LEMMA RestartType == ASSUME IInv, Restart \/ UNCHANGED vars PROVE IInv'
<1>1. /\ TasksOK' /\ SameKinds /\ RecordsOK' /\ RowsOK' /\ CloudTypeOK' /\ EnvTypeOK'
      /\ up' \in BOOLEAN
  BY Unchanged DEF Restart, vars, cloudVars, envVars
<1>2. RunsOK' /\ Control'
  BY <1>1, SameRuns DEF Restart, vars
<1> QED
  BY <1>1, <1>2, NextParts

LEMMA PanicType ==
  ASSUME IInv, NEW t \in TaskId, TaskPanics(t) \/ PollPanics(t)
  PROVE  IInv'
<1>1. CASE PollPanics(t)
  BY <1>1, Unchanged, DeathType DEF PollPanics
<1>2. CASE TaskPanics(t)
  <2>1. RecordsOK'
    BY <1>2, WriteRecordType DEF TaskPanics, InstrRecStatus
  <2>2. PICK stepped \in Outcomes("db"), stored \in Outcomes("db") :
          LET done == IF stepped /\ run[t].pc = "node_list"
                      THEN UpdateTaskStep(task, t, InstrStep(t, "SUCC")) ELSE task
          IN  task' = IF stored THEN UpdateTaskStatus(done, t, "SUCC") ELSE done
    BY <1>2 DEF TaskPanics
  <2>3. task \in [TaskId -> TaskRow] /\ InstrStep(t, "SUCC") \in TaskStep /\ "SUCC" \in TaskStatus
    BY InstrType, TypeParts DEF IInv, TasksOK, InstrStep, TaskStep, TaskStatus
  <2> DEFINE done == IF stepped /\ run[t].pc = "node_list"
                     THEN UpdateTaskStep(task, t, InstrStep(t, "SUCC")) ELSE task
  <2>4. done \in [TaskId -> TaskRow] /\ \A u \in TaskId : done[u].kind = task[u].kind
    BY <2>3, StepType
  <2>5. task' = IF stored THEN UpdateTaskStatus(done, t, "SUCC") ELSE done
    BY <2>2
  <2> HIDE DEF done
  <2>6. TasksOK' /\ SameKinds
    BY <2>3, <2>4, <2>5, StatusType DEF TasksOK, SameKinds
  <2> QED
    BY <1>2, <2>1, <2>6, DeathType DEF TaskPanics
<1> QED
  BY <1>1, <1>2

-----------------------------------------------------------------------------
LEMMA RunStepType ==
  ASSUME IInv, NEW t \in TaskId, RunStep(t)
  PROVE  IInv'
<1>1. CASE \/ BeginInstr(t) \/ BeginInstrFails(t) \/ SaveRelation(t) \/ SaveRelationFails(t)
           \/ InstrFails(t) \/ Finish(t)
  BY <1>1, BeginType, ErrsType, RelationType, InstrFailsType, FinishType
<1>2. CASE \/ ExpandCall(t) \/ ExpandPolled(t) \/ GetCluster(t)
           \/ StoreNodes(t) \/ NodePolled(t) \/ NodeListed(t)
  BY <1>2, ExpandCallType, ExpandPolledType, GetClusterType, StoreType, NodePolledType, NodeListedType
<1>3. CASE MountCall(t) \/ MountDb(t) \/ UmountQuery(t) \/ UmountCall(t) \/ UmountDb(t)
  BY <1>3, MountCallType, MountDbType, UmountQueryType
<1>4. CASE \/ ShrinkPick(t) \/ ShrinkPickFails(t) \/ ShrinkCall(t) \/ ShrinkPolled(t) \/ ShrinkDb(t)
  BY <1>4, ShrinkPickType, ShrinkPickFailsType, ShrinkCallType, ShrinkPolledType, MountDbType
<1>5. CASE \/ DeployInstances(t) \/ DeployMark(t) \/ DeployInsert(t) \/ DeployQuery(t)
           \/ DeployWaited(t)
  BY <1>5, DeployInstancesType, DeployMarkType, DeployInsertType, DeployQueryType, DeployWaitedType
<1> QED
  BY <1>1, <1>2, <1>3, <1>4, <1>5 DEF RunStep

LEMMA NextIInv == IInv /\ [Next]_vars => IInv'
<1> SUFFICES ASSUME IInv, [Next]_vars PROVE IInv'
  OBVIOUS
<1>1. CASE Request
  BY <1>1, RequestType
<1>2. CASE \E t \in TaskId : RunStep(t)
  BY <1>2, RunStepType
<1>3. CASE \E g \in node : NodeStep(g)
  BY <1>3, NodeStepType
<1>4. CASE \E b \in BxTaskId : BxStep(b)
  BY <1>4, BxStepType
<1>5. CASE Panic \/ Crash
  BY <1>5, PanicType, CrashType DEF Panic
<1>6. CASE Restart \/ Idle \/ UNCHANGED vars
  BY <1>6, RestartType DEF Idle
<1> QED
  BY <1>1, <1>2, <1>3, <1>4, <1>5, <1>6 DEF Next

LEMMA AlwaysIInv == Spec => []IInv
  BY InitIInv, NextIInv, PTL DEF Spec

(* Every variable keeps its type, whatever fails and however many tasks run:  *)
(* no goroutine works without a target, for a task or a machine that is none. *)
THEOREM TypeCorrect == Spec => []TypeOK
<1>1. IInv => TypeOK
  BY DEF IInv
<1> QED
  BY <1>1, AlwaysIInv, PTL

=============================================================================
