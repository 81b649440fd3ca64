------------------------ MODULE ScheduleSerial_proofs -------------------------
(***************************************************************************)
(* What callers gain who wait for the task of a cluster to end before they *)
(* ask for the next one: the rows of a machine are one task's at a time,   *)
(* machines and rows agree when no call is refused or lost, only machines  *)
(* that are ready get into the server group, a shrink gives back what it   *)
(* was asked for and what it unmounted, and no machine is lost in silence. *)
(***************************************************************************)
EXTENDS ScheduleBarrier_proofs

\* Callers ask for the task of the cluster first, or there is one task only.
Patient == OneAtATime \/ \A t, u \in TaskId : t = u

\* No command outlasts the poll that waits for it.
Timely == "slow" \notin Faults

Live(r) == Exists(r) /\ instance[r].status # "DELETED"

OneActive ==
    \A t, u \in TaskId :
        (Running(t) /\ Running(u) /\ task[t].cluster = task[u].cluster) => t = u

Unended == \A t \in TaskId : Running(t) => task[t].status \in Unfinished

(* The command of a machine is awaited by its task, and its row does not say  *)
(* yet what the task waits for.                                               *)
Awaited(g) ==
    /\ run[g.task].pc \in {"node_poll", "deploy_wait"}
    /\ Live(<<g.key, g.inst>>)
    /\ run[g.task].pc = "node_poll" => instance[<<g.key, g.inst>>].status # g.target

NoRows(m) == \A k \in Key : ~Exists(<<k, m>>)

BasedRun(r) == (r.i = 2 /\ r.pc = "relation") \/ (r.i = 3 /\ r.pc \in {"next", "store"})

(* Nobody has rows of the machines an expand begins with; the rows it stores  *)
(* stay as its commands left them.                                            *)
Held(t) ==
    /\ run[t].pc = "expand_poll" => \A m \in bx[run[t].bx].machines : NoRows(m)
    /\ FreshRun(run[t]) => \A m \in run[t].grp : NoRows(m)
    /\ StoredRun(run[t]) => \A m \in run[t].grp : Live(<<run[t].key, m>>)
    /\ BasedRun(run[t]) => \A m \in run[t].grp : instance[<<run[t].key, m>>].status = "BASE"

\* Between its two writes a deploy has no living rows in its cluster.
Marked(t) ==
    run[t].pc = "deploy_insert" =>
        \A r \in RowId : PlacedIn(r[2], task[t].cluster) => ~Live(r)

Single == \A r, s \in RowId : (r[2] = s[2] /\ Live(r) /\ Live(s)) => r = s

AllAwaited == \A g \in node : Awaited(g)
AllHeld == \A t \in TaskId : (task[t].kind = "Expand" /\ Running(t)) => Held(t)
AllMarked == \A t \in TaskId : Marked(t)

Serial == OneActive /\ Unended /\ AllAwaited /\ AllHeld /\ AllMarked /\ Single

-----------------------------------------------------------------------------
(* Turns: a task begins when no other runs in its cluster. *)

LEMMA Created ==
  ASSUME IInv, [Next]_vars, NEW t \in TaskId, run[t].pc = "idle", run'[t].pc # "idle"
  PROVE  /\ MovesAlone(t)
         /\ \E kind, sc, cnt, isRollback : CreateAndRun(t, kind, sc, cnt, isRollback)
<1>1. ASSUME NEW u \in TaskId, RunStep(u) PROVE FALSE
  BY <1>1, RunStepAlone, NotIdle DEF MovesAlone
<1>2. ~(\A u \in TaskId : run'[u] = Killed(run[u])) /\ ~UNCHANGED run
  BY DEF Killed, Active, Calls
<1>3. Request
  BY <1>1, <1>2 DEF Next, NodeStep, BxStep, Panic, TaskPanics, PollPanics, Crash, ProcessDies,
                    Restart, Idle, vars
<1>4. PICK u \in TaskId : \E kind, sc, cnt, isRollback : CreateAndRun(u, kind, sc, cnt, isRollback)
  BY <1>3 DEF Request, ExpandAction, ShrinkAction, DeployAction
<1>5. MovesAlone(u)
  BY <1>4, GotoAlone DEF CreateAndRun
<1> QED
  BY <1>4, <1>5 DEF MovesAlone

LEMMA CreatedTask ==
  ASSUME IInv, NEW t \in TaskId, NEW kind, NEW sc, NEW cnt, NEW isRollback,
         CreateAndRun(t, kind, sc, cnt, isRollback)
  PROVE  /\ task'[t].cluster = sc /\ \A u \in TaskId \ {t} : task'[u] = task[u]
         /\ run[t].pc = "idle" /\ SameHands(t) /\ run'[t].i = run[t].i
         /\ run'[t].pc \in {"next", "done"}
         /\ Running(t)' => task'[t].status \in Unfinished
         /\ UNCHANGED <<instance, cloudVars, envVars>>
         /\ OneAtATime => ~HasRunningTask(sc)
<1>1. task \in [TaskId -> TaskRow] /\ run \in [TaskId -> RunRec]
  BY TypeParts DEF IInv, TasksOK, RunsOK
<1>2. PICK row : row = [NoTask EXCEPT !.kind = kind, !.cluster = sc, !.inst_cnt = cnt,
                                      !.status = IF isRollback THEN "ROLLING_BACK" ELSE "RUNNING"]
  OBVIOUS
<1>3. PICK ended : ended = [row EXCEPT !.status = "FAIL"]
  OBVIOUS
<1>4. row.cluster = sc /\ row.status \in Unfinished /\ ended.cluster = sc
  BY <1>2, <1>3 DEF NoTask, Unfinished
<1>5. \/ task' = [task EXCEPT ![t] = row] /\ Goto(t, "next")
      \/ task' = [task EXCEPT ![t] = ended] /\ Goto(t, "done")
  <2>1. PICK created : created = [task EXCEPT ![t] = row]
    OBVIOUS
  <2>2. \/ task' = created /\ Goto(t, "next")
        \/ task' = [created EXCEPT ![t].status = "FAIL"] /\ Goto(t, "done")
    BY <1>2, <2>1 DEF CreateAndRun, CreateTask, UpdateTaskStatus
  <2>3. [created EXCEPT ![t].status = "FAIL"] = [task EXCEPT ![t] = ended]
    BY <1>1, <1>3, <2>1
  <2> QED
    BY <2>1, <2>2, <2>3
<1>6. \A pc : Goto(t, pc) => run'[t] = [run[t] EXCEPT !.pc = pc] /\ run'[t].pc = pc
  BY <1>1 DEF Goto, RunRec
<1>7. \/ task'[t] = row /\ run'[t].pc = "next"
      \/ task'[t] = ended /\ run'[t].pc = "done"
  BY <1>1, <1>5, <1>6
<1>8. SameHands(t) /\ run'[t].i = run[t].i
  BY <1>5, GotoMoves DEF MovesTo
<1>9. \A u \in TaskId \ {t} : task'[u] = task[u]
  BY <1>1, <1>5
<1>10. Running(t)' => run'[t].pc # "done"
  BY DEF Running, Active, Calls
<1> QED
  BY <1>4, <1>7, <1>8, <1>9, <1>10 DEF CreateAndRun

\* A task that runs ran before, or was asked for in this step.
LEMMA RunningBefore ==
  ASSUME IInv, [Next]_vars, NEW t \in TaskId, Running(t)'
  PROVE  \/ Running(t) /\ SameRow(t) /\ SameTask(t)
         \/ /\ run[t].pc = "idle" /\ MovesAlone(t)
            /\ \E kind, sc, cnt, isRollback : CreateAndRun(t, kind, sc, cnt, isRollback)
<1>1. CASE run[t].pc = "idle"
  BY <1>1, Created DEF Running, Active, Calls
<1>2. CASE run[t].pc # "idle"
  <2>1. ~Dies
    <3>1. run[t] \in RunRec /\ Killed(run[t]).pc \notin Active
      BY RunFacts DEF Killed, RunRec, Active, Calls
    <3> QED
      BY <3>1 DEF Dies, Running
  <2>2. Running(t)
    <3>1. CASE run'[t] = run[t]
      BY <3>1 DEF Running
    <3>2. CASE RunStep(t)
      BY <3>2 DEF Running, Active, Calls, RunStep, At, BeginInstr, BeginInstrFails, SaveRelation,
         SaveRelationFails, ExpandCall, ExpandPolled, GetCluster, StoreNodes, NodePolled, NodeListed,
         MountCall, MountDb, UmountQuery, UmountCall, UmountDb, ShrinkPick, ShrinkPickFails, ShrinkCall,
         ShrinkPolled, ShrinkDb, DeployInstances, DeployMark, DeployInsert, DeployQuery, DeployWaited,
         InstrFails, Finish
    <3> QED
      BY <1>2, <2>1, <3>1, <3>2, EveryMoveIs DEF MovesAlone
  <2>3. SameRow(t)
    <3>1. ~Finish(t)
      <4>1. Finish(t) => run'[t].pc = "done"
        BY GotoMoves DEF Finish, MovesTo
      <4> QED
        BY <4>1 DEF Running, Active, Calls
    <3>2. ~Creates(t)
      BY <1>2 DEF Creates
    <3> QED
      BY <2>1, <3>1, <3>2, WhoWritesStatus
  <2> QED
    BY <1>2, <2>2, <2>3, EveryTaskStays DEF TasksStay
<1> QED
  BY <1>1, <1>2

LEMMA TurnsStay ==
  ASSUME Patient, IInv, OneActive, Unended, [Next]_vars
  PROVE  OneActive' /\ Unended'
<1>1. Unended'
  <2> SUFFICES ASSUME NEW t \in TaskId, Running(t)' PROVE task'[t].status \in Unfinished
    BY DEF Unended
  <2>1. CASE Running(t) /\ SameRow(t)
    BY <2>1 DEF Unended, SameRow
  <2>2. CASE \E kind, sc, cnt, isRollback : CreateAndRun(t, kind, sc, cnt, isRollback)
    BY <2>2, CreatedTask
  <2> QED
    BY <2>1, <2>2, RunningBefore
<1>2. ASSUME NEW t \in TaskId, NEW u \in TaskId, t # u, Running(t)', Running(u)',
             task'[t].cluster = task'[u].cluster,
             MovesAlone(t), \E kind, sc, cnt, isRollback : CreateAndRun(t, kind, sc, cnt, isRollback)
      PROVE  FALSE
  <2>1. PICK kind, sc, cnt, isRollback : CreateAndRun(t, kind, sc, cnt, isRollback)
    BY <1>2
  <2>2. Running(u)
    BY <1>2 DEF MovesAlone, Running
  <2>3. OneAtATime
    BY <1>2 DEF Patient
  <2>4. task'[t].cluster = sc /\ (\A v \in TaskId \ {t} : task'[v] = task[v])
        /\ (OneAtATime => ~HasRunningTask(sc))
    BY <2>1, CreatedTask
  <2> QED
    BY <1>2, <2>2, <2>3, <2>4 DEF HasRunningTask, Unended
<1>3. ASSUME NEW t \in TaskId, NEW u \in TaskId, Running(t)', Running(u)', task'[t].cluster = task'[u].cluster
      PROVE  t = u
  <2>1. CASE Running(t) /\ SameTask(t) /\ Running(u) /\ SameTask(u)
    BY <1>3, <2>1 DEF OneActive, SameTask
  <2> QED
    BY <1>2, <1>3, <2>1, RunningBefore
<1> QED
  BY <1>1, <1>3 DEF OneActive

-----------------------------------------------------------------------------
(* Whose step changed a row *)

Stored(t, r) == StoreNodes(t) /\ r[1] = run[t].key /\ r[2] \in run[t].grp /\ ~Exists(r)

Inserted(t, r) == DeployInsert(t) /\ r[1] = t /\ r[2] \in run[t].grp /\ ~Exists(r)

Buried(t, r) == (DeployMark(t) \/ ShrinkDb(t)) /\ instance'[r].status = "DELETED"

Mounts(t, r) ==
    /\ MountDb(t) /\ r[1] = run[t].key /\ r[2] \in run[t].grp /\ Exists(r)
    /\ instance'[r].status = "ALB"

TouchedBy(t, r) ==
    /\ PlacedIn(r[2], task[t].cluster)
    /\ Stored(t, r) \/ Inserted(t, r) \/ Buried(t, r) \/ Mounts(t, r)

AnsweredBy(g, r) ==
    /\ g \in node /\ node' = node \ {g} /\ UNCHANGED run
    /\ r = <<g.key, g.inst>> /\ Exists(r) /\ instance'[r].status \in {g.target, "FAIL"}

LEMMA StatusSet ==
  ASSUME NEW row \in InstanceRow, NEW status
  PROVE  [row EXCEPT !.status = status].status = status
  BY DEF InstanceRow

LEMMA RunTouches ==
  ASSUME Barrier, NEW t \in TaskId, NEW r \in RowId, instance'[r] # instance[r],
         \/ StoreNodes(t) \/ DeployInsert(t) \/ DeployMark(t)
         \/ MountDb(t) \/ UmountDb(t) \/ ShrinkDb(t)
  PROVE  TouchedBy(t, r)
<1>1. r = <<r[1], r[2]>> /\ r[1] \in Key /\ r[2] \in Machine
  BY DEF RowId
<1>2. Place(t) /\ RowOf(r) /\ instance[r] \in InstanceRow
  BY TypeParts DEF Barrier, AllPlaced, AllRows, IInv, RowsOK
<1>3. r[2] \in run[t].grp => PlacedIn(r[2], task[t].cluster)
  BY <1>2 DEF Place
<1>4. CASE StoreNodes(t)
  BY <1>1, <1>3, <1>4 DEF StoreNodes, UpInsertInstanceBatch, TouchedBy, Stored
<1>5. CASE DeployInsert(t)
  <2>1. r[1] = t /\ r[2] \in run[t].grp
    BY <1>5 DEF DeployInsert, BatchCreate
  <2>2. ~Exists(r)
    BY <1>1, <1>5, <2>1 DEF DeployInsert, CanBatchCreate
  <2> QED
    BY <1>3, <1>5, <2>1, <2>2 DEF TouchedBy, Inserted
<1>6. CASE DeployMark(t)
  <2>1. /\ Exists(r) /\ instance[r].cluster = task[t].cluster
        /\ instance'[r] = [instance[r] EXCEPT !.status = "DELETED"]
    BY <1>6 DEF DeployMark, MarkClusterDeleted
  <2>2. PlacedIn(r[2], task[t].cluster)
    BY <1>2, <2>1 DEF RowOf
  <2>3. instance'[r].status = "DELETED"
    BY <1>2, <2>1, StatusSet
  <2> QED
    BY <1>6, <2>2, <2>3 DEF TouchedBy, Buried
<1>7. CASE ShrinkDb(t)
  <2>1. r[2] \in run[t].grp /\ instance'[r] = [instance[r] EXCEPT !.status = "DELETED"]
    BY <1>7 DEF ShrinkDb, BatchUpdateStatusByIds
  <2>2. instance'[r].status = "DELETED"
    BY <1>2, <2>1, StatusSet
  <2> QED
    BY <1>3, <1>7, <2>1, <2>2 DEF TouchedBy, Buried
<1>8. CASE MountDb(t)
  <2>1. /\ r[1] = run[t].key /\ r[2] \in run[t].grp /\ Exists(r)
        /\ instance'[r] = [instance[r] EXCEPT !.status = "ALB"]
    BY <1>8 DEF MountDb, BatchUpdateStatus
  <2>2. instance'[r].status = "ALB"
    BY <1>2, <2>1, StatusSet
  <2> QED
    BY <1>3, <1>8, <2>1, <2>2 DEF TouchedBy, Mounts
<1>9. CASE UmountDb(t)
  <2>1. r[1] # 0
    BY <1>1, IdAssumption DEF Key
  <2> QED
    BY <1>9, <2>1 DEF UmountDb, BatchUpdateStatus, UmountTaskId
<1> QED
  BY <1>4, <1>5, <1>6, <1>7, <1>8, <1>9

LEMMA RowTouched ==
  ASSUME Barrier, [Next]_vars, NEW r \in RowId, instance'[r] # instance[r]
  PROVE  (\E t \in TaskId : RunStep(t) /\ TouchedBy(t, r)) \/ \E g \in node : AnsweredBy(g, r)
<1>1. CASE \E t \in TaskId : RunStep(t)
  <2>1. PICK t \in TaskId : RunStep(t)
    BY <1>1
  <2> QED
    BY <2>1, RowsKeptByRun, RunTouches
<1>2. ASSUME NEW g \in node, NodeStep(g) PROVE AnsweredBy(g, r)
  <2>1. PICK ok \in Outcomes("ssh"), stored \in Outcomes("db") :
          instance' = IF stored THEN UpdateInst(g.key, g.inst, Reported(g, ok)) ELSE instance
    BY <1>2 DEF NodeStep, NodeReturns
  <2>2. node' = node \ {g} /\ UNCHANGED run
    BY <1>2 DEF NodeStep, NodeReturns
  <2>3. Reported(g, ok) \in {g.target, "FAIL"}
    BY DEF Reported
  <2>4. /\ r = <<g.key, g.inst>> /\ Exists(r)
        /\ instance'[r] = [instance[r] EXCEPT !.status = Reported(g, ok)]
    BY <2>1 DEF UpdateInst
  <2>5. instance[r] \in InstanceRow
    BY TypeParts DEF Barrier, IInv, RowsOK
  <2> QED
    BY <2>2, <2>3, <2>4, <2>5, StatusSet DEF AnsweredBy
<1>3. CASE Request \/ Panic \/ Crash \/ Restart \/ Idle \/ UNCHANGED vars \/ \E b \in BxTaskId : BxStep(b)
  BY <1>3 DEF Request, ExpandAction, ShrinkAction, DeployAction, CreateAndRun, Panic, TaskPanics,
       PollPanics, Crash, ProcessDies, Restart, Idle, vars, BxStep
<1> QED
  BY <1>1, <1>2, <1>3 DEF Next

\* A goroutine that touches a row runs, and moves on.
LEMMA TouchMoves ==
  ASSUME IInv, NEW t \in TaskId, RunStep(t), NEW r, TouchedBy(t, r)
  PROVE  /\ Running(t) /\ run'[t].pc # run[t].pc /\ MovesAlone(t)
         /\ run[t].pc \in {"store", "deploy_insert", "deploy_mark", "mount_db", "shrink_db"}
<1>1. CASE StoreNodes(t) \/ DeployInsert(t) \/ DeployMark(t)
  <2>1. \/ run[t].pc = "store" /\ run'[t].pc = "node_poll"
        \/ run[t].pc = "deploy_insert" /\ run'[t].pc = "deploy_wait"
        \/ run[t].pc = "deploy_mark" /\ run'[t].pc = "deploy_insert"
    BY <1>1, GotoMoves DEF StoreNodes, DeployInsert, DeployMark, At, MovesTo
  <2> QED
    BY <1>1, <2>1, RunStepAlone DEF Running, Active, Calls
<1>2. CASE MountDb(t) \/ ShrinkDb(t)
  <2>1. run[t].pc \in {"mount_db", "shrink_db"} /\ Succeed(t, run[t])
    BY <1>2 DEF MountDb, ShrinkDb, At
  <2>2. Leaves(t)
    BY <2>1, LeavesAfter, RunFacts
  <2>3. run'[t].pc \in {"relation", "next", "finish"}
    BY <2>2 DEF Leaves, GoesOn, MovesTo
  <2> QED
    BY <2>1, <2>3, RunStepAlone DEF Running, Active, Calls
<1> QED
  BY <1>1, <1>2 DEF TouchedBy, Stored, Inserted, Buried, Mounts

\* A task that runs has its cluster for itself: nobody else writes its rows.
LEMMA Undisturbed ==
  ASSUME Barrier, OneActive, AllAwaited, [Next]_vars, NEW u \in TaskId, Running(u),
         NEW r \in RowId, PlacedIn(r[2], task[u].cluster), instance'[r] # instance[r]
  PROVE  (RunStep(u) /\ TouchedBy(u, r)) \/ \E g \in InFlight(u) : AnsweredBy(g, r)
<1>1. ASSUME NEW t \in TaskId, RunStep(t), TouchedBy(t, r) PROVE t = u
  <2>1. Running(t) /\ PlacedIn(r[2], task[t].cluster)
    BY <1>1, TouchMoves DEF Barrier, TouchedBy
  <2> QED
    BY <2>1 DEF OneActive, PlacedIn
<1>2. ASSUME NEW g \in node, AnsweredBy(g, r) PROVE g \in InFlight(u)
  <2>1. Sent(g) /\ Awaited(g) /\ g.task \in TaskId /\ IInv
    BY SentFacts DEF Barrier, AllSent, AllAwaited
  <2>2. r[2] = g.inst /\ Running(g.task) /\ PlacedIn(g.inst, task[g.task].cluster)
    BY <1>2, <2>1 DEF AnsweredBy, Sent, Awaited, Running, Active, Calls
  <2> QED
    BY <2>1, <2>2 DEF OneActive, PlacedIn, InFlight
<1> QED
  BY <1>1, <1>2, RowTouched

\* A living row of a machine of its cluster stays alive while an expand runs.
LEMMA LiveStays ==
  ASSUME Barrier, OneActive, AllAwaited, [Next]_vars, NEW u \in TaskId, Running(u),
         task[u].kind = "Expand", NEW r \in RowId, PlacedIn(r[2], task[u].cluster), Live(r)
  PROVE  Live(r)'
<1>1. CASE instance'[r] = instance[r]
  BY <1>1 DEF Live, Exists
<1>2. CASE RunStep(u) /\ TouchedBy(u, r)
  <2>1. ~DeployMark(u) /\ ~ShrinkDb(u)
    BY ExpandCalls DEF Barrier, DeployMark, ShrinkDb, At, Calls
  <2>2. instance'[r].status = "ALB"
    BY <1>2, <2>1 DEF TouchedBy, Stored, Inserted, Buried, Mounts, Live
  <2> QED
    BY <2>2 DEF Live, Exists, None
<1>3. ASSUME NEW g \in InFlight(u), AnsweredBy(g, r) PROVE Live(r)'
  <2>1. g.target \in Targets
    BY SentFacts DEF InFlight, Barrier, AllSent, Goroutine
  <2> QED
    BY <1>3, <2>1 DEF AnsweredBy, Live, Exists, None, Targets
<1> QED
  BY <1>1, <1>2, <1>3, Undisturbed

\* Others never write to the rows a task handles, its own calls only there.
LEMMA QuietRow ==
  ASSUME Barrier, OneActive, AllAwaited, [Next]_vars, NEW u \in TaskId, Running(u),
         run[u].pc \notin {"node_poll", "deploy_wait"},
         \/ run'[u].pc = run[u].pc
         \/ run[u].pc \notin {"store", "deploy_insert", "deploy_mark", "mount_db", "shrink_db"},
         NEW r \in RowId, PlacedIn(r[2], task[u].cluster)
  PROVE  instance'[r] = instance[r]
<1>1. ~(RunStep(u) /\ TouchedBy(u, r))
  BY TouchMoves DEF Barrier
<1>2. InFlight(u) = {}
  BY DEF AllAwaited, Awaited, InFlight
<1> QED
  BY <1>1, <1>2, Undisturbed

-----------------------------------------------------------------------------
(* Commands are awaited. *)

\* The command of a task that polls has the target of its instruction.
LEMMA PolledTarget ==
  ASSUME IInv, NEW g \in node, Sent(g), g.task \in TaskId, run[g.task].pc = "node_poll"
  PROVE  g.target = Target(Instr(g.task)) /\ g.key = run[g.task].key
<1>1. task[g.task].kind = "Expand" /\ g.key = run[g.task].key /\ (BaseSent(g) \/ SvcSent(g))
  BY DEF Sent
<1>2. run[g.task].i \in {2, 3}
  BY <1>1, ExpandCalls DEF BaseSent, SvcSent, Calls
<1>3. /\ run[g.task].i = 2 => Instr(g.task) = "nodeact.initbase"
      /\ run[g.task].i = 3 => Instr(g.task) = "nodeact.initsvc"
  BY <1>1, ExpandCalls
<1> QED
  BY <1>1, <1>2, <1>3 DEF BaseSent, SvcSent, Target

LEMMA OldAwaited ==
  ASSUME Timely, IdsApart, Barrier, OneActive, AllAwaited, [Next]_vars, NEW g \in node, g \in node'
  PROVE  Awaited(g)'
<1> DEFINE u == g.task
           r == <<g.key, g.inst>>
<1>1. /\ IInv /\ Sent(g) /\ Awaited(g) /\ u \in TaskId /\ r \in RowId
      /\ g.inst \in Machine /\ r[2] = g.inst /\ PlacedIn(r[2], task[u].cluster)
  <2>1. IInv /\ AllKnown /\ Sent(g) /\ Awaited(g)
    BY DEF Barrier, AllSent, AllAwaited
  <2> QED
    BY <2>1, SentFacts DEF Sent
<1>2. Running(u) /\ run[u].pc # "idle" /\ run[u].pc \in {"node_poll", "deploy_wait"} /\ g \in InFlight(u)
  BY <1>1 DEF Awaited, Running, Active, Calls, InFlight
<1>3. instance'[r] = instance[r]
  <2>1. ~(RunStep(u) /\ TouchedBy(u, r))
    BY <1>1, <1>2, TouchMoves
  <2>2. ASSUME NEW h \in InFlight(u), AnsweredBy(h, r) PROVE FALSE
    <3>1. h \in node /\ h.key = g.key /\ h.inst = g.inst
      BY <2>2 DEF AnsweredBy, InFlight
    <3>2. g = h
      BY <3>1, OwnRow
    <3> QED
      BY <2>2, <3>2 DEF AnsweredBy
  <2> QED
    BY <1>1, <1>2, <2>1, <2>2, Undisturbed
<1>4. ~RunStep(u)
  <2> SUFFICES ASSUME RunStep(u) PROVE FALSE
    OBVIOUS
  <2>1. CASE DeployWaited(u)
    BY <1>2, <2>1 DEF DeployWaited
  <2>2. CASE NodePolled(u)
    <3>1. run[u].pc = "node_poll" /\ RatePass(run[u].key, Target(Instr(u)))
      BY <2>2 DEF NodePolled, At
    <3>2. g.target = Target(Instr(u)) /\ g.key = run[u].key
      BY <1>1, <3>1, PolledTarget
    <3>3. g.inst \in InstsOfTask(run[u].key)
      BY <1>1, <3>2 DEF InstsOfTask, Sent
    <3>4. g.inst \in InstsQueryByTaskId(run[u].key, Target(Instr(u)))
      BY <3>1, <3>3 DEF RatePass
    <3> QED
      BY <1>1, <3>1, <3>2, <3>4 DEF InstsQueryByTaskId, Awaited
  <2>3. CASE run[u].pc = "node_poll" /\ InstrFails(u)
    BY <1>2, <2>3 DEF InstrFails, CallRefused, PollGivesUp, ErrorReturn, Slow, Timely
  <2> QED
    BY <1>1, <1>2, <2>1, <2>2, <2>3, CallMade
<1>5. run'[u] = run[u]
  BY <1>1, <1>2, <1>4, EveryMoveIs DEF Dies, MovesAlone
<1> QED
  BY <1>1, <1>3, <1>5 DEF Awaited, Live, Exists

LEMMA StoredRow ==
  ASSUME IInv, NEW t \in TaskId, StoreNodes(t), NEW m \in run[t].grp
  PROVE  LET r == <<run[t].key, m>> IN
         /\ m \in Machine /\ r \in RowId /\ run[t].key \in Key
         /\ ~Exists(r) => instance'[r].status = "INIT"
         /\ Exists(r) => instance'[r] = instance[r]
<1>1. PICK k \in BxTaskId : k = run[t].key
  BY StoreFacts
<1>2. m \in Machine /\ <<k, m>> \in RowId /\ k \in Key
  BY <1>1, StoreFacts DEF RowId, Key
<1>3. instance'[<<k, m>>] = IF ~Exists(<<k, m>>) THEN NewRow(StoredCluster(t)) ELSE instance[<<k, m>>]
  BY <1>1, <1>2 DEF StoreNodes, UpInsertInstanceBatch
<1>4. NewRow(StoredCluster(t)).status = "INIT"
  BY DEF NewRow
<1> QED
  BY <1>1, <1>2, <1>3, <1>4

LEMMA NewAwaited ==
  ASSUME Barrier, AllHeld, [Next]_vars, NEW g \in node', g \notin node
  PROVE  Awaited(g)'
<1>1. PICK t \in TaskId : StoreNodes(t) \/ DeployInsert(t) \/ DeployQuery(t)
  BY CommandsStart DEF Starts
<1>2. IInv /\ AllKnown /\ run[t] \in RunRec
  BY RunFacts DEF Barrier
<1>3. CASE StoreNodes(t)
  <2>1. /\ run[t].pc = "store" /\ task[t].kind = "Expand" /\ run[t].i \in {2, 3} /\ run[t].key # 0
        /\ run'[t].pc = "node_poll"
    BY <1>2, <1>3, StoreFacts DEF RunRec
  <2>2. PICK m \in run[t].grp : g = [task |-> t, key |-> run[t].key, inst |-> m, target |-> Target(Instr(t))]
    BY <1>3, NewCommands DEF CommandsOf
  <2>3. g.task = t /\ g.key = run[t].key /\ g.inst = m /\ g.target = Target(Instr(t))
    BY <2>2
  <2>4. CASE run[t].i = 2
    <3>1. g.target = "BASE"
      BY <1>2, <2>1, <2>3, <2>4, ExpandCalls DEF Target
    <3>2. InstsOfTask(run[t].key) = {}
      BY <1>2, <2>1, <2>4, KnownKeys DEF Barrier, AllStocked, Stocked, FreshRun
    <3>3. ~Exists(<<run[t].key, m>>)
      BY <1>2, <1>3, <3>2, StoredRow DEF InstsOfTask
    <3>4. instance'[<<run[t].key, m>>].status = "INIT"
      BY <1>2, <1>3, <3>3, StoredRow
    <3> QED
      BY <2>1, <2>3, <3>1, <3>4 DEF Awaited, Live, Exists, None
  <2>5. CASE run[t].i = 3
    <3>1. g.target = "SVC"
      BY <1>2, <2>1, <2>3, <2>5, ExpandCalls DEF Target
    <3>2. instance[<<run[t].key, m>>].status = "BASE"
      BY <2>1, <2>5 DEF AllHeld, Held, BasedRun, Running, Active, Calls
    <3>3. instance'[<<run[t].key, m>>].status = "BASE"
      BY <1>2, <1>3, <3>2, StoredRow DEF Exists, None
    <3> QED
      BY <2>1, <2>3, <3>1, <3>3 DEF Awaited, Live, Exists, None
  <2> QED
    BY <2>1, <2>4, <2>5
<1>4. CASE DeployInsert(t)
  <2>1. run'[t].pc = "deploy_wait"
    BY <1>2, <1>4, DeployFacts DEF RunRec
  <2>2. PICK m \in run[t].grp : g = [task |-> t, key |-> t, inst |-> m, target |-> Target(Instr(t))]
    BY <1>4, NewCommands DEF CommandsOf
  <2>3. g.task = t /\ g.key = t /\ g.inst = m
    BY <2>2
  <2>4. <<t, m>> \in RowId
    BY <1>2 DEF RunRec, RowId, Key
  <2>5. instance'[<<t, m>>] = NewRow(task[t].cluster)
    BY <1>4, <2>4 DEF DeployInsert, BatchCreate
  <2>6. instance'[<<t, m>>].status = "INIT"
    BY <2>5 DEF NewRow
  <2> QED
    BY <2>1, <2>3, <2>6 DEF Awaited, Live, Exists, None
<1>5. CASE DeployQuery(t)
  <2>1. run'[t].pc = "deploy_wait"
    BY <1>2, <1>5, DeployFacts DEF RunRec
  <2>2. PICK m \in InstsQueryByTaskId(t, Previous(Instr(t))) :
           g = [task |-> t, key |-> t, inst |-> m, target |-> Target(Instr(t))]
    BY <1>5, NewCommands DEF CommandsOf
  <2>3. g.task = t /\ g.key = t /\ g.inst = m
    BY <2>2
  <2>4. instance'[<<t, m>>].status = Previous(Instr(t))
    BY <1>5, <2>2 DEF InstsQueryByTaskId, DeployQuery
  <2>5. Previous(Instr(t)) \notin {None, "DELETED"}
    BY DEF Previous, None
  <2> QED
    BY <2>1, <2>3, <2>4, <2>5 DEF Awaited, Live, Exists
<1> QED
  BY <1>1, <1>3, <1>4, <1>5

LEMMA AwaitedStays ==
  ASSUME Timely, IdsApart, Barrier, Serial, [Next]_vars
  PROVE  AllAwaited'
BY OldAwaited, NewAwaited DEF AllAwaited, Serial

-----------------------------------------------------------------------------
(* What an expand holds *)

\* A call of the task that leaves the rows of its machines alone.
Still(t) ==
    /\ Running(t) /\ run[t].pc \notin {"node_poll", "deploy_wait"}
    /\ \/ run'[t].pc = run[t].pc
       \/ run[t].pc \notin {"store", "deploy_insert", "deploy_mark", "mount_db", "shrink_db"}

LEMMA NoRowsStays ==
  ASSUME Barrier, Serial, [Next]_vars, NEW t \in TaskId, Still(t),
         NEW m \in Machine, PlacedIn(m, task[t].cluster), NoRows(m)
  PROVE  NoRows(m)'
<1> SUFFICES ASSUME NEW k \in Key PROVE ~Exists(<<k, m>>)'
  BY DEF NoRows
<1> DEFINE r == <<k, m>>
<1>1. r \in RowId /\ r[2] = m
  BY DEF RowId
<1>2. instance'[r] = instance[r]
  BY <1>1, QuietRow DEF Serial, Still
<1> QED
  BY <1>1, <1>2 DEF NoRows, Exists

LEMMA StatusStays ==
  ASSUME Barrier, Serial, [Next]_vars, NEW t \in TaskId, Still(t),
         NEW m \in Machine, NEW k \in Key, PlacedIn(m, task[t].cluster)
  PROVE  instance'[<<k, m>>] = instance[<<k, m>>]
<1> DEFINE r == <<k, m>>
<1>1. r \in RowId /\ r[2] = m
  BY DEF RowId
<1> QED
  BY <1>1, QuietRow DEF Serial, Still

\* The groups and rows of an expand that holds on to what it has.
HoldsFresh(t) == FreshRun(run[t]) => \A m \in run[t].grp : NoRows(m)
HoldsStored(t) == StoredRun(run[t]) => \A m \in run[t].grp : Live(<<run[t].key, m>>)
HoldsBased(t) == BasedRun(run[t]) => \A m \in run[t].grp : instance[<<run[t].key, m>>].status = "BASE"
HoldsPolled(t) == run[t].pc = "expand_poll" => \A m \in bx[run[t].bx].machines : NoRows(m)

LEMMA HeldParts ==
  ASSUME NEW t \in TaskId
  PROVE  Held(t) <=> HoldsPolled(t) /\ HoldsFresh(t) /\ HoldsStored(t) /\ HoldsBased(t)
BY DEF Held, HoldsPolled, HoldsFresh, HoldsStored, HoldsBased

LEMMA ExpandFacts ==
  ASSUME Barrier, NEW t \in TaskId, task[t].kind = "Expand"
  PROVE  /\ IInv /\ run[t] \in RunRec /\ run[t].grp \subseteq Machine /\ run[t].i \in 1..4
         /\ \A m \in run[t].grp : PlacedIn(m, task[t].cluster)
         /\ run[t].i > 1 => run[t].key \in BxTaskId /\ run[t].key \in Key /\ run[t].key # 0
<1>1. IInv /\ Place(t)
  BY DEF Barrier, AllPlaced
<1>2. run[t] \in RunRec /\ Consistent(run[t], task[t].kind) /\ run[t].i \in 1..4
  BY <1>1, RunFacts, ExpandCalls
<1>3. \A b \in BxTaskId : b # 0 /\ b \in Key
  BY IdAssumption DEF Key
<1> QED
  BY <1>1, <1>2, <1>3 DEF RunRec, Place, Consistent

LEMMA PolledHeld ==
  ASSUME Barrier, Serial, [Next]_vars, NEW t \in TaskId, Running(t), task[t].kind = "Expand", Held(t),
         ExpandMove(t)
  PROVE  HoldsPolled(t)'
<1> SUFFICES ASSUME run'[t].pc = "expand_poll", NEW m \in bx'[run'[t].bx].machines
             PROVE  NoRows(m)'
  BY DEF HoldsPolled
<1>1. /\ IInv /\ run[t] \in RunRec /\ AllKnown /\ BxTasksStay /\ Place(t) /\ CloudTypeOK /\ AllRows
      /\ Consistent(run[t], task[t].kind) /\ run[t].pc # "idle"
  <2>1. IInv /\ AllKnown /\ AllRows /\ Place(t)
    BY DEF Barrier, AllPlaced
  <2> QED
    BY <2>1, RunFacts, CloudStays, TypeParts DEF IInv, ExpandMove
<1>2. CASE run[t].pc = "expand_poll"
  <2>1. run'[t] = run[t]
    BY <1>2 DEF ExpandMove, GetsTask, GetsMachines, GetsNodes, MovesTo
  <2>2. PICK b \in BxTaskId : b = run[t].bx
    BY <1>1, <1>2 DEF Consistent
  <2>3. b # 0 /\ bx[b].kind # None
    BY <1>1, <2>2, IdAssumption DEF AllKnown, Known
  <2>4. m \in bx[b].machines
    BY <1>1, <2>1, <2>2, <2>3 DEF BxTasksStay
  <2>5. m \in Machine /\ PlacedIn(m, task[t].cluster) /\ NoRows(m)
    BY <1>1, <1>2, <2>2, <2>4 DEF CloudTypeOK, Place, Held
  <2>6. Still(t)
    BY <1>2, <2>1 DEF Still
  <2> QED
    BY <2>5, <2>6, NoRowsStays
<1>3. CASE run[t].pc # "expand_poll"
  <2>1. GetsTask(t) /\ run[t].pc = "expand_call" /\ RunStep(t)
    <3>1. GetsTask(t)
      BY <1>1, <1>3 DEF ExpandMove, GetsMachines, GetsNodes, MovesTo
    <3>2. run[t].pc = "expand_call"
      BY <3>1 DEF GetsTask, MovesTo
    <3> QED
      BY <1>1, <3>1, <3>2, StepAt
  <2>2. ~InstrFails(t) /\ ~Fail(t)
    BY <1>1, FailsMeans
  <2>3. PICK b \in NextBx, ms \in SUBSET FreeMachines :
          /\ BxExpand(b, task[t].cluster, ms)
          /\ run' = [run EXCEPT ![t].pc = "expand_poll", ![t].bx = b]
    BY <2>1, <2>2, CallMade DEF ExpandCall
  <2>4. UNCHANGED instance
    BY <2>1, <2>2, CallMade DEF ExpandCall
  <2>5. run'[t].bx = b
    BY <1>1, <2>3, TypeParts DEF IInv, RunsOK, RunRec
  <2>6. bx'[b].machines = ms
    BY <1>1, <2>3 DEF BxExpand, CloudTypeOK, NextBx
  <2>7. m \in FreeMachines
    BY <2>3, <2>5, <2>6
  <2>8. NoRows(m)
    <3> SUFFICES ASSUME NEW k \in Key, Exists(<<k, m>>) PROVE FALSE
      BY DEF NoRows
    <3>1. <<k, m>> \in RowId /\ m \in Machine
      BY <2>7 DEF RowId, FreeMachines
    <3>2. RowOf(<<k, m>>)
      BY <1>1, <3>1 DEF AllRows
    <3> QED
      BY <2>7, <3>2 DEF RowOf, PlacedIn, FreeMachines
  <2> QED
    BY <2>4, <2>8 DEF NoRows, Exists
<1> QED
  BY <1>2, <1>3

LEMMA FreshHeld ==
  ASSUME Barrier, Serial, [Next]_vars, NEW t \in TaskId, Running(t), task[t].kind = "Expand", Held(t),
         ExpandMove(t)
  PROVE  HoldsFresh(t)'
<1> SUFFICES ASSUME FreshRun(run'[t]), NEW m \in run'[t].grp PROVE NoRows(m)'
  BY DEF HoldsFresh
<1>1. run[t] \in RunRec /\ Place(t) /\ \A n \in run[t].grp : n \in Machine /\ PlacedIn(n, task[t].cluster)
  BY ExpandFacts DEF Barrier, AllPlaced
<1>2. CASE FreshRun(run[t]) /\ run'[t].grp = run[t].grp
  <2>1. Still(t)
    BY <1>2 DEF Still, FreshRun, ExpandMove, GetsTask, GetsMachines, GetsNodes, MovesTo
  <2> QED
    BY <1>1, <1>2, <2>1, NoRowsStays DEF Held
<1>3. CASE GetsMachines(t)
  <2>1. run[t].pc = "expand_poll" /\ run'[t].pc = "get_cluster" /\ m \in bx[run[t].bx].machines
        /\ m \in Machine
    <3>1. m \in TaskInstances(run[t].bx) /\ run[t].pc = "expand_poll" /\ run'[t].pc = "get_cluster"
      BY <1>3 DEF GetsMachines, MovesTo
    <3>2. run[t].bx \in BxTaskId /\ CloudTypeOK
      BY <3>1, RunFacts, TypeParts DEF Barrier, IInv, Consistent
    <3> QED
      BY <3>1, <3>2 DEF TaskInstances, CloudTypeOK
  <2>2. Still(t)
    BY <2>1 DEF Still
  <2> QED
    BY <1>1, <2>1, <2>2, NoRowsStays DEF Held, Place
<1>4. (FreshRun(run[t]) /\ run'[t].grp = run[t].grp) \/ GetsMachines(t)
  BY <1>1 DEF ExpandMove, FreshRun, GetsTask, GetsNodes, MovesTo, SameHands, RunRec
<1> QED
  BY <1>2, <1>3, <1>4

LEMMA StoredHeld ==
  ASSUME Barrier, Serial, [Next]_vars, NEW t \in TaskId, Running(t), Running(t)',
         task[t].kind = "Expand", Held(t), ExpandMove(t)
  PROVE  HoldsStored(t)'
<1> SUFFICES ASSUME StoredRun(run'[t]), NEW m \in run'[t].grp PROVE Live(<<run[t].key, m>>)'
  BY DEF HoldsStored
<1>1. /\ IInv /\ run[t] \in RunRec /\ run[t].grp \subseteq Machine /\ run[t].i \in 1..4
      /\ \A n \in run[t].grp : PlacedIn(n, task[t].cluster)
      /\ run[t].i > 1 => run[t].key \in Key /\ run[t].key # 0
  BY ExpandFacts
<1>2. ASSUME run[t].i > 1, run'[t].key = run[t].key, m \in Machine,
             PlacedIn(m, task[t].cluster), Live(<<run[t].key, m>>)
      PROVE  Live(<<run[t].key, m>>)'
  <2>1. PICK k \in Key : k = run[t].key
    BY <1>1, <1>2
  <2>2. <<k, m>> \in RowId /\ <<k, m>>[2] = m
    BY <1>2 DEF RowId
  <2>3. Live(<<k, m>>)'
    BY <1>2, <2>1, <2>2, LiveStays DEF Serial
  <2> QED
    BY <1>2, <2>1, <2>3 DEF Live, Exists
<1>3. CASE StoredRun(run[t]) /\ SameHands(t)
  <2>1. run[t].i > 1
    BY <1>1, <1>3 DEF StoredRun
  <2> QED
    BY <1>1, <1>2, <1>3, <2>1 DEF Held, SameHands, SameKeys
<1>4. CASE GetsNodes(t) /\ run[t].i > 1
  <2>1. m \in InstsQueryByTaskId(run[t].key, Target(Instr(t))) /\ run'[t].key = run[t].key
    BY <1>4 DEF GetsNodes, SameKeys
  <2>2. m \in InstsOfTask(run[t].key) /\ instance[<<run[t].key, m>>].status = Target(Instr(t))
    BY <2>1 DEF InstsQueryByTaskId
  <2>3. m \in Machine /\ Exists(<<run[t].key, m>>)
    BY <2>2 DEF InstsOfTask
  <2>4. Target(Instr(t)) # "DELETED"
    BY DEF Target
  <2>5. PlacedIn(m, task[t].cluster)
    BY <1>1, <1>4, <2>2 DEF Barrier, AllPlaced, Place
  <2> QED
    BY <1>2, <1>4, <2>1, <2>2, <2>3, <2>4, <2>5 DEF Live
<1>5. CASE run[t].i = 2 /\ run[t].pc = "store" /\ run'[t].pc = "node_poll"
  <2>1. StoreNodes(t)
    BY <1>1, <1>5, PollFollowsStore
  <2>2. run'[t].grp = run[t].grp /\ run'[t].key = run[t].key
    BY <1>1, <2>1, StoreFacts DEF RunRec
  <2>3. NoRows(m)
    BY <1>5, <2>2 DEF Held, FreshRun
  <2>4. ~Exists(<<run[t].key, m>>)
    BY <1>1, <1>5, <2>3 DEF NoRows
  <2>5. instance'[<<run[t].key, m>>].status = "INIT"
    BY <1>1, <2>1, <2>2, <2>4, StoredRow
  <2> QED
    BY <2>2, <2>5 DEF Live, Exists, None
<1>6. \/ StoredRun(run[t]) /\ SameHands(t)
      \/ GetsNodes(t) /\ run[t].i > 1
      \/ run[t].i = 2 /\ run[t].pc = "store" /\ run'[t].pc = "node_poll"
  <2>1. run'[t].pc \in Active
    BY DEF Running
  <2>2. run'[t] = run[t] => SameHands(t)
    BY DEF SameHands, SameKeys
  <2> QED
    BY <1>1, <2>1, <2>2 DEF ExpandMove, StoredRun, GetsTask, GetsMachines, GetsNodes, MovesTo, Active, Calls, RunRec
<1> QED
  BY <1>3, <1>4, <1>5, <1>6

LEMMA BasedHeld ==
  ASSUME Barrier, Serial, [Next]_vars, NEW t \in TaskId, Running(t), task[t].kind = "Expand", Held(t),
         ExpandMove(t)
  PROVE  HoldsBased(t)'
<1> SUFFICES ASSUME BasedRun(run'[t]), NEW m \in run'[t].grp
             PROVE  instance'[<<run'[t].key, m>>].status = "BASE"
  BY DEF HoldsBased
<1>1. /\ IInv /\ run[t] \in RunRec /\ run[t].grp \subseteq Machine /\ run[t].i \in 1..4
      /\ \A n \in run[t].grp : PlacedIn(n, task[t].cluster)
      /\ run[t].i > 1 => run[t].key \in Key /\ run[t].key # 0
  BY ExpandFacts
<1>2. CASE BasedRun(run[t]) /\ SameHands(t)
  <2>1. Still(t)
    <3>1. run'[t].pc = run[t].pc \/ run[t].pc # "store"
      BY <1>2 DEF BasedRun, ExpandMove, GetsTask, GetsMachines, GetsNodes, MovesTo
    <3> QED
      BY <1>2, <3>1 DEF Still, BasedRun
  <2>2. run[t].i > 1 /\ m \in run[t].grp /\ run'[t].key = run[t].key
    BY <1>1, <1>2 DEF BasedRun, SameHands, SameKeys
  <2> QED
    BY <1>1, <1>2, <2>1, <2>2, StatusStays DEF Held
<1>3. CASE GetsNodes(t) /\ run[t].i = 2
  <2>1. run[t].pc = "node_list" /\ m \in InstsQueryByTaskId(run[t].key, Target(Instr(t)))
        /\ run'[t].key = run[t].key
    BY <1>3 DEF GetsNodes, SameKeys
  <2>2. m \in InstsOfTask(run[t].key) /\ instance[<<run[t].key, m>>].status = "BASE"
    BY <1>1, <1>3, <2>1, ExpandCalls DEF InstsQueryByTaskId, Target
  <2>3. m \in Machine /\ PlacedIn(m, task[t].cluster)
    BY <1>1, <1>3, <2>2 DEF Barrier, AllPlaced, Place, InstsOfTask
  <2>4. Still(t)
    BY <2>1 DEF Still
  <2> QED
    BY <1>1, <1>3, <2>1, <2>2, <2>3, <2>4, StatusStays
<1>4. (BasedRun(run[t]) /\ SameHands(t)) \/ (GetsNodes(t) /\ run[t].i = 2)
  <2>1. run'[t] = run[t] => SameHands(t)
    BY DEF SameHands, SameKeys
  <2> QED
    BY <1>1, <2>1 DEF ExpandMove, BasedRun, GetsTask, GetsMachines, GetsNodes, MovesTo
<1> QED
  BY <1>2, <1>3, <1>4

LEMMA HeldStays ==
  ASSUME Barrier, Serial, [Next]_vars
  PROVE  AllHeld'
<1> SUFFICES ASSUME NEW t \in TaskId, task'[t].kind = "Expand", Running(t)' PROVE Held(t)'
  BY DEF AllHeld
<1>1. IInv
  BY DEF Barrier
<1>2. CASE Running(t) /\ SameTask(t)
  <2>1. task[t].kind = "Expand" /\ run[t].pc # "idle" /\ Held(t)
    BY <1>2 DEF SameTask, Serial, AllHeld, Running, Active, Calls
  <2>2. ExpandMove(t)
    BY <1>1, <2>1, EveryMove DEF IdleMove, OtherMove
  <2>3. HoldsPolled(t)' /\ HoldsFresh(t)' /\ HoldsStored(t)' /\ HoldsBased(t)'
    BY <1>2, <2>1, <2>2, PolledHeld, FreshHeld, StoredHeld, BasedHeld
  <2> QED
    BY <2>3 DEF Held, HoldsPolled, HoldsFresh, HoldsStored, HoldsBased
<1>3. CASE run[t].pc = "idle"
  <2>1. run'[t].pc \in {"idle", "next", "done"} /\ run'[t].i = 1
    BY <1>1, <1>3, EveryMove DEF IdleMove, ExpandMove, OtherMove
  <2> QED
    BY <2>1 DEF Held, FreshRun, StoredRun, BasedRun
<1> QED
  BY <1>1, <1>2, <1>3, RunningBefore

-----------------------------------------------------------------------------
(* A deploy between its two writes *)

\* Rows of machines that were not in a cluster before are no rows of it now.
LEMMA NewlyPlaced ==
  ASSUME Barrier, [Next]_vars, NEW t \in TaskId, NEW r \in RowId, r[2] \in Machine, SameTask(t),
         PlacedIn(r[2], task[t].cluster)', ~PlacedIn(r[2], task[t].cluster)
  PROVE  ~Exists(r)'
<1>1. MachinesStay /\ TasksStay /\ RowOf(r)
  BY CloudStays, EveryTaskStays DEF Barrier, AllRows
<1>2. \A sc : ~PlacedIn(r[2], sc)
  BY <1>1 DEF PlacedIn, MachinesStay, SameTask
<1>3. ~Exists(r)
  BY <1>1, <1>2 DEF RowOf
<1>4. instance'[r] = instance[r]
  BY <1>2, <1>3, RowTouched DEF TouchedBy, AnsweredBy
<1> QED
  BY <1>3, <1>4 DEF Exists

LEMMA MarkMoves ==
  ASSUME IInv, [Next]_vars, NEW t \in TaskId, run'[t].pc = "deploy_insert", run[t].pc # "deploy_insert"
  PROVE  DeployMark(t) /\ run[t].pc = "deploy_mark"
<1>1. \A action : FirstCall(action) # "deploy_insert"
  BY DEF FirstCall
<1>2. run[t].pc = "deploy_mark"
  <2>1. run'[t].pc # "dead" /\ run'[t] # run[t] /\ run[t] \in RunRec
    BY RunFacts
  <2>2. run'[t] # [run[t] EXCEPT !.pc = "dead"]
    BY <2>1 DEF RunRec
  <2>3. Move(t)
    BY EveryRunMoves
  <2> QED
    BY <1>1, <2>1, <2>2, <2>3 DEF Move, PlainMove, GetsTask, GetsMachines, GetsNodes, GetsCluster,
       CallPairs, Leaves, GoesOn, Errs, MovesTo
<1>3. RunStep(t)
  BY <1>2, StepAt
<1>4. ~InstrFails(t)
  BY FailsMeans
<1> QED
  BY <1>2, <1>3, <1>4
     DEF RunStep, At, BeginInstr, BeginInstrFails, SaveRelation, SaveRelationFails, ExpandCall,
         ExpandPolled, GetCluster, StoreNodes, NodePolled, NodeListed, MountCall, MountDb, UmountQuery,
         UmountCall, UmountDb, ShrinkPick, ShrinkPickFails, ShrinkCall, ShrinkPolled, ShrinkDb,
         DeployInstances, DeployInsert, DeployQuery, DeployWaited, Finish

LEMMA MarkedStays ==
  ASSUME Barrier, Serial, [Next]_vars
  PROVE  AllMarked'
<1> SUFFICES ASSUME NEW t \in TaskId, run'[t].pc = "deploy_insert",
                    NEW r \in RowId, PlacedIn(r[2], task[t].cluster)'
             PROVE  ~Live(r)'
  BY DEF AllMarked, Marked
<1>1. /\ IInv /\ MachinesStay /\ RowOf(r) /\ r[2] \in Machine /\ instance[r] \in InstanceRow
  BY CloudStays, TypeParts DEF Barrier, AllRows, RowId, IInv, RowsOK
<1>2. run[t].pc # "idle" /\ SameTask(t)
  <2>1. run[t].pc # "idle"
    BY <1>1, MarkMoves
  <2> QED
    BY <1>1, <2>1, EveryTaskStays DEF TasksStay
<1>3. CASE ~PlacedIn(r[2], task[t].cluster)
  BY <1>1, <1>2, <1>3, NewlyPlaced DEF Live
<1>4. CASE PlacedIn(r[2], task[t].cluster) /\ run[t].pc = "deploy_insert"
  <2>1. ~Live(r)
    BY <1>4 DEF Serial, AllMarked, Marked
  <2>2. instance'[r] = instance[r]
    BY <1>4, QuietRow DEF Serial, Running, Active, Calls
  <2> QED
    BY <2>1, <2>2 DEF Live, Exists
<1>5. CASE PlacedIn(r[2], task[t].cluster) /\ run[t].pc # "deploy_insert"
  <2>1. instance' = MarkClusterDeleted(task[t].cluster)
    BY <1>1, <1>5, MarkMoves DEF DeployMark
  <2>2. CASE Exists(r)
    <3>1. instance[r].cluster = task[t].cluster
      BY <1>1, <1>5, <2>2 DEF RowOf, PlacedIn
    <3>2. instance'[r] = [instance[r] EXCEPT !.status = "DELETED"]
      BY <2>1, <2>2, <3>1 DEF MarkClusterDeleted
    <3>3. instance'[r].status = "DELETED"
      BY <1>1, <3>2, StatusSet
    <3> QED
      BY <3>3 DEF Live
  <2>3. CASE ~Exists(r)
    BY <2>1, <2>3 DEF MarkClusterDeleted, Live, Exists
  <2> QED
    BY <2>2, <2>3
<1> QED
  BY <1>3, <1>4, <1>5

-----------------------------------------------------------------------------
(* A row that comes to life is new, and the only one of its machine. *)

LEMMA Woken ==
  ASSUME Barrier, Serial, [Next]_vars, NEW r \in RowId, ~Live(r), Live(r)'
  PROVE  \E t \in TaskId : RunStep(t) /\ PlacedIn(r[2], task[t].cluster)
                           /\ \/ Inserted(t, r)
                              \/ Stored(t, r) /\ FreshRun(run[t]) /\ NoRows(r[2])
<1>1. instance'[r] # instance[r]
  BY DEF Live, Exists
<1>2. r = <<r[1], r[2]>> /\ r[1] \in Key /\ r[2] \in Machine
  BY DEF RowId
<1>3. ASSUME NEW g \in node, AnsweredBy(g, r) PROVE FALSE
  BY <1>3 DEF AnsweredBy, Serial, AllAwaited, Awaited
<1>4. PICK t \in TaskId : RunStep(t) /\ TouchedBy(t, r)
  BY <1>1, <1>3, RowTouched
<1>5. IInv /\ Running(t)
  BY <1>4, TouchMoves DEF Barrier
<1>6. ~Buried(t, r)
  BY DEF Buried, Live
<1>7. ASSUME Mounts(t, r) PROVE FALSE
  <2>1. run[t].pc = "mount_db" /\ Exists(r) /\ r[1] = run[t].key /\ r[2] \in run[t].grp
    BY <1>7 DEF Mounts, MountDb, At
  <2>2. task[t].kind = "Expand" /\ run[t].i = 4
    <3>1. Instr(t) = "mount.slb"
      BY <1>5, <2>1, PcInstr
    <3>2. run[t].i \in 1..MaxInstr
      BY <1>5, RunFacts DEF RunRec
    <3>3. task[t].kind = "Expand"
      BY <3>1, <3>2 DEF Instr, InstrAt, InstanceDeployStep, MaxInstr
    <3> QED
      BY <1>5, <3>1, <3>3, ExpandCalls
  <2>3. Live(<<run[t].key, r[2]>>)
    BY <1>5, <2>1, <2>2 DEF Serial, AllHeld, Held, StoredRun
  <2> QED
    BY <1>2, <2>1, <2>3
<1>8. ASSUME Stored(t, r) PROVE FreshRun(run[t]) /\ NoRows(r[2])
  <2>1. /\ run[t].pc = "store" /\ task[t].kind = "Expand" /\ run[t].i \in {2, 3}
        /\ r[1] = run[t].key /\ r[2] \in run[t].grp /\ ~Exists(r)
    BY <1>5, <1>8, StoreFacts DEF Stored
  <2>2. Held(t)
    BY <1>5, <2>1 DEF Serial, AllHeld
  <2>3. run[t].i # 3
    BY <1>2, <2>1, <2>2 DEF Held, BasedRun, Exists, None
  <2> QED
    BY <2>1, <2>2, <2>3 DEF Held, FreshRun
<1> QED
  BY <1>4, <1>6, <1>7, <1>8 DEF TouchedBy

LEMMA OnlyRow ==
  ASSUME Barrier, Serial, [Next]_vars, NEW r \in RowId, NEW s \in RowId, r[2] = s[2],
         ~Live(r), Live(r)', Live(s)'
  PROVE  r = s
<1>1. PICK t \in TaskId : RunStep(t) /\ PlacedIn(r[2], task[t].cluster)
                          /\ (Inserted(t, r) \/ (Stored(t, r) /\ NoRows(r[2])))
  BY Woken
<1>2. /\ r = <<r[1], r[2]>> /\ s = <<s[1], s[2]>> /\ s[1] \in Key
  BY DEF RowId
<1>3. ~Live(s)
  <2>1. CASE NoRows(r[2])
    BY <1>2, <2>1 DEF NoRows, Live
  <2>2. CASE Inserted(t, r)
    BY <1>1, <2>2 DEF Inserted, DeployInsert, At, Serial, AllMarked, Marked
  <2> QED
    BY <1>1, <2>1, <2>2
<1>4. PICK u \in TaskId : RunStep(u) /\ (Inserted(u, s) \/ Stored(u, s))
  BY <1>3, Woken
<1>5. t = u
  <2>1. \A v \in TaskId, w \in RowId : (RunStep(v) /\ (Inserted(v, w) \/ Stored(v, w))) =>
           run'[v].pc # run[v].pc /\ MovesAlone(v)
    <3> SUFFICES ASSUME NEW v \in TaskId, NEW w \in RowId, RunStep(v), Inserted(v, w) \/ Stored(v, w)
                 PROVE  run'[v].pc # run[v].pc /\ MovesAlone(v)
      OBVIOUS
    <3>1. IInv
      BY DEF Barrier
    <3>2. (run[v].pc = "deploy_insert" /\ run'[v].pc = "deploy_wait")
          \/ (run[v].pc = "store" /\ run'[v].pc = "node_poll")
      BY <3>1, GotoMoves DEF Inserted, Stored, DeployInsert, StoreNodes, At, MovesTo
    <3> QED
      BY <3>1, <3>2, RunStepAlone
  <2> QED
    BY <1>1, <1>4, <2>1 DEF MovesAlone
<1>6. r[1] = s[1]
  BY <1>1, <1>4, <1>5 DEF Inserted, Stored, DeployInsert, StoreNodes, At
<1> QED
  BY <1>2, <1>6

LEMMA SingleStays ==
  ASSUME Barrier, Serial, [Next]_vars
  PROVE  Single'
BY OnlyRow DEF Single, Serial

LEMMA NextSerial ==
  ASSUME Patient, Timely, IdsApart, Barrier, Serial, [Next]_vars
  PROVE  Serial'
<1>1. OneActive' /\ Unended'
  BY TurnsStay DEF Barrier, Serial
<1> QED
  BY <1>1, AwaitedStays, HeldStays, MarkedStays, SingleStays DEF Serial

LEMMA InitSerial ==
  ASSUME Init
  PROVE  Serial
<1>1. node = {} /\ \A t \in TaskId : run[t].pc = "idle"
  BY DEF Init, NewRun
<1>2. PICK b0 : \A r \in RowId : Exists(r) => r[1] = b0
  BY DEF Init, NoRow, None, Exists
<1>3. \A r \in RowId : r = <<r[1], r[2]>>
  BY DEF RowId
<1> QED
  BY <1>1, <1>2, <1>3 DEF Serial, OneActive, Unended, AllAwaited, AllHeld, AllMarked, Marked, Single,
     Running, Active, Calls, Live

LEMMA AlwaysSerial ==
  ASSUME Patient, Timely
  PROVE  Spec /\ []IdsApart => []Serial
<1>1. Init => Serial
  BY InitSerial
<1>2. IdsApart /\ Barrier /\ Serial /\ [Next]_vars => Serial'
  BY NextSerial
<1> QED
  BY <1>1, <1>2, AlwaysBarrier, PTL DEF Spec

LEMMA SingleRows ==
  ASSUME Single
  PROVE  OneLiveRow
<1> SUFFICES ASSUME NEW m \in Machine PROVE Cardinality(LiveRows(m)) <= 1
  BY DEF OneLiveRow
<1>1. CASE LiveRows(m) = {}
  BY <1>1, FS_EmptySet
<1>2. CASE LiveRows(m) # {}
  <2>1. PICK r : LiveRows(m) = {r}
    BY <1>2 DEF LiveRows, Single, Live
  <2>2. Cardinality(LiveRows(m)) = 1
    BY <2>1, FS_Singleton, Zenon
  <2> QED
    BY <2>2
<1> QED
  BY <1>1, <1>2

(* Of all rows of a machine at most one is not DELETED: callers who wait for  *)
(* the task of a cluster to end before they ask for the next one, and whose   *)
(* commands do not outlast their polls, never leave a machine two rows for    *)
(* the next task to find it by.                                               *)
THEOREM RowsAreSingle ==
  ASSUME Patient, Timely
  PROVE  Spec /\ []IdsApart => []OneLiveRow
<1>1. Serial => OneLiveRow
  BY SingleRows DEF Serial
<1> QED
  BY <1>1, AlwaysSerial, PTL

-----------------------------------------------------------------------------
(* Calm: nothing is refused but by the load balancer, nothing fails but what *)
(* commands do on their machines.                                             *)
Calm == Faults \subseteq {"slb", "ssh"}

\* An expand that succeeds has initialised its machines.
Initialises == EndStep > 1

Up(m) == machine[m].state = "running"

(* The machine is in the hands of a task that has yet to write its rows or to *)
(* release it.                                                                *)
TransitOf(t, m) ==
    \/ run[t].pc = "expand_poll" /\ m \in bx[run[t].bx].machines
    \/ task[t].kind = "Expand" /\ FreshRun(run[t]) /\ m \in run[t].grp
    \/ run[t].pc = "deploy_insert" /\ PlacedIn(m, task[t].cluster)
    \/ run[t].pc \in {"shrink_poll", "shrink_db"} /\ m \in run[t].grp

InTransit(m) == \E t \in TaskId : TransitOf(t, m)

Synced(m) == Up(m) <=> \E r \in RowId : r[2] = m /\ Live(r)

Polls(t, b) == run[t].bx = b /\ run[t].pc \in {"expand_poll", "shrink_poll"}

\* BridgX works for a task that polls it.
BxPolled == \A b \in BxTaskId : bx[b].state = "working" => \E t \in TaskId : Polls(t, b)

ExpandWorks(x) ==
    /\ x.kind = "expand" /\ x.machines # {} /\ x.state \in {"working", "done"}
    /\ x.state = "done" => \A m \in x.machines : Up(m)

ShrinkWorks(x, ms) ==
    /\ x.kind = "shrink" /\ x.machines = ms /\ x.state \in {"working", "done"}
    /\ x.state = "done" => \A m \in x.machines : machine[m].state = "gone"

(* What a task carries from call to call: machines that run until they get    *)
(* their rows, and machines that are gone when theirs are marked.             *)
CarriesExpand(t) ==
    /\ run[t].pc = "expand_poll" => ExpandWorks(bx[run[t].bx])
    /\ (task[t].kind = "Expand" /\ FreshRun(run[t])) => \A m \in run[t].grp : Up(m)

CarriesShrink(t) ==
    /\ run[t].pc = "shrink_poll" => ShrinkWorks(bx[run[t].bx], run[t].grp)
    /\ run[t].pc = "shrink_db" => \A m \in run[t].grp : machine[m].state = "gone"

Unborn(r) == r.i = 1 /\ r.pc \in {"next", "deploy_instances", "deploy_mark", "deploy_insert"}

CarriesDeploy(t) ==
    /\ run[t].pc \in {"deploy_mark", "deploy_insert"} => run[t].grp = RunningIn(task[t].cluster)
    /\ (task[t].kind = "Deploy" /\ Unborn(run[t])) => \A m \in Machine : ~Exists(<<t, m>>)

AllCarried == \A t \in TaskId : CarriesExpand(t) /\ CarriesShrink(t) /\ CarriesDeploy(t)

AllSynced == \A m \in Machine : InTransit(m) \/ Synced(m)

Tracked == AllSynced /\ BxPolled /\ AllCarried

-----------------------------------------------------------------------------
(* In a calm no task is lost. *)

LEMMA CalmMove ==
  ASSUME Calm, IInv, [Next]_vars, NEW t \in TaskId, run'[t] # run[t], run[t].pc # "idle"
  PROVE  RunStep(t) /\ MovesAlone(t)
<1>1. ~Panic /\ ~Crash
  BY DEF Calm, Panic, TaskPanics, PollPanics, Crash
<1>2. ASSUME NEW u \in TaskId, RunStep(u) PROVE u = t
  BY <1>2, RunStepAlone DEF MovesAlone
<1>3. ~Request
  <2>1. ASSUME NEW u \in TaskId, NEW kind, NEW sc, NEW cnt, NEW isRollback,
               CreateAndRun(u, kind, sc, cnt, isRollback)
        PROVE  FALSE
    <3>1. run[u].pc = "idle" /\ MovesAlone(u)
      BY <2>1, GotoAlone DEF CreateAndRun
    <3> QED
      BY <3>1 DEF MovesAlone
  <2> QED
    BY <2>1 DEF Request, ExpandAction, ShrinkAction, DeployAction
<1>4. RunStep(t)
  BY <1>1, <1>2, <1>3 DEF Next, NodeStep, BxStep, Restart, Idle, vars
<1> QED
  BY <1>4, RunStepAlone

\* What a call whose machines are in transit may do.
LEMMA CalmCalls ==
  ASSUME Calm, NEW t \in TaskId, RunStep(t)
  PROVE  /\ run[t].pc = "expand_poll" => ExpandPolled(t) \/ (InstrFails(t) /\ PollGivesUp(t))
              \/ (InstrFails(t) /\ bx[run[t].bx].state = "done" /\ TaskInstances(run[t].bx) = {})
         /\ run[t].pc = "shrink_poll" => ShrinkPolled(t) \/ (InstrFails(t) /\ PollGivesUp(t))
         /\ run[t].pc = "get_cluster" => GetCluster(t)
         /\ run[t].pc = "relation" => SaveRelation(t)
         /\ run[t].pc = "next" => BeginInstr(t)
         /\ run[t].pc = "store" => StoreNodes(t)
         /\ run[t].pc = "shrink_db" => ShrinkDb(t)
         /\ run[t].pc = "deploy_mark" => DeployMark(t)
         /\ run[t].pc = "deploy_insert" =>
              DeployInsert(t) \/ (InstrFails(t) /\ ~CanBatchCreate(run[t].grp, t))
<1>1. ~BeginInstrFails(t) /\ ~SaveRelationFails(t)
  BY DEF Calm, BeginInstrFails, SaveRelationFails
<1>2. InstrFails(t) => /\ run[t].pc \notin {"get_cluster", "relation", "next", "store", "shrink_db", "deploy_mark"}
                       /\ run[t].pc \in {"expand_poll", "shrink_poll", "deploy_insert"} =>
                             PollGivesUp(t) \/ ErrorReturn(t)
  BY DEF Calm, InstrFails, CallRefused, PollGivesUp, ErrorReturn, Calls
<1>3. /\ (run[t].pc = "expand_poll" /\ ErrorReturn(t)) =>
            bx[run[t].bx].state = "done" /\ TaskInstances(run[t].bx) = {}
      /\ (run[t].pc = "deploy_insert" /\ ErrorReturn(t)) => ~CanBatchCreate(run[t].grp, t)
      /\ run[t].pc = "shrink_poll" => ~ErrorReturn(t)
      /\ run[t].pc = "deploy_insert" => ~PollGivesUp(t)
  BY DEF ErrorReturn, PollGivesUp
<1> QED
  BY <1>1, <1>2, <1>3
     DEF RunStep, At, BeginInstr, SaveRelation, ExpandCall,
         ExpandPolled, GetCluster, StoreNodes, NodePolled, NodeListed, MountCall, MountDb, UmountQuery,
         UmountCall, UmountDb, ShrinkPick, ShrinkPickFails, ShrinkCall, ShrinkPolled, ShrinkDb,
         DeployInstances, DeployMark, DeployInsert, DeployQuery, DeployWaited, Finish

-----------------------------------------------------------------------------
(* What BridgX does meanwhile *)

LEMMA CloudMoves ==
  ASSUME IInv, [Next]_vars
  PROVE  \/ UNCHANGED <<bx, machine>>
         \/ \E t \in TaskId : RunStep(t) /\ (ExpandCall(t) \/ ShrinkCall(t))
         \/ \E b \in BxTaskId : BxStep(b)
<1>1. (\/ Request \/ Panic \/ Crash \/ Restart \/ Idle \/ UNCHANGED vars
       \/ \E g \in node : NodeStep(g)) => UNCHANGED <<bx, machine>>
  BY DEF Request, ExpandAction, ShrinkAction, DeployAction, CreateAndRun, Panic, TaskPanics,
         PollPanics, Crash, ProcessDies, Restart, Idle, vars, NodeStep, cloudVars
<1> QED
  BY <1>1, CloudKept DEF Next

\* An expand finds new machines and a new id, a shrink a new id.
LEMMA ExpandCalled ==
  ASSUME Calm, IInv, NEW t \in TaskId, ExpandCall(t)
  PROVE  /\ run[t].pc = "expand_call" /\ run'[t].pc = "expand_poll" /\ run'[t].bx \in NextBx
         /\ bx'[run'[t].bx].kind = "expand" /\ bx'[run'[t].bx].state = "working"
         /\ bx'[run'[t].bx].machines # {} /\ bx'[run'[t].bx].machines \subseteq FreeMachines
         /\ \A b \in BxTaskId \ {run'[t].bx} : bx'[b] = bx[b]
         /\ \A m \in Machine : machine'[m] = machine[m] \/
               (machine[m].state = None /\ machine'[m].state = "pending")
<1>1. PICK b \in NextBx, ms \in SUBSET FreeMachines :
        /\ ms # {} /\ BxExpand(b, task[t].cluster, ms)
        /\ run' = [run EXCEPT ![t].pc = "expand_poll", ![t].bx = b]
  BY DEF ExpandCall, Calm
<1>2. run'[t].pc = "expand_poll" /\ run'[t].bx = b
  BY <1>1, TypeParts DEF IInv, RunsOK, RunRec
<1>3. bx' = [bx EXCEPT ![b] = [kind |-> "expand", state |-> "working", machines |-> ms]]
  BY <1>1 DEF BxExpand
<1>4. bx \in [BxTaskId -> [kind : BxKinds \cup {None}, state : BxStates \cup {None}, machines : SUBSET Machine]]
  BY TypeParts DEF IInv, CloudTypeOK
<1>5. b \in BxTaskId
  BY DEF NextBx
<1>6. bx'[b] = [kind |-> "expand", state |-> "working", machines |-> ms]
      /\ \A c \in BxTaskId \ {b} : bx'[c] = bx[c]
  BY <1>3, <1>4, <1>5
<1>7. \A m \in Machine : machine'[m] = machine[m] \/
         (machine[m].state = None /\ machine'[m].state = "pending")
  BY <1>1 DEF BxExpand, FreeMachines
<1>8. bx'[b].kind = "expand" /\ bx'[b].state = "working" /\ bx'[b].machines = ms
  BY <1>6
<1>9. ms # {} /\ ms \subseteq FreeMachines /\ run[t].pc = "expand_call"
  BY <1>1 DEF ExpandCall, At
<1>10. \A c \in BxTaskId \ {run'[t].bx} : bx'[c] = bx[c]
  BY <1>2, <1>6
<1> QED
  BY <1>2, <1>7, <1>8, <1>9, <1>10

LEMMA ShrinkCalled ==
  ASSUME Calm, IInv, NEW t \in TaskId, ShrinkCall(t)
  PROVE  /\ run[t].pc = "shrink_call" /\ run'[t].pc = "shrink_poll" /\ run'[t].bx \in NextBx
         /\ run'[t].grp = run[t].grp
         /\ bx'[run'[t].bx].kind = "shrink" /\ bx'[run'[t].bx].state = "working"
         /\ bx'[run'[t].bx].machines = run[t].grp
         /\ \A b \in BxTaskId \ {run'[t].bx} : bx'[b] = bx[b]
         /\ machine' = machine
<1>1. PICK b \in NextBx :
        /\ BxShrink(b, run[t].grp)
        /\ run' = [run EXCEPT ![t].pc = "shrink_poll", ![t].bx = b]
  BY DEF ShrinkCall, Calm
<1>2. run'[t].pc = "shrink_poll" /\ run'[t].bx = b /\ run'[t].grp = run[t].grp
  BY <1>1, TypeParts DEF IInv, RunsOK, RunRec
<1>3. bx' = [bx EXCEPT ![b] = [kind |-> "shrink", state |-> "working", machines |-> run[t].grp]]
      /\ machine' = machine
  BY <1>1 DEF BxShrink
<1>4. bx \in [BxTaskId -> [kind : BxKinds \cup {None}, state : BxStates \cup {None}, machines : SUBSET Machine]]
  BY TypeParts DEF IInv, CloudTypeOK
<1>5. b \in BxTaskId
  BY DEF NextBx
<1>6. bx'[b] = [kind |-> "shrink", state |-> "working", machines |-> run[t].grp]
      /\ \A c \in BxTaskId \ {b} : bx'[c] = bx[c]
  BY <1>3, <1>4, <1>5
<1>7. bx'[b].kind = "shrink" /\ bx'[b].state = "working" /\ bx'[b].machines = run[t].grp
  BY <1>6
<1>8. run[t].pc = "shrink_call" /\ machine' = machine
  BY <1>3 DEF ShrinkCall, At
<1>9. \A c \in BxTaskId \ {run'[t].bx} : bx'[c] = bx[c]
  BY <1>2, <1>6
<1> QED
  BY <1>2, <1>7, <1>8, <1>9

\* Without failures BridgX brings all machines of an expand up, takes all of a shrink down.
LEMMA BxWorks ==
  ASSUME Calm, IInv, NEW b \in BxTaskId, BxStep(b)
  PROVE  /\ bx[b].state = "working" /\ bx'[b].state = "done"
         /\ bx'[b].kind = bx[b].kind /\ bx'[b].machines = bx[b].machines
         /\ \A c \in BxTaskId \ {b} : bx'[c] = bx[c]
         /\ \A m \in Machine \ bx[b].machines : machine'[m] = machine[m]
         /\ \A m \in bx[b].machines : /\ machine'[m].cluster = machine[m].cluster
                                      /\ bx[b].kind = "expand" => machine'[m].state = "running"
                                      /\ bx[b].kind # "expand" => machine'[m].state = "gone"
         /\ UNCHANGED <<run, task, instance, node>>
<1>1. /\ bx[b] \in [kind : BxKinds \cup {None}, state : BxStates \cup {None}, machines : SUBSET Machine]
      /\ bx \in [BxTaskId -> [kind : BxKinds \cup {None}, state : BxStates \cup {None}, machines : SUBSET Machine]]
      /\ machine \in [Machine -> [state : {"pending", "running", "gone", None}, cluster : Cluster \cup {0}]]
  BY TypeParts DEF IInv, CloudTypeOK
<1>2. BxFinish(b, bx[b].machines)
  BY DEF BxStep, Calm
<1>3. bx' = [bx EXCEPT ![b].state = "done"]
  BY <1>2 DEF BxFinish
<1>4. /\ bx'[b].state = "done" /\ bx'[b].kind = bx[b].kind /\ bx'[b].machines = bx[b].machines
      /\ \A c \in BxTaskId \ {b} : bx'[c] = bx[c]
  BY <1>1, <1>3
<1>5. /\ \A m \in Machine \ bx[b].machines : machine'[m] = machine[m]
      /\ \A m \in bx[b].machines :
            machine'[m] = [machine[m] EXCEPT !.state = IF bx[b].kind = "expand" THEN "running" ELSE "gone"]
  BY <1>1, <1>2 DEF BxFinish
<1>6. \A m \in bx[b].machines : /\ machine'[m].cluster = machine[m].cluster
                                /\ bx[b].kind = "expand" => machine'[m].state = "running"
                                /\ bx[b].kind # "expand" => machine'[m].state = "gone"
  <2> SUFFICES ASSUME NEW m \in bx[b].machines
               PROVE  /\ machine'[m].cluster = machine[m].cluster
                      /\ bx[b].kind = "expand" => machine'[m].state = "running"
                      /\ bx[b].kind # "expand" => machine'[m].state = "gone"
    OBVIOUS
  <2>1. m \in Machine
    BY <1>1
  <2>2. machine[m] \in [state : {"pending", "running", "gone", None}, cluster : Cluster \cup {0}]
    BY <1>1, <2>1
  <2>3. PICK state : state = IF bx[b].kind = "expand" THEN "running" ELSE "gone"
    OBVIOUS
  <2>4. machine'[m] = [machine[m] EXCEPT !.state = state]
    BY <1>5, <2>3
  <2>5. machine'[m].state = state /\ machine'[m].cluster = machine[m].cluster
    BY <2>2, <2>4
  <2> QED
    BY <2>3, <2>5
<1> QED
  BY <1>2, <1>4, <1>5, <1>6 DEF BxStep, BxFinish, envVars

-----------------------------------------------------------------------------
(* A task that runs has the machines of its cluster for itself. *)

LEMMA WorkerOf ==
  ASSUME Barrier, Tracked, NEW b \in BxTaskId, bx[b].state = "working"
  PROVE  \E t \in TaskId :
            /\ Polls(t, b) /\ Running(t)
            /\ bx[b].kind = IF run[t].pc = "expand_poll" THEN "expand" ELSE "shrink"
            /\ \A m \in bx[b].machines : m \in Machine /\ PlacedIn(m, task[t].cluster) /\ TransitOf(t, m)
<1>1. PICK t \in TaskId : Polls(t, b)
  BY DEF Tracked, BxPolled
<1>2. CarriesExpand(t) /\ CarriesShrink(t) /\ Place(t) /\ CloudTypeOK
  BY TypeParts DEF Tracked, AllCarried, Barrier, AllPlaced, IInv
<1>3. bx[b].machines \subseteq Machine
  BY <1>2 DEF CloudTypeOK
<1>4. CASE run[t].pc = "expand_poll"
  BY <1>1, <1>2, <1>3, <1>4 DEF Polls, CarriesExpand, ExpandWorks, Place, TransitOf, Running, Active, Calls
<1>5. CASE run[t].pc = "shrink_poll"
  BY <1>1, <1>2, <1>3, <1>5 DEF Polls, CarriesShrink, ShrinkWorks, Place, TransitOf, Running, Active, Calls
<1> QED
  BY <1>1, <1>4, <1>5 DEF Polls

\* A machine starts, or BridgX finishes the work of a task that polls for it.
LEMMA StateMoves ==
  ASSUME Calm, Barrier, Tracked, [Next]_vars, NEW m \in Machine, machine'[m].state # machine[m].state
  PROVE  \/ machine[m].state = None /\ machine'[m].state = "pending"
         \/ \E t \in TaskId, b \in BxTaskId :
               /\ BxStep(b) /\ Polls(t, b) /\ Running(t) /\ m \in bx[b].machines
               /\ PlacedIn(m, task[t].cluster) /\ TransitOf(t, m)
<1>1. IInv
  BY DEF Barrier
<1>2. CASE \E t \in TaskId : ExpandCall(t) \/ ShrinkCall(t)
  BY <1>1, <1>2, ExpandCalled, ShrinkCalled
<1>3. CASE \E b \in BxTaskId : BxStep(b)
  <2>1. PICK b \in BxTaskId : BxStep(b)
    BY <1>3
  <2>2. bx[b].state = "working" /\ m \in bx[b].machines
    BY <1>1, <2>1, BxWorks
  <2> QED
    BY <2>1, <2>2, WorkerOf
<1> QED
  BY <1>1, <1>2, <1>3, CloudMoves

LEMMA OwnMachine ==
  ASSUME Calm, Barrier, Serial, Tracked, [Next]_vars, NEW t \in TaskId, Running(t),
         NEW m \in Machine, PlacedIn(m, task[t].cluster), machine'[m].state # machine[m].state
  PROVE  /\ run[t].bx \in BxTaskId /\ BxStep(run[t].bx) /\ UNCHANGED run
         /\ run[t].pc \in {"expand_poll", "shrink_poll"}
<1>1. PICK u \in TaskId, b \in BxTaskId :
        BxStep(b) /\ Polls(u, b) /\ Running(u) /\ PlacedIn(m, task[u].cluster)
  BY StateMoves DEF PlacedIn
<1>2. u = t
  BY <1>1 DEF PlacedIn, Serial, OneActive
<1> QED
  BY <1>1, <1>2 DEF Polls, BxStep

\* The BridgX task that a task polls is its own.
LEMMA BxKept ==
  ASSUME Calm, IInv, [Next]_vars, NEW b \in BxTaskId, bx[b].kind # None, ~BxStep(b)
  PROVE  bx'[b] = bx[b]
<1>1. CASE \E t \in TaskId : ExpandCall(t) \/ ShrinkCall(t)
  BY <1>1, ExpandCalled, ShrinkCalled DEF NextBx
<1>2. CASE \E c \in BxTaskId : BxStep(c)
  BY <1>2, BxWorks
<1> QED
  BY <1>1, <1>2, CloudMoves

\* The machines a task has in hand are as they were, unless it polls for them.
LEMMA StateStays ==
  ASSUME Calm, Barrier, Serial, Tracked, [Next]_vars, NEW t \in TaskId, Running(t),
         run[t].pc \notin {"expand_poll", "shrink_poll"} \/ run'[t] # run[t],
         NEW m \in Machine, PlacedIn(m, task[t].cluster)
  PROVE  machine'[m].state = machine[m].state
BY OwnMachine

LEMMA BxPolledStays ==
  ASSUME Calm, Barrier, Tracked, [Next]_vars
  PROVE  BxPolled'
<1> SUFFICES ASSUME NEW b \in BxTaskId, bx'[b].state = "working" PROVE \E t \in TaskId : Polls(t, b)'
  BY DEF BxPolled
<1>1. IInv
  BY DEF Barrier
<1>2. CASE bx[b].state = "working"
  <2>1. PICK t \in TaskId : Polls(t, b)
    BY <1>2 DEF Tracked, BxPolled
  <2>2. ASSUME RunStep(t) PROVE FALSE
    <3>1. ~PollGivesUp(t)
      BY <1>2, <2>1 DEF Polls, PollGivesUp, Slow, Calm
    <3> QED
      BY <1>2, <2>1, <2>2, <3>1, CalmCalls DEF Polls, ExpandPolled, ShrinkPolled
  <2>3. run'[t] = run[t]
    BY <1>1, <2>1, <2>2, CalmMove DEF Polls
  <2> QED
    BY <2>1, <2>3 DEF Polls
<1>3. CASE bx[b].state # "working"
  <2>1. ~(\E c \in BxTaskId : BxStep(c))
    BY <1>1, <1>3, BxWorks
  <2>2. PICK t \in TaskId : ExpandCall(t) \/ ShrinkCall(t)
    BY <1>1, <1>3, <2>1, CloudMoves
  <2>3. run'[t].bx = b
    BY <1>1, <1>3, <2>2, ExpandCalled, ShrinkCalled
  <2> QED
    BY <1>1, <2>2, <2>3, ExpandCalled, ShrinkCalled DEF Polls
<1> QED
  BY <1>2, <1>3

-----------------------------------------------------------------------------
(* What a task carries *)

\* How a goroutine comes to the calls that have machines in transit.
LEMMA Entered ==
  ASSUME IInv, [Next]_vars, NEW t \in TaskId, run'[t].pc # run[t].pc
  PROVE  /\ run'[t].pc = "expand_poll" => run[t].pc = "expand_call"
         /\ run'[t].pc = "shrink_poll" => run[t].pc = "shrink_call"
         /\ run'[t].pc = "shrink_db" => run[t].pc = "shrink_poll" /\ run'[t].grp = run[t].grp
         /\ run'[t].pc = "deploy_mark" => run[t].pc = "deploy_instances"
<1>1. \A action : FirstCall(action) \notin {"expand_poll", "shrink_poll", "shrink_db", "deploy_mark"}
  BY DEF FirstCall
<1>2. run[t] \in RunRec /\ Move(t)
  BY RunFacts, EveryRunMoves
<1>3. run'[t] = [run[t] EXCEPT !.pc = "dead"] => run'[t].pc = "dead"
  BY <1>2 DEF RunRec
<1> QED
  BY <1>1, <1>2, <1>3 DEF Move, PlainMove, GetsTask, GetsMachines, GetsNodes, GetsCluster,
       CallPairs, Leaves, GoesOn, Errs, MovesTo, SameHands

LEMMA PollStays ==
  ASSUME IInv, [Next]_vars, NEW t \in TaskId,
         run'[t].pc = run[t].pc, run[t].pc \in {"expand_poll", "shrink_poll"}
  PROVE  run'[t] = run[t]
<1>1. run[t] \in RunRec /\ Move(t)
  BY RunFacts, EveryRunMoves
<1>2. run'[t] = [run[t] EXCEPT !.pc = "dead"] => run'[t].pc = "dead"
  BY <1>1 DEF RunRec
<1> QED
  BY <1>1, <1>2 DEF Move, PlainMove, GetsTask, GetsMachines, GetsNodes, GetsCluster,
       CallPairs, LastCalls, Leaves, GoesOn, Errs, MovesTo

LEMMA PolledWorks ==
  ASSUME Calm, Barrier, Serial, Tracked, [Next]_vars, NEW t \in TaskId,
         run'[t].pc = run[t].pc, run[t].pc \in {"expand_poll", "shrink_poll"}
  PROVE  (CarriesExpand(t) /\ CarriesShrink(t))'
<1>1. /\ IInv /\ CarriesExpand(t) /\ CarriesShrink(t) /\ Place(t) /\ CloudTypeOK /\ run'[t] = run[t]
      /\ Running(t)
  BY PollStays, TypeParts DEF Tracked, AllCarried, Barrier, AllPlaced, IInv, Running, Active, Calls
<1>2. PICK b \in BxTaskId : b = run[t].bx
  BY <1>1, RunFacts DEF Consistent
<1>3. bx[b].kind # None /\ bx[b].machines \subseteq Machine
  BY <1>1, <1>2 DEF CarriesExpand, CarriesShrink, ExpandWorks, ShrinkWorks, CloudTypeOK, None
<1>4. ~FreshRun(run[t])
  BY DEF FreshRun
<1>5. CASE BxStep(b)
  BY <1>1, <1>2, <1>3, <1>4, <1>5, BxWorks
     DEF CarriesExpand, CarriesShrink, ExpandWorks, ShrinkWorks, Up
<1>6. CASE ~BxStep(b)
  <2>1. bx'[b] = bx[b]
    BY <1>1, <1>3, <1>6, BxKept
  <2>2. \A m \in bx[b].machines : m \in Machine /\ PlacedIn(m, task[t].cluster)
    BY <1>1, <1>2, <1>3 DEF Place, CarriesShrink, ShrinkWorks
  <2>3. \A m \in bx[b].machines : machine'[m].state = machine[m].state
    BY <1>1, <1>2, <1>6, <2>2, OwnMachine
  <2> QED
    BY <1>1, <1>2, <1>4, <2>1, <2>3 DEF CarriesExpand, CarriesShrink, ExpandWorks, ShrinkWorks, Up
<1> QED
  BY <1>5, <1>6

\* The machines an expand has from BridgX run.
LEMMA FreshRuns ==
  ASSUME Calm, Barrier, Serial, Tracked, [Next]_vars, NEW t \in TaskId,
         task'[t].kind = "Expand", FreshRun(run'[t]), NEW m \in run'[t].grp
  PROVE  Up(m)'
<1>1. /\ IInv /\ run[t] \in RunRec /\ Place(t) /\ CarriesExpand(t) /\ run[t].grp \subseteq Machine
  BY RunFacts DEF Barrier, AllPlaced, Tracked, AllCarried, RunRec
<1>2. run[t].pc # "idle"
  BY <1>1, EveryMove DEF IdleMove, FreshRun, ExpandMove, OtherMove
<1>3. ExpandMove(t) /\ task[t].kind = "Expand"
  BY <1>1, <1>2, EveryMove, EveryTaskStays DEF IdleMove, OtherMove, TasksStay, SameTask
<1>4. CASE FreshRun(run[t]) /\ run'[t].grp = run[t].grp
  <2>1. Up(m) /\ m \in Machine /\ PlacedIn(m, task[t].cluster)
    BY <1>1, <1>3, <1>4 DEF CarriesExpand, Place
  <2>2. Running(t) /\ run[t].pc \notin {"expand_poll", "shrink_poll"}
    BY <1>4 DEF FreshRun, Running, Active, Calls
  <2> QED
    BY <2>1, <2>2, StateStays DEF Up
<1>5. CASE GetsMachines(t)
  <2>1. run[t].pc = "expand_poll" /\ run'[t].pc = "get_cluster" /\ m \in TaskInstances(run[t].bx)
        /\ run[t].bx \in BxTaskId /\ CloudTypeOK
    BY <1>1, <1>5, RunFacts, TypeParts DEF GetsMachines, MovesTo, Consistent, IInv
  <2>2. Up(m) /\ m \in Machine /\ PlacedIn(m, task[t].cluster)
    BY <1>1, <2>1 DEF TaskInstances, Up, Place, CloudTypeOK
  <2>3. Running(t) /\ run'[t] # run[t]
    BY <2>1 DEF Running, Active, Calls
  <2> QED
    BY <2>2, <2>3, StateStays DEF Up
<1>6. (FreshRun(run[t]) /\ run'[t].grp = run[t].grp) \/ GetsMachines(t)
  BY <1>1, <1>3 DEF ExpandMove, FreshRun, GetsTask, GetsNodes, MovesTo, SameHands, RunRec
<1> QED
  BY <1>4, <1>5, <1>6

LEMMA ExpandCarried ==
  ASSUME Calm, Barrier, Serial, Tracked, [Next]_vars, NEW t \in TaskId
  PROVE  CarriesExpand(t)'
<1>1. ASSUME run'[t].pc = "expand_poll" PROVE ExpandWorks(bx[run[t].bx])'
  <2>1. CASE run[t].pc = "expand_poll"
    BY <1>1, <2>1, PolledWorks DEF CarriesExpand
  <2>2. CASE run[t].pc # "expand_poll"
    <3>1. run[t].pc = "expand_call" /\ IInv
      BY <1>1, <2>2, Entered DEF Barrier
    <3>2. RunStep(t)
      BY <1>1, <3>1, StepAt
    <3>3. ExpandCall(t)
      BY <1>1, <3>1, <3>2, CallMade, FailsMeans
    <3> QED
      BY <3>1, <3>3, ExpandCalled DEF ExpandWorks
  <2> QED
    BY <2>1, <2>2
<1> QED
  BY <1>1, FreshRuns DEF CarriesExpand

LEMMA ShrinkCarried ==
  ASSUME Calm, Barrier, Serial, Tracked, [Next]_vars, NEW t \in TaskId
  PROVE  CarriesShrink(t)'
<1>1. ASSUME run'[t].pc = "shrink_poll" PROVE ShrinkWorks(bx[run[t].bx], run[t].grp)'
  <2>1. CASE run[t].pc = "shrink_poll"
    BY <1>1, <2>1, PolledWorks DEF CarriesShrink
  <2>2. CASE run[t].pc # "shrink_poll"
    <3>1. run[t].pc = "shrink_call" /\ IInv
      BY <1>1, <2>2, Entered DEF Barrier
    <3>2. RunStep(t)
      BY <1>1, <3>1, StepAt
    <3>3. ShrinkCall(t)
      BY <1>1, <3>1, <3>2, CallMade, FailsMeans
    <3> QED
      BY <3>1, <3>3, ShrinkCalled DEF ShrinkWorks
  <2> QED
    BY <2>1, <2>2
<1>2. ASSUME run'[t].pc = "shrink_db", NEW m \in run'[t].grp PROVE machine'[m].state = "gone"
  <2>1. IInv /\ run[t].grp \subseteq Machine /\ Place(t) /\ CarriesShrink(t)
    BY RunFacts DEF Barrier, AllPlaced, Tracked, AllCarried, RunRec
  <2>2. CASE run[t].pc = "shrink_db"
    <3>1. run'[t].grp = run[t].grp /\ Running(t)
      <4>1. run'[t] = run[t] \/ SameHands(t) \/ GetsTask(t) \/ GetsCluster(t)
        BY <1>2, <2>1, <2>2, EveryMove DEF IdleMove, OtherMove, ExpandMove, GetsMachines, GetsNodes, MovesTo
      <4> QED
        BY <2>2, <4>1 DEF SameHands, GetsTask, GetsCluster, Running, Active, Calls
    <3> QED
      BY <1>2, <2>1, <2>2, <3>1, StateStays DEF CarriesShrink, Place
  <2>3. CASE run[t].pc # "shrink_db"
    <3>1. run[t].pc = "shrink_poll" /\ run'[t].grp = run[t].grp /\ Running(t)
      BY <1>2, <2>1, <2>3, Entered DEF Running, Active, Calls
    <3>2. RunStep(t)
      BY <1>2, <2>1, <3>1, CalmMove
    <3>3. ShrinkPolled(t)
      BY <1>2, <2>1, <3>1, <3>2, CalmCalls, FailsMeans
    <3>4. machine[m].state = "gone" /\ UNCHANGED machine
      BY <1>2, <2>1, <3>1, <3>3 DEF ShrinkPolled, CarriesShrink, ShrinkWorks, cloudVars
    <3> QED
      BY <3>4
  <2> QED
    BY <2>2, <2>3
<1> QED
  BY <1>1, <1>2 DEF CarriesShrink

\* What runs in a cluster changes only by the work of its task.
LEMMA SameRunning ==
  ASSUME Calm, Barrier, Serial, Tracked, [Next]_vars, NEW t \in TaskId, Running(t), SameTask(t),
         run[t].pc \notin {"expand_poll", "shrink_poll"}
  PROVE  RunningIn(task[t].cluster)' = RunningIn(task[t].cluster)
<1>1. MachinesStay
  BY CloudStays DEF Barrier
<1>2. ASSUME NEW m \in Machine, PlacedIn(m, task[t].cluster)
      PROVE  machine'[m].state = machine[m].state /\ machine'[m].cluster = machine[m].cluster
  BY <1>1, <1>2, StateStays DEF MachinesStay, PlacedIn
<1>3. ASSUME NEW m \in Machine, ~PlacedIn(m, task[t].cluster)
      PROVE  m \notin RunningIn(task[t].cluster) /\ m \notin RunningIn(task[t].cluster)'
  <2>1. CASE machine[m].state # None
    BY <1>1, <1>3, <2>1 DEF MachinesStay, PlacedIn, RunningIn, SameTask
  <2>2. CASE machine[m].state = None
    <3>1. machine'[m].state # "running"
      BY <2>2, StateMoves DEF PlacedIn, None
    <3> QED
      BY <2>2, <3>1 DEF RunningIn, None
  <2> QED
    BY <2>1, <2>2
<1>4. \A m \in Machine : m \in RunningIn(task[t].cluster)' <=> m \in RunningIn(task[t].cluster)
  BY <1>2, <1>3 DEF RunningIn, PlacedIn, None, SameTask
<1> QED
  BY <1>4 DEF RunningIn

LEMMA MarkGroup ==
  ASSUME Calm, Barrier, Serial, Tracked, [Next]_vars, NEW t \in TaskId,
         run'[t].pc \in {"deploy_mark", "deploy_insert"}
  PROVE  run'[t].grp = RunningIn(task[t].cluster)'
<1>1. IInv /\ run[t] \in RunRec /\ CarriesDeploy(t)
  BY RunFacts DEF Barrier, Tracked, AllCarried
<1>2. CASE run[t].pc \in {"deploy_mark", "deploy_insert"}
  <2>1. run'[t].grp = run[t].grp
    <3>1. run'[t] = run[t] \/ SameHands(t) \/ GetsTask(t) \/ GetsCluster(t)
      BY <1>1, <1>2, EveryMove DEF IdleMove, OtherMove, ExpandMove, GetsMachines, GetsNodes, MovesTo
    <3> QED
      BY <1>2, <3>1 DEF SameHands, GetsTask, GetsCluster
  <2>2. Running(t) /\ SameTask(t)
    BY <1>1, <1>2, NotIdleAgain DEF Running, Active, Calls
  <2> QED
    BY <1>1, <1>2, <2>1, <2>2, SameRunning DEF CarriesDeploy
<1>3. CASE run[t].pc \notin {"deploy_mark", "deploy_insert"}
  <2>1. run[t].pc = "deploy_instances"
    BY <1>1, <1>3, Entered, MarkMoves
  <2>2. RunStep(t) /\ ~InstrFails(t)
    BY <1>1, <2>1, StepAt, FailsMeans
  <2>3. DeployInstances(t)
    BY <2>1, <2>2
       DEF RunStep, At, BeginInstr, BeginInstrFails, SaveRelation, SaveRelationFails, ExpandCall,
         ExpandPolled, GetCluster, StoreNodes, NodePolled, NodeListed, MountCall, MountDb, UmountQuery,
         UmountCall, UmountDb, ShrinkPick, ShrinkPickFails, ShrinkCall, ShrinkPolled, ShrinkDb,
         DeployMark, DeployInsert, DeployQuery, DeployWaited, Finish
  <2>4. run' = [run EXCEPT ![t].pc = "deploy_mark", ![t].grp = RunningIn(task[t].cluster)]
        /\ UNCHANGED <<task, machine>>
    BY <2>3 DEF DeployInstances, cloudVars
  <2>5. run'[t].grp = RunningIn(task[t].cluster)
    BY <1>1, <2>4, TypeParts DEF IInv, RunsOK, RunRec
  <2> QED
    BY <2>4, <2>5 DEF RunningIn
<1> QED
  BY <1>2, <1>3

\* No row has the id of a deploy that has yet to insert its own.
LEMMA StaysUnborn ==
  ASSUME IdsApart, IdsApart', Barrier, Tracked, [Next]_vars, NEW t \in TaskId,
         task'[t].kind = "Deploy", Unborn(run'[t]), NEW m \in Machine
  PROVE  ~Exists(<<t, m>>)'
<1>1. /\ IInv /\ AllKnown /\ run[t] \in RunRec /\ CarriesDeploy(t) /\ BxTasksStay /\ AllRows
      /\ <<t, m>> \in RowId /\ RowOf(<<t, m>>) /\ Written(<<t, m>>)
  <2>1. IInv /\ AllKnown /\ AllRows
    BY DEF Barrier
  <2>2. <<t, m>> \in RowId
    BY DEF RowId, Key
  <2> QED
    BY <2>1, <2>2, RunFacts, CloudStays, EveryRowWritten DEF AllRows, Tracked, AllCarried
<1>2. t \in BxTaskId => bx[t].kind = None
  BY <1>1 DEF IdsApart, BxTasksStay
<1>3. CASE run[t].pc = "idle"
  <2>1. ~Exists(<<t, m>>)
    BY <1>1, <1>2, <1>3 DEF RowOf
  <2>2. run'[t].pc # "idle"
    BY DEF Unborn
  <2>3. UNCHANGED instance
    BY <1>1, <1>3, <2>2, Created, CreatedTask
  <2> QED
    BY <2>1, <2>3 DEF Exists
<1>4. CASE run[t].pc # "idle"
  <2>1. task[t].kind = "Deploy"
    BY <1>1, <1>4, NotIdleAgain DEF SameTask
  <2>2. Unborn(run[t])
    <3>1. run[t].i \in 1..MaxInstr /\ ~HasRelation(t)
      BY <1>1, <2>1, DeployGroup DEF RunRec
    <3>2. run'[t] = run[t] \/ (SameHands(t) /\ PlainMove(t)) \/ GetsCluster(t)
      <4>1. run'[t] # [run[t] EXCEPT !.pc = "dead"]
        BY <1>1 DEF RunRec, Unborn
      <4> QED
        BY <1>1, <3>1, <4>1, EveryRunMoves DEF Move, PlainMove, GetsTask, GetsMachines, GetsNodes, Unborn, MovesTo,
           Leaves, GoesOn, MaxInstr
    <3> QED
      BY <1>1, <1>4, <3>1, <3>2 DEF Unborn, PlainMove, GetsCluster, CallPairs, Leaves, GoesOn, Errs, MovesTo, MaxInstr
  <2>3. ~Exists(<<t, m>>)
    BY <1>1, <2>1, <2>2 DEF CarriesDeploy
  <2> SUFFICES ASSUME Exists(<<t, m>>)' PROVE FALSE
    OBVIOUS
  <2>4. PICK r : r = <<t, m>>
    OBVIOUS
  <2>5. r \in RowId /\ r[1] = t /\ ~Exists(r) /\ Written(r) /\ Exists(r)'
    BY <1>1, <2>3, <2>4
  <2>6. PICK u \in TaskId : \/ StoreNodes(u) /\ r[1] = run[u].key /\ r[1] \in BxTaskId
                            \/ DeployInsert(u) /\ r[1] = u
    BY <1>1, <2>5, AddedRow
  <2>7. CASE StoreNodes(u)
    <3>1. (run[u].key # 0 /\ t \in BxTaskId /\ run[u].key = t) \/ DeployInsert(u)
      BY <1>1, <2>5, <2>6, <2>7, StoreFacts
    <3>2. ~DeployInsert(u)
      BY <2>7 DEF StoreNodes, DeployInsert, At
    <3>3. run[u].bx = t
      BY <1>1, <3>1, <3>2, KnownKeys
    <3> QED
      BY <1>1, <1>2, <3>1, <3>2, <3>3 DEF AllKnown, Known
  <2>8. CASE DeployInsert(t)
    <3>1. run'[t].pc = "deploy_wait"
      BY <1>1, <2>8, DeployFacts DEF RunRec
    <3> QED
      BY <3>1 DEF Unborn
  <2> QED
    BY <2>5, <2>6, <2>7, <2>8
<1> QED
  BY <1>3, <1>4

LEMMA CarriedStays ==
  ASSUME Calm, IdsApart, IdsApart', Barrier, Serial, Tracked, [Next]_vars
  PROVE  AllCarried'
<1> SUFFICES ASSUME NEW t \in TaskId PROVE (CarriesExpand(t) /\ CarriesShrink(t) /\ CarriesDeploy(t))'
  BY DEF AllCarried
<1>1. CarriesDeploy(t)'
  BY MarkGroup, StaysUnborn DEF CarriesDeploy
<1> QED
  BY <1>1, ExpandCarried, ShrinkCarried

-----------------------------------------------------------------------------
(* Machines and their rows *)

\* Only for a machine in transit a row comes to life or is marked.
LEMMA LifeMoves ==
  ASSUME Barrier, Serial, [Next]_vars, NEW r \in RowId, ~(Live(r) <=> Live(r)')
  PROVE  InTransit(r[2]) \/ InTransit(r[2])'
<1>1. IInv /\ MachinesStay /\ r[2] \in Machine
  BY CloudStays DEF Barrier, RowId
<1>2. CASE ~Live(r)
  <2>1. PICK t \in TaskId : \/ Inserted(t, r) /\ PlacedIn(r[2], task[t].cluster)
                            \/ Stored(t, r) /\ FreshRun(run[t])
    BY <1>2, Woken
  <2>2. TransitOf(t, r[2])
    BY <1>1, <2>1, StoreFacts DEF Inserted, DeployInsert, At, Stored, TransitOf
  <2> QED
    BY <2>2 DEF InTransit
<1>3. CASE Live(r)
  <2>1. instance'[r] # instance[r] /\ Exists(r)
    BY <1>3 DEF Live, Exists
  <2>2. ASSUME NEW g \in node, AnsweredBy(g, r) PROVE FALSE
    <3>1. g.target \in Targets
      BY SentFacts DEF Barrier, AllSent, Goroutine
    <3> QED
      BY <1>3, <2>2, <3>1 DEF AnsweredBy, Live, Exists, None, Targets
  <2>3. PICK t \in TaskId : RunStep(t) /\ TouchedBy(t, r)
    BY <2>1, <2>2, RowTouched
  <2>4. Buried(t, r) /\ PlacedIn(r[2], task[t].cluster)
    BY <1>3, <2>1, <2>3 DEF TouchedBy, Stored, Inserted, Mounts, Live, Exists, None
  <2>5. CASE DeployMark(t)
    <3>1. run'[t].pc = "deploy_insert" /\ SameTask(t)
      BY <1>1, <2>3, <2>5, GotoMoves, NotIdleAgain, NotIdle DEF DeployMark, MovesTo
    <3>2. PlacedIn(r[2], task[t].cluster)'
      BY <1>1, <2>4, <3>1 DEF MachinesStay, PlacedIn, SameTask
    <3> QED
      BY <3>1, <3>2 DEF TransitOf, InTransit
  <2>6. CASE ShrinkDb(t)
    <3>1. run[t].pc = "shrink_db" /\ r[2] \in run[t].grp
      BY <2>1, <2>6 DEF ShrinkDb, At, BatchUpdateStatusByIds
    <3> QED
      BY <3>1 DEF TransitOf, InTransit
  <2> QED
    BY <2>4, <2>5, <2>6 DEF Buried
<1> QED
  BY <1>2, <1>3

LEMMA UpMoves ==
  ASSUME Calm, Barrier, Tracked, [Next]_vars, NEW m \in Machine, ~(Up(m) <=> Up(m)')
  PROVE  InTransit(m)'
<1>1. PICK t \in TaskId, b \in BxTaskId :
        BxStep(b) /\ Polls(t, b) /\ m \in bx[b].machines /\ TransitOf(t, m)
  BY StateMoves DEF Up, None
<1>2. bx'[b].machines = bx[b].machines /\ UNCHANGED run
  BY <1>1, BxWorks DEF Barrier
<1>3. TransitOf(t, m)'
  BY <1>1, <1>2 DEF Polls, TransitOf, FreshRun
<1> QED
  BY <1>3 DEF InTransit

\* In transit still, or settled with a row if it runs and none if it does not.
LEMMA ExpandSettles ==
  ASSUME Calm, Barrier, Serial, Tracked, [Next]_vars, NEW t \in TaskId, NEW m \in Machine,
         run[t].pc = "expand_poll", m \in bx[run[t].bx].machines
  PROVE  TransitOf(t, m)'
<1>1. /\ IInv /\ run[t] \in RunRec /\ ExpandWorks(bx[run[t].bx]) /\ BxTasksStay /\ SameTask(t)
      /\ run[t].bx \in BxTaskId
  BY RunFacts, CloudStays, NotIdleAgain DEF Barrier, Tracked, AllCarried, CarriesExpand, Consistent
<1>2. CASE run'[t] = run[t]
  BY <1>1, <1>2 DEF BxTasksStay, ExpandWorks, TransitOf, None
<1>3. CASE run'[t] # run[t]
  <2>1. RunStep(t)
    BY <1>1, <1>3, CalmMove
  <2>2. ~PollGivesUp(t)
    BY <1>1 DEF PollGivesUp, Slow, Calm, ExpandWorks
  <2>3. bx[run[t].bx].state = "done" => m \in TaskInstances(run[t].bx)
    BY <1>1 DEF ExpandWorks, TaskInstances, Up
  <2>4. ExpandPolled(t)
    BY <2>1, <2>2, <2>3, CalmCalls
  <2>5. m \in TaskInstances(run[t].bx)
    BY <2>3, <2>4 DEF ExpandPolled
  <2>6. run' = [run EXCEPT ![t].pc = "get_cluster", ![t].key = run[t].bx, ![t].grp = TaskInstances(run[t].bx)]
    BY <2>4 DEF ExpandPolled
  <2>7. run'[t].pc = "get_cluster" /\ run'[t].grp = TaskInstances(run[t].bx) /\ run'[t].i = run[t].i
    BY <1>1, <2>6, TypeParts DEF IInv, RunsOK, RunRec
  <2>8. task[t].kind = "Expand" /\ run[t].i = 1
    <3>1. Instr(t) = "bridgx.expand" /\ run[t].i \in 1..MaxInstr
      BY <1>1, PcInstr DEF RunRec
    <3>2. task[t].kind = "Expand"
      BY <3>1, RelationIsExpand DEF Instr
    <3> QED
      BY <1>1, <3>2, ExpandCalls DEF Calls
  <2> QED
    BY <1>1, <2>5, <2>7, <2>8 DEF TransitOf, FreshRun, SameTask
<1> QED
  BY <1>2, <1>3

LEMMA FreshSettles ==
  ASSUME Calm, Initialises, Barrier, Serial, Tracked, [Next]_vars, NEW t \in TaskId, NEW m \in Machine,
         task[t].kind = "Expand", FreshRun(run[t]), m \in run[t].grp
  PROVE  TransitOf(t, m)' \/ Synced(m)'
<1>1. IInv /\ run[t] \in RunRec /\ SameTask(t) /\ Running(t) /\ run[t].pc # "idle" /\ Up(m)
  <2>1. run[t].pc # "idle" /\ IInv
    BY DEF FreshRun, Barrier
  <2> QED
    BY <2>1, RunFacts, NotIdleAgain DEF Tracked, AllCarried, CarriesExpand, FreshRun, Running, Active, Calls
<1>2. CASE FreshRun(run'[t]) /\ run'[t].grp = run[t].grp
  BY <1>1, <1>2 DEF TransitOf, SameTask
<1>3. CASE run'[t] # run[t]
  <2>1. RunStep(t)
    BY <1>1, <1>3, CalmMove
  <2>2. CASE run[t].pc = "get_cluster"
    <3>1. Succeed(t, run[t]) /\ HasRelation(t) /\ run[t].i = 1
      BY <1>1, <2>1, <2>2, CalmCalls, ExpandCalls DEF GetCluster, HasRelation, FreshRun
    <3>2. MovesTo(t, "relation", run[t].i) /\ run'[t].grp = run[t].grp
      BY <1>1, <3>1, LeavesAfter DEF Leaves
    <3> QED
      BY <1>2, <3>1, <3>2 DEF FreshRun, MovesTo
  <2>3. CASE run[t].pc = "relation"
    <3>1. run' = [run EXCEPT ![t] = Advance(t, @)] /\ run[t].i = 1
      BY <2>1, <2>3, CalmCalls DEF SaveRelation, FreshRun
    <3>2. GroupLen(task[t].kind) # 1
      BY DEF GroupLen, Initialises
    <3>3. run' = [run EXCEPT ![t] = [run[t] EXCEPT !.pc = "next", !.i = @ + 1]]
      BY <3>1, <3>2 DEF Advance
    <3>4. run'[t].pc = "next" /\ run'[t].i = 2 /\ run'[t].grp = run[t].grp
      <4>1. PICK row : row = [run[t] EXCEPT !.pc = "next", !.i = @ + 1]
        OBVIOUS
      <4>2. row.pc = "next" /\ row.i = 2 /\ row.grp = run[t].grp
        BY <1>1, <3>1, <4>1 DEF RunRec
      <4>3. run'[t] = row
        BY <1>1, <3>3, <4>1, TypeParts DEF IInv, RunsOK
      <4> QED
        BY <4>2, <4>3
    <3> QED
      BY <1>2, <3>4 DEF FreshRun
  <2>4. CASE run[t].pc = "next"
    <3>1. Goto(t, FirstCall(Instr(t))) /\ run[t].i = 2
      BY <2>1, <2>4, CalmCalls DEF BeginInstr, FreshRun
    <3>2. FirstCall(Instr(t)) = "store"
      BY <1>1, <3>1, ExpandCalls DEF FirstCall
    <3> QED
      BY <1>1, <1>2, <3>1, <3>2, GotoMoves DEF FreshRun, MovesTo, SameHands
  <2>5. CASE run[t].pc = "store"
    <3>1. StoreNodes(t) /\ UNCHANGED machine
      BY <2>1, <2>5, CalmCalls DEF StoreNodes, cloudVars
    <3>2. NoRows(m)
      BY <1>1 DEF Serial, AllHeld, Held
    <3>3. PICK r : r = <<run[t].key, m>>
      OBVIOUS
    <3>4. r \in RowId /\ r[2] = m /\ instance'[r].status = "INIT"
      <4>1. run[t].key \in Key /\ <<run[t].key, m>> \in RowId
        BY <1>1, <3>1, StoredRow
      <4>2. ~Exists(<<run[t].key, m>>)
        BY <3>2, <4>1 DEF NoRows
      <4> QED
        BY <1>1, <3>1, <3>3, <4>1, <4>2, StoredRow
    <3>5. Live(r)' /\ Up(m)'
      BY <1>1, <3>1, <3>4 DEF Live, Exists, None, Up
    <3> QED
      BY <3>4, <3>5 DEF Synced
  <2> QED
    BY <2>2, <2>3, <2>4, <2>5 DEF FreshRun
<1> QED
  BY <1>2, <1>3

LEMMA ShrinkSettles ==
  ASSUME Calm, Barrier, Serial, Tracked, [Next]_vars, NEW t \in TaskId, NEW m \in Machine,
         run[t].pc \in {"shrink_poll", "shrink_db"}, m \in run[t].grp
  PROVE  TransitOf(t, m)' \/ Synced(m)'
<1>1. IInv /\ run[t] \in RunRec /\ CarriesShrink(t) /\ RowsOK
  BY RunFacts, TypeParts DEF Barrier, Tracked, AllCarried, IInv
<1>2. CASE run'[t].pc = run[t].pc
  <2>1. run'[t] = run[t] \/ SameHands(t) \/ GetsTask(t) \/ GetsCluster(t)
    BY <1>1, <1>2, EveryMove DEF IdleMove, OtherMove, ExpandMove, GetsMachines, GetsNodes, MovesTo
  <2>2. run'[t].grp = run[t].grp
    BY <1>2, <2>1 DEF SameHands, GetsTask, GetsCluster
  <2> QED
    BY <1>2, <2>2 DEF TransitOf
<1>3. CASE run'[t].pc # run[t].pc
  <2>1. RunStep(t)
    BY <1>1, <1>3, CalmMove
  <2>2. CASE run[t].pc = "shrink_poll"
    <3>1. ~PollGivesUp(t)
      BY <1>1, <2>2 DEF PollGivesUp, Slow, Calm, CarriesShrink, ShrinkWorks
    <3>2. ShrinkPolled(t)
      BY <2>1, <2>2, <3>1, CalmCalls
    <3>3. run'[t].pc = "shrink_db" /\ run'[t].grp = run[t].grp
      BY <1>1, <3>2, GotoMoves DEF ShrinkPolled, MovesTo, SameHands
    <3> QED
      BY <3>3 DEF TransitOf
  <2>3. CASE run[t].pc = "shrink_db"
    <3>1. instance' = BatchUpdateStatusByIds(run[t].grp, "DELETED") /\ machine' = machine
      BY <2>1, <2>3, CalmCalls DEF ShrinkDb, cloudVars
    <3>2. ~Up(m)'
      BY <1>1, <2>3, <3>1 DEF CarriesShrink, Up
    <3>3. ASSUME NEW r \in RowId, r[2] = m PROVE ~Live(r)'
      <4>1. CASE Exists(r)
        <5>1. instance'[r] = [instance[r] EXCEPT !.status = "DELETED"] /\ instance[r] \in InstanceRow
          BY <1>1, <3>1, <3>3, <4>1 DEF BatchUpdateStatusByIds, RowsOK
        <5> QED
          BY <5>1, StatusSet DEF Live
      <4>2. CASE ~Exists(r)
        BY <3>1, <4>2 DEF BatchUpdateStatusByIds, Live, Exists
      <4> QED
        BY <4>1, <4>2
    <3> QED
      BY <3>2, <3>3 DEF Synced
  <2> QED
    BY <2>2, <2>3
<1> QED
  BY <1>2, <1>3

LEMMA DeploySettles ==
  ASSUME Calm, Barrier, Serial, Tracked, [Next]_vars, NEW t \in TaskId, NEW m \in Machine,
         run[t].pc = "deploy_insert", PlacedIn(m, task[t].cluster)
  PROVE  TransitOf(t, m)' \/ Synced(m)'
<1>1. /\ IInv /\ run[t] \in RunRec /\ CarriesDeploy(t) /\ MachinesStay /\ SameTask(t)
      /\ Known(run[t], task[t].kind)
  BY RunFacts, CloudStays, NotIdleAgain DEF Barrier, AllKnown, Tracked, AllCarried
<1>2. CASE run'[t].pc = "deploy_insert"
  BY <1>1, <1>2 DEF TransitOf, MachinesStay, PlacedIn, SameTask
<1>3. CASE run'[t].pc # "deploy_insert"
  <2>1. RunStep(t)
    BY <1>1, <1>3, CalmMove
  <2>2. Instr(t) = "nodeact.before_download" /\ task[t].kind = "Deploy"
    <3>1. Instr(t) = "nodeact.before_download"
      BY <1>1, PcInstr
    <3>2. task[t].kind # "Expand"
      BY <1>1, <3>1, ExpandCalls
    <3>3. task[t].kind # "Shrink"
      BY <3>1 DEF Instr, InstrAt
    <3> QED
      BY <1>1, <3>1, <3>2, <3>3 DEF Known, Kinds
  <2>3. CanBatchCreate(run[t].grp, t)
    <3>1. run[t].i = 1
      BY <1>1, <2>2, DeployGroup DEF FirstCall, DeployActions
    <3> QED
      BY <1>1, <2>2, <3>1 DEF CarriesDeploy, Unborn, CanBatchCreate, RunRec
  <2>4. instance' = BatchCreate(run[t].grp, t, task[t].cluster) /\ machine' = machine
    BY <2>1, <2>3, CalmCalls DEF DeployInsert, cloudVars
  <2>5. run[t].grp = RunningIn(task[t].cluster)
    BY <1>1 DEF CarriesDeploy
  <2>6. CASE m \in run[t].grp
    <3>1. PICK r : r = <<t, m>>
      OBVIOUS
    <3>2. r \in RowId /\ r[1] = t /\ r[2] = m
      BY <3>1 DEF RowId, Key
    <3>3. instance'[r].status = "INIT"
      BY <2>4, <2>6, <3>2 DEF BatchCreate, NewRow
    <3>4. Live(r)' /\ Up(m)'
      BY <2>4, <2>5, <2>6, <3>3 DEF Live, Exists, None, Up, RunningIn
    <3> QED
      BY <3>2, <3>4 DEF Synced
  <2>7. CASE m \notin run[t].grp
    <3>1. ~Up(m)'
      BY <2>4, <2>5, <2>7 DEF Up, RunningIn, PlacedIn
    <3>2. ASSUME NEW r \in RowId, r[2] = m PROVE ~Live(r)'
      <4>1. ~Live(r)
        BY <3>2 DEF Serial, AllMarked, Marked
      <4>2. instance'[r] = instance[r]
        BY <2>4, <2>7, <3>2 DEF BatchCreate
      <4> QED
        BY <4>1, <4>2 DEF Live, Exists
    <3> QED
      BY <3>1, <3>2 DEF Synced
  <2> QED
    BY <2>6, <2>7
<1> QED
  BY <1>2, <1>3

LEMMA SyncedStays ==
  ASSUME Calm, Initialises, Barrier, Serial, Tracked, [Next]_vars
  PROVE  AllSynced'
<1> SUFFICES ASSUME NEW m \in Machine PROVE InTransit(m)' \/ Synced(m)'
  BY DEF AllSynced
<1>1. CASE InTransit(m)
  <2>1. PICK t \in TaskId : TransitOf(t, m)
    BY <1>1 DEF InTransit
  <2>2. TransitOf(t, m)' \/ Synced(m)'
    BY <2>1, ExpandSettles, FreshSettles, ShrinkSettles, DeploySettles DEF TransitOf
  <2> QED
    BY <2>2 DEF InTransit
<1>2. CASE ~InTransit(m) /\ ~InTransit(m)'
  <2>1. Synced(m)
    BY <1>2 DEF Tracked, AllSynced
  <2>2. Up(m) <=> Up(m)'
    BY <1>2, UpMoves
  <2>3. \A r \in RowId : r[2] = m => (Live(r) <=> Live(r)')
    BY <1>2, LifeMoves
  <2> QED
    BY <2>1, <2>2, <2>3 DEF Synced
<1> QED
  BY <1>1, <1>2

LEMMA NextTracked ==
  ASSUME Calm, Initialises, IdsApart, IdsApart', Barrier, Serial, Tracked, [Next]_vars
  PROVE  Tracked'
BY SyncedStays, BxPolledStays, CarriedStays DEF Tracked

LEMMA InitTracked ==
  ASSUME Init
  PROVE  Tracked
<1> DEFINE b0 == CHOOSE b \in BxTaskId : \A c \in BxTaskId : b <= c
           c0 == CHOOSE c \in Cluster : TRUE
<1>1. /\ run = [t \in TaskId |-> NewRun]
      /\ instance = [r \in RowId |-> IF r[2] \in Mounted /\ r[1] = b0
                                     THEN [status |-> "ALB", cluster |-> c0] ELSE NoRow]
      /\ bx = [b \in BxTaskId |-> IF Mounted # {} /\ b = b0
                 THEN [kind |-> "expand", state |-> "done", machines |-> Mounted] ELSE NoBxTask]
      /\ machine = [m \in Machine |-> IF m \in Mounted
                      THEN [state |-> "running", cluster |-> c0] ELSE [state |-> None, cluster |-> 0]]
  BY DEF Init
<1>2. Mounted # {} => b0 \in BxTaskId
  <2> SUFFICES ASSUME Mounted # {} PROVE b0 \in BxTaskId
    OBVIOUS
  <2>1. BxTaskId \subseteq Nat /\ BxTaskId # {}
    BY IdAssumption, TemplateAssumption
  <2>2. \E b \in BxTaskId : \A c \in BxTaskId : b <= c
    BY <2>1, LeastId
  <2> QED
    BY <2>2
<1> HIDE DEF b0, c0
<1>3. \A t \in TaskId : run[t].pc = "idle"
  BY <1>1 DEF NewRun
<1>4. BxPolled
  BY <1>1 DEF BxPolled, NoBxTask, None
<1>5. AllCarried
  BY <1>3 DEF AllCarried, CarriesExpand, CarriesShrink, CarriesDeploy, FreshRun, Unborn
<1>6. ASSUME NEW m \in Machine PROVE Synced(m)
  <2>1. CASE m \in Mounted
    <3>1. PICK r : r = <<b0, m>>
      OBVIOUS
    <3>2. r \in RowId /\ r[1] = b0 /\ r[2] = m
      BY <1>2, <2>1, <3>1 DEF RowId, Key
    <3>3. Live(r) /\ Up(m)
      BY <1>1, <2>1, <3>2 DEF Live, Exists, None, Up
    <3> QED
      BY <3>2, <3>3 DEF Synced
  <2>2. CASE m \notin Mounted
    <3>1. ~Up(m)
      BY <1>1, <2>2 DEF Up, None
    <3>2. \A r \in RowId : r[2] = m => ~Live(r)
      BY <1>1, <2>2 DEF Live, Exists, NoRow, None
    <3> QED
      BY <3>1, <3>2 DEF Synced
  <2> QED
    BY <2>1, <2>2
<1> QED
  BY <1>4, <1>5, <1>6 DEF Tracked, AllSynced

LEMMA AlwaysTracked ==
  ASSUME Patient, Calm, Initialises
  PROVE  Spec /\ []IdsApart => []Serial /\ []Tracked
<1>1. Init => Tracked
  BY InitTracked
<1>2. IdsApart /\ IdsApart' /\ Barrier /\ Serial /\ Tracked /\ [Next]_vars => Tracked'
  BY NextTracked
<1>3. Timely
  BY DEF Calm, Timely
<1>4. Spec /\ []IdsApart => []Serial
  BY <1>3, AlwaysSerial
<1> QED
  BY <1>1, <1>2, <1>4, AlwaysBarrier, PTL DEF Spec

\* When nothing is going on no machine is in transit.
LEMMA QuietSynced ==
  ASSUME Tracked, Quiet, NEW m \in Machine
  PROVE  Synced(m)
<1>1. \A t \in TaskId : ~TransitOf(t, m)
  BY DEF Quiet, Running, Active, Calls, TransitOf, FreshRun
<1> QED
  BY <1>1 DEF Tracked, AllSynced, InTransit

(* When nothing is going on every machine that runs has a row that is not     *)
(* DELETED: what goes wrong on the machines, at the load balancer or with     *)
(* their number costs no machine its row, as long as the expands initialise   *)
(* what they buy and each cluster has one task at a time.                     *)
THEOREM MachinesAreTracked ==
  ASSUME Patient, Calm, Initialises
  PROVE  Spec /\ []IdsApart => []RunningIsTracked
<1>1. Tracked => RunningIsTracked
  <2> SUFFICES ASSUME Tracked, Quiet, NEW m \in Machine, machine[m].state = "running"
               PROVE  LiveRows(m) # {}
    BY DEF RunningIsTracked
  <2>1. PICK r \in RowId : r[2] = m /\ Live(r)
    BY QuietSynced DEF Synced, Up
  <2> QED
    BY <2>1 DEF LiveRows, Live
<1> QED
  BY <1>1, AlwaysTracked, PTL

\* The rows of a cluster and its machines that run are counterparts.
LEMMA RowsCount ==
  ASSUME Barrier, Serial, Tracked, Quiet, NEW sc \in Cluster
  PROVE  GetInstanceCountByClusterIds(sc) = Cardinality(RunningIn(sc))
<1> DEFINE Rows == {r \in RowsOfCluster(sc) : instance[r].status # "DELETED"}
           of == [r \in Rows |-> r[2]]
<1>1. ASSUME NEW r \in Rows
      PROVE  r \in RowId /\ Live(r) /\ r[2] \in RunningIn(sc)
  <2>1. r \in RowId /\ Exists(r) /\ Live(r) /\ instance[r].cluster = sc
    BY <1>1 DEF RowsOfCluster, Live
  <2>2. r[2] \in Machine /\ machine[r[2]].cluster = sc
    BY <2>1 DEF Barrier, AllRows, RowOf, PlacedIn, RowId
  <2>3. Up(r[2])
    BY <2>1, <2>2, QuietSynced DEF Synced
  <2> QED
    BY <2>1, <2>2, <2>3 DEF RunningIn, Up
<1>2. ASSUME NEW m \in RunningIn(sc)
      PROVE  \E r \in Rows : r[2] = m
  <2>1. m \in Machine /\ Up(m) /\ machine[m].cluster = sc
    BY <1>2 DEF RunningIn, Up
  <2>2. PICK r \in RowId : r[2] = m /\ Live(r)
    BY <2>1, QuietSynced DEF Synced
  <2>3. instance[r].cluster = sc
    BY <2>1, <2>2 DEF Barrier, AllRows, RowOf, PlacedIn, Live
  <2> QED
    BY <2>2, <2>3 DEF RowsOfCluster, Live
<1>3. of \in Bijection(Rows, RunningIn(sc))
  <2>1. of \in [Rows -> RunningIn(sc)]
    BY <1>1
  <2>2. \A r, s \in Rows : of[r] = of[s] => r = s
    BY <1>1 DEF Serial, Single
  <2>3. \A m \in RunningIn(sc) : \E r \in Rows : of[r] = m
    BY <1>2
  <2> HIDE DEF of, Rows
  <2> QED
    BY <2>1, <2>2, <2>3 DEF Bijection, Injection, IsInjective, Surjection
<1>4. IsFiniteSet(RunningIn(sc))
  <2>1. RunningIn(sc) \subseteq Machine
    BY DEF RunningIn
  <2> QED
    BY <2>1, FS_Subset, IdAssumption
<1>5. Cardinality(Rows) = Cardinality(RunningIn(sc))
  <2> HIDE DEF of, Rows
  <2>1. of \in Injection(Rows, RunningIn(sc)) /\ of \in Surjection(Rows, RunningIn(sc))
    BY <1>3 DEF Bijection
  <2> QED
    BY <1>4, <2>1, FS_Injection
<1> QED
  BY <1>5 DEF GetInstanceCountByClusterIds

(* When nothing is going on the instance count of a cluster, a count of rows, *)
(* is the number of its machines that run: no machine is counted twice, after *)
(* its release or not at all.                                                 *)
THEOREM CountsAreRight ==
  ASSUME Patient, Calm, Initialises
  PROVE  Spec /\ []IdsApart => []CountIsOfRunning
<1>1. Barrier /\ Serial /\ Tracked => CountIsOfRunning
  BY RowsCount DEF CountIsOfRunning
<1> QED
  BY <1>1, AlwaysTracked, AlwaysBarrier, PTL

-----------------------------------------------------------------------------
(* Only machines that are ready are mounted. *)

EarlyRun(r) == r.i < 3 \/ (r.i = 3 /\ r.pc \in {"next", "store"})

\* The ids of related tasks are saved after the first two instructions.
Related(r) == r.pc = "relation" => r.i < 3

(* Before its service initialisation an expand has no row that says SVC.      *)
NotReadyYet(t) ==
    (task[t].kind = "Expand" /\ run[t].key # 0 /\ EarlyRun(run[t])) =>
        \A m \in Machine : instance[<<run[t].key, m>>].status # "SVC"

(* The row of a service initialisation still under way does not say SVC.      *)
SvcPending(g) == g.target = "SVC" => instance[<<g.key, g.inst>>].status # "SVC"

(* Hence an expand whose rows all said SVC has no command in flight.          *)
Over(t) ==
    (task[t].kind = "Expand" /\ (run[t].i = 4 \/ (run[t].i = 3 /\ run[t].pc = "node_list"))) =>
        InFlight(t) = {}

ReadyToMount(t) ==
    (task[t].kind = "Expand" /\ run[t].i = 4 /\ run[t].pc \in {"next", "mount_call"}) =>
        \A m \in run[t].grp : instance[<<run[t].key, m>>].status = "SVC"

AllPending == \A g \in node : SvcPending(g)

Readiness ==
    /\ OneActive /\ Unended
    /\ \A t \in TaskId : Related(run[t]) /\ NotReadyYet(t) /\ Over(t) /\ ReadyToMount(t)
    /\ AllPending

LEMMA RelatedStays ==
  ASSUME IInv, [Next]_vars, NEW t \in TaskId, Related(run[t])
  PROVE  Related(run'[t])
<1> SUFFICES ASSUME run'[t].pc = "relation" PROVE run'[t].i < 3
  BY DEF Related
<1>1. run[t] \in RunRec /\ IInv'
  BY RunFacts, NextIInv
<1>2. task'[t].kind = "Expand"
  BY <1>1 DEF IInv, Control, Consistent
<1>3. ExpandMove(t) /\ task[t].kind = "Expand"
  BY <1>2, EveryMove DEF IdleMove, OtherMove, ExpandMove, SameTask
<1>4. GetsNodes(t) => run[t].i # 3
  <2>1. run[t].i = 3 => ~HasRelation(t)
    BY <1>3, ExpandCalls DEF HasRelation
  <2> QED
    BY <2>1 DEF GetsNodes, Leaves, GoesOn, MovesTo
<1> QED
  BY <1>1, <1>3, <1>4 DEF ExpandMove, GetsTask, GetsMachines, MovesTo, RunRec, Related

\* The commands that write the rows of an expand are its own.
LEMMA OwnCommand ==
  ASSUME IdsApart, Barrier, NEW t \in TaskId, run[t].key # 0, NEW g \in node, g.key = run[t].key
  PROVE  g.task = t /\ task[t].kind = "Expand" /\ Sent(g)
<1>1. /\ IInv /\ AllKnown /\ OwnBx /\ Sent(g) /\ g.task \in TaskId /\ Known(run[t], task[t].kind)
      /\ run[t].key \in BxTaskId /\ run[t].key = run[t].bx
  BY SentFacts, KnownKeys DEF Barrier, AllSent, AllKnown
<1>2. task[t].kind = "Expand" /\ bx[run[t].key].kind # None
  BY <1>1 DEF Known
<1>3. task[g.task].kind = "Expand"
  BY <1>1, <1>2, CommandKeys DEF IdsApart
<1>4. g.key = run[g.task].key
  BY <1>3 DEF Barrier, AllSent, Sent
<1> QED
  BY <1>1, <1>2, <1>4, KeysApart

LEMMA SvcWritten ==
  ASSUME IInv, [Next]_vars, NEW r \in RowId, instance'[r].status = "SVC", instance[r].status # "SVC"
  PROVE  \E g \in node : r = <<g.key, g.inst>> /\ g.target = "SVC" /\ node' = node \ {g}
<1>1. Written(r) /\ instance[r] \in InstanceRow
  BY EveryRowWritten, TypeParts DEF IInv, RowsOK
<1>2. \A status : Updated(r, status) => instance'[r].status = status
  BY <1>1, StatusSet DEF Updated
<1>3. \A sc : NewRow(sc).status = "INIT"
  BY DEF NewRow
<1>4. ~Added(r)
  BY <1>3 DEF Added
<1> QED
  BY <1>1, <1>2, <1>4 DEF Written

LEMMA NotReadyStays ==
  ASSUME IdsApart, IdsApart', Barrier, [Next]_vars, NEW t \in TaskId, NotReadyYet(t)
  PROVE  NotReadyYet(t)'
<1> SUFFICES ASSUME task'[t].kind = "Expand", run'[t].key # 0, EarlyRun(run'[t]), NEW m \in Machine,
                    instance'[<<run'[t].key, m>>].status = "SVC"
             PROVE  FALSE
  BY DEF NotReadyYet
<1>1. IInv /\ AllKnown /\ run[t] \in RunRec /\ Known(run[t], task[t].kind)
  BY RunFacts DEF Barrier, AllKnown
<1>2. run[t].pc # "idle"
  <2>1. run[t].pc = "idle" => run[t].key = 0
    BY <1>1 DEF Known, Unkeyed
  <2> QED
    BY <1>1, <2>1, EveryMove DEF IdleMove, SameHands, SameKeys, ExpandMove, OtherMove
<1>3. ExpandMove(t) /\ task[t].kind = "Expand"
  BY <1>1, <1>2, EveryMove, EveryTaskStays DEF IdleMove, OtherMove, TasksStay, SameTask
<1>4. CASE GetsMachines(t)
  <2>1. /\ run'[t].pc = "get_cluster" /\ run'[t].i = 1 /\ run'[t].bx # 0
        /\ run'[t].key = run[t].bx /\ run'[t].bx = run[t].bx
    BY <1>1, <1>3, <1>4, RunFacts, IdAssumption DEF GetsMachines, MovesTo, ExpandMove, GetsTask, GetsNodes,
       SameHands, SameKeys, Consistent
  <2>2. InstsOfTask(run[t].bx)' = {}
    BY <2>1, FreshStays DEF FreshRun
  <2>3. PICK k \in Key : k = run'[t].key /\ k = run[t].bx /\ k = run'[t].bx
    BY <1>1, <2>1, KnownKeys DEF Key
  <2>4. <<k, m>> \in RowId
    BY <2>3 DEF RowId
  <2>5. instance'[<<k, m>>].status = None
    BY <2>2, <2>3, <2>4 DEF InstsOfTask, Exists
  <2> QED
    BY <2>3, <2>5 DEF None
<1>5. CASE ~GetsMachines(t)
  <2>1. run'[t].key = run[t].key /\ EarlyRun(run[t])
    BY <1>1, <1>3, <1>5 DEF ExpandMove, SameHands, SameKeys, GetsTask, GetsNodes, EarlyRun, MovesTo, RunRec
  <2>2. PICK k \in BxTaskId : k = run[t].key
    BY <1>1, <2>1, KnownKeys
  <2>3. instance[<<k, m>>].status # "SVC" /\ instance'[<<k, m>>].status = "SVC" /\ <<k, m>> \in RowId
    BY <1>3, <2>1, <2>2 DEF NotReadyYet, RowId, Key
  <2>4. PICK g \in node : <<k, m>> = <<g.key, g.inst>> /\ g.target = "SVC"
    BY <1>1, <2>3, SvcWritten
  <2>5. g.task = t /\ Sent(g)
    BY <2>1, <2>2, <2>4, OwnCommand
  <2> QED
    BY <1>1, <1>3, <2>1, <2>4, <2>5 DEF Sent, BaseSent, SvcSent, EarlyRun, RunRec
<1> QED
  BY <1>4, <1>5

LEMMA SvcPendingStays ==
  ASSUME IdsApart, Barrier, Readiness, [Next]_vars, NEW g \in node', g.target = "SVC"
  PROVE  instance'[<<g.key, g.inst>>].status # "SVC"
<1>1. CASE g \in node
  <2>1. <<g.key, g.inst>> \in RowId
    BY <1>1, SentFacts DEF Barrier, AllSent
  <2>2. instance[<<g.key, g.inst>>].status # "SVC"
    BY <1>1 DEF Readiness, AllPending, SvcPending
  <2>3. ASSUME NEW h \in node, <<g.key, g.inst>> = <<h.key, h.inst>>, node' = node \ {h} PROVE FALSE
    BY <1>1, <2>3, OwnRow
  <2> QED
    BY <2>1, <2>2, <2>3, SvcWritten DEF Barrier
<1>2. CASE g \notin node
  <2>1. PICK t \in TaskId : StoreNodes(t) \/ DeployInsert(t) \/ DeployQuery(t)
    BY <1>2, CommandsStart DEF Starts
  <2>2. IInv /\ run[t] \in RunRec
    BY RunFacts DEF Barrier
  <2>3. Target(Instr(t)) = "SVC" => StoreNodes(t)
    <3>1. DeployInsert(t) \/ DeployQuery(t) => Instr(t) \in DeployActions
      BY <2>2, PcInstr DEF DeployInsert, DeployQuery, At, DeployActions
    <3> QED
      BY <2>1, <3>1 DEF DeployActions, Target
  <2>4. g.task = t /\ g.target = Target(Instr(t))
    BY <1>2, <2>1, NewCommands DEF CommandsOf
  <2>5. StoreNodes(t)
    BY <2>3, <2>4
  <2>6. run[t].pc = "store" /\ task[t].kind = "Expand" /\ run[t].i \in {2, 3} /\ run[t].key # 0
    BY <2>2, <2>5, StoreFacts
  <2>7. PICK m \in run[t].grp : g = [task |-> t, key |-> run[t].key, inst |-> m, target |-> Target(Instr(t))]
    BY <1>2, <2>5, NewCommands DEF CommandsOf
  <2>8. m \in Machine /\ g.key = run[t].key /\ g.inst = m
    BY <2>2, <2>7 DEF RunRec
  <2>9. instance[<<run[t].key, m>>].status # "SVC"
    BY <2>6, <2>8 DEF Readiness, NotReadyYet, EarlyRun
  <2>10. instance'[<<run[t].key, m>>].status # "SVC"
    BY <2>2, <2>5, <2>9, StoredRow
  <2> QED
    BY <2>8, <2>10
<1> QED
  BY <1>1, <1>2

\* No command of the task is new.
LEMMA NoneStarted ==
  ASSUME IInv, [Next]_vars, NEW t \in TaskId, InFlight(t) = {},
         ~StoreNodes(t), ~DeployInsert(t), ~DeployQuery(t)
  PROVE  InFlight(t)' = {}
<1>1. ASSUME NEW g \in node', g.task = t PROVE FALSE
  <2>1. g \notin node
    BY <1>1 DEF InFlight
  <2>2. PICK u \in TaskId : StoreNodes(u) \/ DeployInsert(u) \/ DeployQuery(u)
    BY <2>1, CommandsStart DEF Starts
  <2>3. g.task = u
    BY <2>1, <2>2, NewCommands DEF CommandsOf
  <2> QED
    BY <1>1, <2>2, <2>3
<1> QED
  BY <1>1 DEF InFlight

LEMMA OverStays ==
  ASSUME IdsApart, Barrier, Readiness, [Next]_vars, NEW t \in TaskId
  PROVE  Over(t)'
<1> SUFFICES ASSUME task'[t].kind = "Expand", run'[t].i = 4 \/ (run'[t].i = 3 /\ run'[t].pc = "node_list")
             PROVE  InFlight(t)' = {}
  BY DEF Over
<1>1. IInv /\ run[t] \in RunRec /\ Related(run[t])
  BY RunFacts DEF Barrier, Readiness
<1>2. ExpandMove(t) /\ task[t].kind = "Expand"
  BY <1>1, EveryMove, EveryTaskStays DEF IdleMove, OtherMove, TasksStay, SameTask, ExpandMove
<1>3. \/ run[t].i = 4 \/ (run[t].i = 3 /\ run[t].pc = "node_list")
      \/ run[t].i = 3 /\ run[t].pc = "node_poll" /\ run'[t].pc = "node_list"
  BY <1>1, <1>2 DEF ExpandMove, GetsTask, GetsMachines, GetsNodes, MovesTo, RunRec, Related
<1>4. InFlight(t) = {}
  <2>1. CASE run[t].i = 4 \/ (run[t].i = 3 /\ run[t].pc = "node_list")
    BY <1>2, <2>1 DEF Readiness, Over
  <2>2. CASE run[t].i = 3 /\ run[t].pc = "node_poll" /\ run'[t].pc = "node_list"
    <3>1. Target(Instr(t)) = "SVC"
      BY <1>1, <1>2, <2>2, ExpandCalls DEF Target
    <3>2. InstsQueryByTaskId(run[t].key, "SVC") = InstsOfTask(run[t].key)
      BY <1>1, <2>2, <3>1, PollPassed
    <3>3. ASSUME NEW g \in node, g.task = t PROVE FALSE
      <4>1. /\ Sent(g) /\ g.inst \in Machine /\ <<g.key, g.inst>> \in RowId
            /\ instance[<<g.key, g.inst>>].status # "SVC" \/ g.target # "SVC"
        BY SentFacts DEF Barrier, AllSent, Readiness, AllPending, SvcPending
      <4>2. g.key = run[t].key /\ g.target = "SVC" /\ Exists(<<g.key, g.inst>>)
        BY <1>2, <2>2, <3>3, <4>1 DEF Sent, BaseSent, SvcSent
      <4>3. g.inst \in InstsOfTask(run[t].key)
        BY <4>1, <4>2 DEF InstsOfTask
      <4> QED
        BY <3>2, <4>1, <4>2, <4>3 DEF InstsQueryByTaskId
    <3> QED
      BY <3>3 DEF InFlight
  <2> QED
    BY <1>3, <2>1, <2>2
<1>5. ~StoreNodes(t) /\ ~DeployInsert(t) /\ ~DeployQuery(t)
  <2>1. ~StoreNodes(t)
    <3>1. StoreNodes(t) => run[t].pc = "store" /\ run[t].i \in {2, 3}
      BY <1>1, StoreFacts
    <3> QED
      BY <1>3, <3>1
  <2> QED
    BY <1>1, <1>2, <2>1, DeployFacts
<1> QED
  BY <1>1, <1>4, <1>5, NoneStarted

LEMMA ReadyStays ==
  ASSUME IdsApart, Barrier, Readiness, [Next]_vars, NEW t \in TaskId
  PROVE  ReadyToMount(t)'
<1> SUFFICES ASSUME task'[t].kind = "Expand", run'[t].i = 4, run'[t].pc \in {"next", "mount_call"},
                    NEW m \in run'[t].grp
             PROVE  instance'[<<run'[t].key, m>>].status = "SVC"
  BY DEF ReadyToMount
<1>1. IInv /\ AllKnown /\ run[t] \in RunRec /\ Place(t) /\ Related(run[t])
  BY RunFacts DEF Barrier, AllPlaced, Readiness
<1>2. ExpandMove(t) /\ task[t].kind = "Expand"
  BY <1>1, EveryMove, EveryTaskStays DEF IdleMove, OtherMove, TasksStay, SameTask, ExpandMove
<1>3. \/ GetsNodes(t) /\ run[t].i = 3
      \/ run[t].i = 4 /\ run[t].pc \in {"next", "mount_call"} /\ SameHands(t)
  <2>1. CASE run[t].i = 4
    <3>1. Move(t) /\ ~HasRelation(t)
      BY <1>1, <1>2, <2>1, EveryRunMoves, ExpandCalls DEF HasRelation
    <3>2. run[t].pc \in {"next", "mount_call"}
      BY <1>1, <1>2, <2>1, <3>1 DEF ExpandMove, Move, PlainMove, GetsTask, GetsMachines, GetsNodes,
         GetsCluster, MovesTo, Related, Leaves, GoesOn, Errs, CallPairs, RunRec
    <3> QED
      BY <1>1, <1>2, <2>1, <3>2 DEF ExpandMove, GetsTask, GetsMachines, GetsNodes, SameHands, SameKeys
  <2>2. CASE run[t].i # 4
    BY <1>1, <1>2, <2>2 DEF ExpandMove, GetsTask, GetsMachines, GetsNodes, MovesTo, Related, RunRec
  <2> QED
    BY <2>1, <2>2
<1>4. PICK k \in BxTaskId : k = run[t].key /\ k = run'[t].key /\ k \in Key
  BY <1>1, <1>2, <1>3, ExpandFacts DEF GetsNodes, SameHands, SameKeys, Key
<1>5. m \in Machine /\ <<k, m>> \in RowId
  BY <1>1, <1>3, <1>4 DEF GetsNodes, InstsQueryByTaskId, InstsOfTask, SameHands, RowId, RunRec
<1>6. instance[<<k, m>>].status = "SVC"
  <2>1. CASE GetsNodes(t) /\ run[t].i = 3
    <3>1. Target(Instr(t)) = "SVC"
      BY <1>1, <1>2, <2>1, ExpandCalls DEF Target
    <3> QED
      BY <1>4, <2>1, <3>1 DEF GetsNodes, InstsQueryByTaskId
  <2>2. CASE run[t].i = 4 /\ run[t].pc \in {"next", "mount_call"} /\ SameHands(t)
    BY <1>2, <1>4, <2>2 DEF Readiness, ReadyToMount, SameHands
  <2> QED
    BY <1>3, <2>1, <2>2
<1>7. instance'[<<k, m>>] = instance[<<k, m>>]
  <2>1. Running(t) /\ run[t].pc \in {"node_list", "next", "mount_call"} /\ InFlight(t) = {} /\ run[t].key # 0
    BY <1>2, <1>3, <1>4, IdAssumption DEF GetsNodes, Running, Active, Calls, Readiness, Over
  <2>2. ASSUME NEW u \in TaskId, RunStep(u), TouchedBy(u, <<k, m>>) PROVE FALSE
    <3>1. Running(u) /\ PlacedIn(m, task[u].cluster)
          /\ run[u].pc \in {"store", "deploy_insert", "deploy_mark", "mount_db", "shrink_db"}
      BY <1>1, <2>2, TouchMoves DEF TouchedBy
    <3>2. PlacedIn(m, task[t].cluster)
      <4>1. Exists(<<k, m>>)
        BY <1>6 DEF Exists, None
      <4> QED
        BY <1>1, <1>4, <1>5, <2>1, <4>1 DEF Place, InstsOfTask
    <3> QED
      BY <2>1, <3>1, <3>2 DEF Readiness, OneActive, PlacedIn
  <2>3. ASSUME NEW g \in node, AnsweredBy(g, <<k, m>>) PROVE FALSE
    <3>1. g.key = run[t].key
      BY <1>4, <2>3 DEF AnsweredBy
    <3> QED
      BY <2>1, <3>1, OwnCommand DEF InFlight
  <2> QED
    BY <1>5, <2>2, <2>3, RowTouched
<1> QED
  BY <1>4, <1>6, <1>7

LEMMA NextReadiness ==
  ASSUME Patient, IdsApart, IdsApart', Barrier, Readiness, [Next]_vars
  PROVE  Readiness'
<1>1. OneActive' /\ Unended'
  BY TurnsStay DEF Barrier, Readiness
<1>2. \A t \in TaskId : Related(run'[t]) /\ NotReadyYet(t)' /\ Over(t)' /\ ReadyToMount(t)'
  BY RelatedStays, NotReadyStays, OverStays, ReadyStays DEF Readiness, Barrier
<1>3. AllPending'
  BY SvcPendingStays DEF AllPending, SvcPending
<1> QED
  BY <1>1, <1>2, <1>3 DEF Readiness

LEMMA InitReadiness ==
  ASSUME Init
  PROVE  Readiness
<1>1. node = {} /\ \A t \in TaskId : run[t].pc = "idle" /\ task[t].kind # "Expand"
  BY DEF Init, NewRun, NoTask, None
<1> QED
  BY <1>1 DEF Readiness, OneActive, Unended, Related, NotReadyYet, Over, ReadyToMount, AllPending, Running,
              Active, Calls

LEMMA AlwaysReadiness ==
  ASSUME Patient
  PROVE  Spec /\ []IdsApart => []Readiness
<1>1. Init => Readiness
  BY InitReadiness
<1>2. IdsApart /\ IdsApart' /\ Barrier /\ Readiness /\ [Next]_vars => Readiness'
  BY NextReadiness
<1> QED
  BY <1>1, <1>2, AlwaysBarrier, PTL DEF Spec

\* Who adds machines to the server group.
LEMMA MountedBy ==
  ASSUME [Next]_vars, NEW m \in slb', m \notin slb
  PROVE  \E t \in TaskId : MountCall(t) /\ m \in run[t].grp
<1>1. CASE \E t \in TaskId : RunStep(t)
  BY <1>1 DEF RunStep, BeginInstr, BeginInstrFails, SaveRelation, SaveRelationFails, ExpandCall,
         ExpandPolled, GetCluster, StoreNodes, NodePolled, NodeListed, MountCall, MountDb, UmountQuery,
         UmountCall, UmountDb, ShrinkPick, ShrinkPickFails, ShrinkCall, ShrinkPolled, ShrinkDb,
         DeployInstances, DeployMark, DeployInsert, DeployQuery, DeployWaited, InstrFails, Finish, cloudVars
<1>2. CASE Request \/ Panic \/ Crash \/ Restart \/ Idle \/ UNCHANGED vars
  BY <1>2 DEF Request, ExpandAction, ShrinkAction, DeployAction, CreateAndRun, Panic, TaskPanics,
       PollPanics, Crash, ProcessDies, Restart, Idle, vars, cloudVars
<1>3. CASE (\E g \in node : NodeStep(g)) \/ \E b \in BxTaskId : BxStep(b)
  BY <1>3 DEF NodeStep, BxStep, cloudVars
<1> QED
  BY <1>1, <1>2, <1>3 DEF Next

(* A machine enters the server group only when a row of it says that its      *)
(* service environment is set up: whatever fails, no late command and no      *)
(* other task takes that back between the last poll and the mount, if callers *)
(* wait for the task of a cluster to end before they ask for the next one.    *)
THEOREM ReadyMachinesServe ==
  ASSUME Patient
  PROVE  Spec /\ []IdsApart => OnlyReadyMachinesServe
<1>1. Barrier /\ Readiness /\ [Next]_vars =>
        [\A m \in slb' \ slb : \E k \in Key : instance[<<k, m>>].status = "SVC"]_vars
  <2> SUFFICES ASSUME Barrier, Readiness, [Next]_vars, NEW m \in slb' \ slb
               PROVE  \E k \in Key : instance[<<k, m>>].status = "SVC"
    OBVIOUS
  <2>1. PICK t \in TaskId : MountCall(t) /\ m \in run[t].grp
    BY MountedBy
  <2>2. run[t].pc = "mount_call" /\ Instr(t) = "mount.slb" /\ IInv
    BY <2>1, PcInstr DEF Barrier, MountCall, At
  <2>3. task[t].kind = "Expand" /\ run[t].i = 4
    <3>1. run[t].i \in 1..MaxInstr /\ run[t].i <= GroupLen(task[t].kind)
      BY <2>2, RunFacts DEF Consistent, RunRec
    <3> QED
      BY <2>2, <3>1, TemplateAssumption DEF Instr, InstrAt, ExpandStep, InstanceDeployStep, MaxInstr, GroupLen
  <2>4. instance[<<run[t].key, m>>].status = "SVC" /\ run[t].key \in Key
    BY <2>1, <2>2, <2>3, ExpandFacts DEF Readiness, ReadyToMount
  <2> QED
    BY <2>4
<1> QED
  BY <1>1, AlwaysBarrier, AlwaysReadiness, PTL DEF Spec, OnlyReadyMachinesServe

-----------------------------------------------------------------------------
(* What a shrink gives back *)

FiniteRows == IsFiniteSet({r \in RowId : Exists(r)})

Within(t) == task[t].inst_cnt > 0 => Cardinality(run[t].grp) <= task[t].inst_cnt

NoneMounted(sc) == RowsToUmount(sc) = {}

(* A shrink of a cluster with mounted rows has its machines from the query for *)
(* them; it has none left to choose only when that query found none.          *)
Chooses(t) ==
    task[t].kind = "Shrink" =>
        /\ (run[t].i = 1 /\ run[t].pc \in {"next", "umount_query"}) => run[t].grp = {}
        /\ run[t].pc \in {"umount_call", "umount_db"} => run[t].grp # {} /\ Within(t)
        /\ (run[t].i = 2 /\ run[t].pc \in {"next", "shrink_pick"}) =>
              Within(t) /\ (run[t].grp = {} => NoneMounted(task[t].cluster))
        /\ run[t].pc = "shrink_call" => Within(t) \/ NoneMounted(task[t].cluster)

Choosing == FiniteRows /\ \A t \in TaskId : Chooses(t)

\* An expand ends by mounting its machines.
MountsInStep4 == EndStep = 4

LEMMA FiniteRowsStay ==
  ASSUME IInv, FiniteRows, [Next]_vars
  PROVE  FiniteRows'
<1> DEFINE E == {r \in RowId : Exists(r)}
           F == {r \in RowId : instance'[r].status # None}
<1>1. ASSUME NEW r \in F, r \notin E PROVE Added(r)
  BY <1>1, EveryRowWritten DEF Written, Updated, Exists
<1>2. \E k : F \subseteq E \cup ({k} \X Machine)
  <2>1. CASE \E t \in TaskId : StoreNodes(t) \/ DeployInsert(t)
    <3>1. PICK t \in TaskId : StoreNodes(t) \/ DeployInsert(t)
      BY <2>1
    <3>2. \A u \in TaskId : (StoreNodes(u) \/ DeployInsert(u)) => u = t
      <4>1. \A u \in TaskId : (StoreNodes(u) \/ DeployInsert(u)) => run'[u] # run[u] /\ MovesAlone(u)
        BY StoreFacts, DeployFacts, RunFacts DEF RunRec
      <4> QED
        BY <3>1, <4>1 DEF MovesAlone
    <3>3. PICK k : k = IF StoreNodes(t) THEN run[t].key ELSE t
      OBVIOUS
    <3>4. ~(StoreNodes(t) /\ DeployInsert(t))
      BY DEF StoreNodes, DeployInsert, At
    <3>5. ASSUME NEW r \in F, r \notin E PROVE r \in {k} \X Machine
      <4>1. r[1] = k
        BY <1>1, <3>2, <3>3, <3>4, <3>5 DEF Added
      <4> QED
        BY <4>1 DEF RowId
    <3> QED
      BY <3>5
  <2>2. CASE ~\E t \in TaskId : StoreNodes(t) \/ DeployInsert(t)
    BY <1>1, <2>2 DEF Added
  <2> QED
    BY <2>1, <2>2
<1>3. PICK k : F \subseteq E \cup ({k} \X Machine)
  BY <1>2
<1>4. IsFiniteSet(E) /\ IsFiniteSet({k} \X Machine)
  BY FS_Singleton, FS_Product, IdAssumption DEF FiniteRows
<1> HIDE DEF E
<1>5. IsFiniteSet(E \cup ({k} \X Machine))
  BY <1>4, FS_Union
<1>6. IsFiniteSet(F)
  BY <1>3, <1>5, FS_Subset
<1> QED
  BY <1>6 DEF FiniteRows, Exists

LEMMA InitFiniteRows == Init => FiniteRows
<1> SUFFICES ASSUME Init PROVE FiniteRows
  OBVIOUS
<1> DEFINE E == {r \in RowId : Exists(r)}
<1>1. PICK b0 : \A r \in RowId : Exists(r) => r[1] = b0
  BY DEF Init, NoRow, None, Exists
<1>2. E \subseteq {b0} \X Machine
  BY <1>1 DEF RowId
<1>3. IsFiniteSet({b0} \X Machine)
  BY FS_Singleton, FS_Product, IdAssumption
<1> QED
  BY <1>2, <1>3, FS_Subset DEF FiniteRows

\* A query for rows to unmount names no more machines than it was asked for.
LEMMA QueriedWithin ==
  ASSUME FiniteRows, NEW sc, NEW cnt \in Int, NEW rows \in QueryInstsToUmount(sc, cnt)
  PROVE  /\ cnt > 0 => Cardinality({r[2] : r \in rows}) <= cnt
         /\ rows = {} => NoneMounted(sc)
<1> DEFINE Found == RowsToUmount(sc)
           names == {r[2] : r \in rows}
           of == [r \in rows |-> r[2]]
<1>1. IsFiniteSet(Found) /\ Cardinality(Found) \in Nat
  <2>1. Found \in SUBSET {r \in RowId : Exists(r)}
    BY DEF RowsToUmount, RowsOfCluster
  <2>2. IsFiniteSet(Found)
    BY <2>1, FS_Subset DEF FiniteRows
  <2> QED
    BY <2>2, FS_CardinalityType
<1>2. /\ rows \in SUBSET Found
      /\ Cardinality(rows) = IF cnt \in 1..Cardinality(Found) THEN cnt ELSE Cardinality(Found)
  BY DEF QueryInstsToUmount
<1> HIDE DEF Found
<1>3. IsFiniteSet(rows)
  BY <1>1, <1>2, FS_Subset
<1>4. Cardinality(names) <= Cardinality(rows) /\ IsFiniteSet(names)
  <2>1. of \in Surjection(rows, names)
    BY DEF Surjection
  <2> HIDE DEF of, names
  <2> QED
    BY <1>3, <2>1, FS_Surjection
<1>5. Cardinality(names) \in Nat /\ Cardinality(rows) \in Nat
  BY <1>3, <1>4, FS_CardinalityType
<1>6. cnt > 0 => Cardinality(names) <= cnt
  BY <1>1, <1>2, <1>4, <1>5
<1>7. rows = {} => Found = {}
  <2> SUFFICES ASSUME rows = {} PROVE Found = {}
    OBVIOUS
  <2>1. Cardinality(rows) = 0
    BY FS_EmptySet
  <2>2. Cardinality(Found) = 0
    BY <1>1, <1>2, <2>1
  <2> QED
    BY <1>1, <2>2, FS_EmptySet
<1> QED
  BY <1>6, <1>7 DEF Found, NoneMounted

LEMMA ShrinkGroup ==
  ASSUME MountsInStep4, IInv, NEW t \in TaskId, task[t].kind = "Shrink"
  PROVE  /\ run[t].i \in 1..2 /\ GroupLen(task[t].kind) = 2
         /\ run[t].pc \in Calls =>
              IF run[t].i = 1 THEN run[t].pc \in {"umount_query", "umount_call", "umount_db"}
              ELSE run[t].pc \in {"shrink_pick", "shrink_call", "shrink_poll", "shrink_db"}
         /\ run[t].pc # "relation" /\ ~HasRelation(t)
         /\ FirstCall(Instr(t)) = IF run[t].i = 1 THEN "umount_query" ELSE "shrink_pick"
<1>1. Consistent(run[t], task[t].kind) /\ run[t] \in RunRec /\ GroupLen(task[t].kind) = 2
  BY RunFacts DEF MountsInStep4, GroupLen
<1>2. run[t].i \in 1..2
  BY <1>1 DEF Consistent, RunRec, MaxInstr
<1>3. Instr(t) = IF run[t].i = 1 THEN "umount.slb" ELSE "bridgx.shrink"
  BY <1>2 DEF Instr, InstrAt, MountsInStep4
<1>4. run[t].pc \in Calls => run[t].pc \in CallsOf(Instr(t))
  BY <1>1 DEF Consistent, Instr
<1> QED
  BY <1>1, <1>2, <1>3, <1>4 DEF CallsOf, FirstCall, HasRelation, Consistent

LEMMA ShrinkSteps ==
  ASSUME MountsInStep4, IInv, NEW t \in TaskId, task[t].kind = "Shrink", RunStep(t)
  PROVE  \/ BeginInstr(t) \/ BeginInstrFails(t) \/ UmountQuery(t) \/ UmountCall(t) \/ UmountDb(t)
         \/ ShrinkPick(t) \/ ShrinkPickFails(t) \/ ShrinkCall(t) \/ ShrinkPolled(t) \/ ShrinkDb(t)
         \/ InstrFails(t) \/ Finish(t)
<1>1. run[t].pc # "relation" /\
      (run[t].pc \in Calls => run[t].pc \in {"umount_query", "umount_call", "umount_db",
                                             "shrink_pick", "shrink_call", "shrink_poll", "shrink_db"})
  BY ShrinkGroup
<1> QED
  BY <1>1 DEF RunStep, At, SaveRelation, SaveRelationFails, ExpandCall,
         ExpandPolled, GetCluster, StoreNodes, NodePolled, NodeListed, MountCall, MountDb,
         DeployInstances, DeployMark, DeployInsert, DeployQuery, DeployWaited, Calls

LEMMA AlbWritten ==
  ASSUME IInv, [Next]_vars, NEW r \in RowId, instance'[r].status = "ALB", instance[r].status # "ALB"
  PROVE  Exists(r) /\ \E u \in TaskId : run[u].pc = "mount_db" /\ r[1] = run[u].key /\ run[u].key # 0
<1>1. Written(r) /\ instance[r] \in InstanceRow
  BY EveryRowWritten, TypeParts DEF IInv, RowsOK
<1>2. \A status : Updated(r, status) => instance'[r].status = status
  BY <1>1, StatusSet DEF Updated
<1>3. \A sc : NewRow(sc).status = "INIT"
  BY DEF NewRow
<1>4. ~Added(r)
  BY <1>3 DEF Added
<1>5. \A g \in node : g.target # "ALB"
  BY TypeParts DEF IInv, EnvTypeOK, Goroutine, Targets
<1> QED
  BY <1>1, <1>2, <1>4, <1>5 DEF Written, Updated

\* While a shrink runs nobody mounts machines of its cluster.
LEMMA NoneMountedStays ==
  ASSUME Barrier, OneActive, [Next]_vars, NEW t \in TaskId, Running(t), run[t].pc # "mount_db",
         NEW sc, sc = task[t].cluster, NoneMounted(sc)
  PROVE  NoneMounted(sc)'
<1> SUFFICES ASSUME NEW r \in RowId, instance'[r].status = "ALB", instance'[r].cluster = sc
             PROVE  FALSE
  BY DEF NoneMounted, RowsToUmount, RowsOfCluster, Exists
<1>1. IInv /\ RowsStay /\ RowOf(r) /\ r[1] \in Key /\ r[2] \in Machine /\ r = <<r[1], r[2]>>
  BY EveryRowWritten, EveryRowStays DEF Barrier, AllRows, RowId
<1>2. Exists(r) => instance[r].cluster = sc
  BY <1>1 DEF RowsStay
<1>3. instance[r].status # "ALB"
  BY <1>2 DEF NoneMounted, RowsToUmount, RowsOfCluster, Exists, None
<1>4. PICK u \in TaskId : run[u].pc = "mount_db" /\ r[1] = run[u].key /\ run[u].key # 0
  BY <1>1, <1>3, AlbWritten
<1>5. Exists(r)
  BY <1>1, <1>3, AlbWritten
<1>6. PlacedIn(r[2], sc)
  BY <1>1, <1>2, <1>5 DEF RowOf
<1>7. PlacedIn(r[2], task[u].cluster)
  <2>1. PICK k \in Key : k = run[u].key /\ k = r[1]
    BY <1>1, <1>4
  <2>2. r[2] \in InstsOfTask(run[u].key)
    BY <1>1, <1>5, <2>1 DEF InstsOfTask
  <2> QED
    BY <1>4, <2>2 DEF Barrier, AllPlaced, Place
<1> QED
  BY <1>4, <1>6, <1>7 DEF OneActive, PlacedIn, Running, Active, Calls

\* Chooses, for a goroutine that does not move.
LEMMA ChoosesRests ==
  ASSUME MountsInStep4, Barrier, OneActive, [Next]_vars, NEW t \in TaskId, run'[t] = run[t], Chooses(t)
  PROVE  Chooses(t)'
<1> SUFFICES ASSUME task'[t].kind = "Shrink" PROVE Chooses(t)'
  BY DEF Chooses
<1>1. IInv /\ run[t] \in RunRec
  BY RunFacts DEF Barrier
<1>2. CASE run[t].pc = "idle"
  BY <1>2 DEF Chooses
<1>3. CASE run[t].pc # "idle"
  <2>1. SameTask(t) /\ task[t].kind = "Shrink"
    BY <1>1, <1>3, EveryTaskStays DEF TasksStay, SameTask
  <2>2. Within(t)' <=> Within(t)
    BY <2>1 DEF Within, SameTask
  <2>3. PICK sc : sc = task[t].cluster /\ sc = task'[t].cluster
    BY <2>1 DEF SameTask
  <2>4. run[t].pc \in {"next", "shrink_pick", "shrink_call"} /\ NoneMounted(sc) => NoneMounted(sc)'
    BY <2>3, NoneMountedStays DEF Running, Active, Calls
  <2> QED
    BY <2>1, <2>2, <2>3, <2>4 DEF Chooses
<1> QED
  BY <1>2, <1>3

LEMMA ChoosesMoves ==
  ASSUME MountsInStep4, Barrier, OneActive, FiniteRows, [Next]_vars, NEW t \in TaskId, RunStep(t),
         task[t].kind = "Shrink", Chooses(t)
  PROVE  Chooses(t)'
<1>1. /\ IInv /\ run[t] \in RunRec /\ SameTask(t) /\ run[t].pc # "idle" /\ task[t] \in TaskRow
  BY RunFacts, RunStepKeepsTasks, NotIdle, TypeParts DEF Barrier, IInv, TasksOK
<1>2. PICK sc : sc = task[t].cluster /\ sc = task'[t].cluster
  BY <1>1 DEF SameTask
<1>3. PICK cnt \in Int : cnt = task[t].inst_cnt /\ cnt = task'[t].inst_cnt
  BY <1>1 DEF SameTask, TaskRow
<1>4. run'[t].grp = run[t].grp => (Within(t)' <=> Within(t))
  BY <1>3 DEF Within
<1>5. run[t].pc \in {"next", "umount_query", "shrink_pick"} /\ NoneMounted(sc) => NoneMounted(sc)'
  BY <1>2, NoneMountedStays DEF Running, Active, Calls
<1>6. /\ run[t].i \in 1..2 /\ GroupLen(task[t].kind) = 2 /\ ~HasRelation(t)
      /\ FirstCall(Instr(t)) = IF run[t].i = 1 THEN "umount_query" ELSE "shrink_pick"
      /\ run[t].pc \in {"umount_query", "umount_call", "umount_db"} => run[t].i = 1
      /\ run[t].pc \in {"shrink_pick", "shrink_call", "shrink_poll", "shrink_db"} => run[t].i = 2
  BY <1>1, ShrinkGroup DEF Calls
<1>7. CASE BeginInstr(t)
  <2>1. run[t].pc = "next" /\ MovesTo(t, FirstCall(Instr(t)), run[t].i) /\ run'[t].grp = run[t].grp
    BY <1>1, <1>7, GotoMoves DEF BeginInstr, At, SameHands
  <2> QED
    BY <1>1, <1>2, <1>4, <1>5, <1>6, <2>1 DEF MovesTo, Chooses, SameTask
<1>8. CASE UmountQuery(t)
  <2>1. PICK rows \in QueryInstsToUmount(sc, cnt) :
          IF rows = {} THEN Succeed(t, run[t])
          ELSE run' = [run EXCEPT ![t].pc = "umount_call", ![t].grp = {r[2] : r \in rows}]
    BY <1>2, <1>3, <1>8 DEF UmountQuery
  <2>2. run[t].pc = "umount_query" /\ run[t].grp = {}
    BY <1>1, <1>6, <1>8 DEF UmountQuery, At, Chooses
  <2>3. CASE rows = {}
    <3>1. Leaves(t) /\ run'[t].grp = {}
      BY <1>1, <2>1, <2>2, <2>3, LeavesAfter
    <3>2. run'[t].pc = "next" /\ run'[t].i = 2
      BY <1>6, <2>2, <3>1 DEF Leaves, GoesOn, MovesTo
    <3>3. Within(t)'
      BY <1>3, <3>1, FS_EmptySet DEF Within
    <3>4. NoneMounted(sc)'
      BY <1>5, <2>2, <2>3, QueriedWithin
    <3> QED
      BY <1>2, <3>2, <3>3, <3>4 DEF Chooses
  <2>4. CASE rows # {}
    <3>1. run'[t].pc = "umount_call" /\ run'[t].i = 1 /\ run'[t].grp = {r[2] : r \in rows}
      BY <1>1, <1>6, <2>1, <2>2, <2>4, TypeParts DEF IInv, RunsOK, RunRec
    <3>2. run'[t].grp # {}
      BY <2>4, <3>1
    <3>3. Within(t)'
      BY <1>3, <3>1, QueriedWithin DEF Within
    <3> QED
      BY <3>1, <3>2, <3>3 DEF Chooses
  <2> QED
    BY <2>3, <2>4
<1>9. CASE UmountCall(t)
  <2>1. run[t].pc = "umount_call" /\ (Goto(t, "umount_db") \/ Fail(t))
    BY <1>9 DEF UmountCall, At
  <2>2. CASE Goto(t, "umount_db")
    <3>1. run'[t].pc = "umount_db" /\ run'[t].grp = run[t].grp
      BY <1>1, <2>2, GotoMoves DEF MovesTo, SameHands
    <3> QED
      BY <1>1, <1>4, <2>1, <3>1 DEF Chooses
  <2>3. CASE Fail(t)
    BY <1>1, <2>3, FailsMeans DEF Chooses
  <2> QED
    BY <2>1, <2>2, <2>3
<1>10. CASE UmountDb(t)
  <2>1. run[t].pc = "umount_db" /\ Leaves(t) /\ run'[t].grp = run[t].grp
    BY <1>1, <1>10, LeavesAfter DEF UmountDb, At
  <2>2. run'[t].pc = "next" /\ run'[t].i = 2
    BY <1>6, <2>1 DEF Leaves, GoesOn, MovesTo
  <2> QED
    BY <1>1, <1>4, <2>1, <2>2 DEF Chooses
<1>11. CASE ShrinkPick(t)
  <2>1. /\ run[t].pc = "shrink_pick" /\ run'[t].pc = "shrink_call"
        /\ run[t].grp # {} => run'[t].grp = run[t].grp
    BY <1>1, <1>11, TypeParts DEF IInv, RunsOK, RunRec, ShrinkPick, At
  <2>2. CASE run[t].grp # {}
    BY <1>1, <1>4, <1>6, <2>1, <2>2 DEF Chooses
  <2>3. CASE run[t].grp = {}
    BY <1>1, <1>2, <1>5, <1>6, <2>1, <2>3 DEF Chooses
  <2> QED
    BY <2>2, <2>3
<1>12. CASE BeginInstrFails(t) \/ ShrinkPickFails(t) \/ InstrFails(t) \/ Finish(t)
  <2>1. run'[t].pc \in {"finish", "done"}
    <3>1. CASE Finish(t)
      BY <1>1, <3>1, GotoMoves DEF Finish, MovesTo
    <3>2. CASE BeginInstrFails(t) \/ ShrinkPickFails(t)
      BY <1>1, <3>2, TypeParts, FailsMeans DEF IInv, RunsOK, RunRec, BeginInstrFails, ShrinkPickFails
    <3> QED
      BY <1>1, <1>12, <3>1, <3>2, FailsMeans
  <2> QED
    BY <2>1 DEF Chooses
<1>13. CASE ShrinkCall(t) \/ ShrinkPolled(t) \/ ShrinkDb(t)
  <2>1. run'[t].pc \in {"finish", "shrink_poll", "shrink_db"}
    <3>1. CASE ShrinkCall(t)
      BY <1>1, <3>1, FailsMeans, TypeParts DEF ShrinkCall, IInv, RunsOK, RunRec
    <3>2. CASE ShrinkPolled(t)
      BY <1>1, <3>2, GotoMoves DEF ShrinkPolled, MovesTo
    <3>3. CASE ShrinkDb(t)
      <4>1. Leaves(t) /\ run[t].i = 2
        BY <1>1, <1>6, <3>3, LeavesAfter DEF ShrinkDb, At
      <4> QED
        BY <1>6, <4>1 DEF Leaves, GoesOn, MovesTo
    <3> QED
      BY <1>13, <3>1, <3>2, <3>3
  <2> QED
    BY <2>1 DEF Chooses
<1> QED
  BY <1>1, <1>7, <1>8, <1>9, <1>10, <1>11, <1>12, <1>13, ShrinkSteps

LEMMA NextChoosing ==
  ASSUME MountsInStep4, Barrier, OneActive, Choosing, [Next]_vars
  PROVE  Choosing'
<1>1. ASSUME NEW t \in TaskId PROVE Chooses(t)'
  <2>1. IInv /\ run[t] \in RunRec /\ Chooses(t) /\ FiniteRows /\ Known(run[t], task[t].kind)
    BY RunFacts DEF Barrier, Choosing, AllKnown
  <2>2. CASE run'[t] = run[t]
    BY <2>1, <2>2, ChoosesRests
  <2>3. CASE run'[t].pc = "dead"
    BY <2>3 DEF Chooses
  <2>4. CASE run[t].pc = "idle" /\ run'[t] # run[t]
    <3>1. run'[t].i = 1 /\ run'[t].grp = {} /\ run'[t].pc \in {"idle", "next", "done"}
      BY <2>1, <2>4, EveryRunMoves, IdleMoves DEF IdleMove, SameHands, Known
    <3> QED
      BY <3>1 DEF Chooses
  <2>5. CASE run'[t] # run[t] /\ run'[t].pc # "dead" /\ run[t].pc # "idle"
    <3>1. RunStep(t)
      BY <2>1, <2>5, StepAt
    <3>2. SameTask(t)
      BY <2>1, <3>1, RunStepKeepsTasks
    <3>3. CASE task[t].kind = "Shrink"
      BY <2>1, <3>1, <3>3, ChoosesMoves
    <3>4. CASE task[t].kind # "Shrink"
      BY <3>2, <3>4 DEF Chooses, SameTask
    <3> QED
      BY <3>3, <3>4
  <2> QED
    BY <2>2, <2>3, <2>4, <2>5
<1> QED
  BY <1>1, FiniteRowsStay DEF Choosing, Barrier

LEMMA InitChoosing == Init => Choosing
<1>1. Init => \A t \in TaskId : run[t].pc = "idle"
  BY DEF Init, NewRun
<1> QED
  BY <1>1, InitFiniteRows DEF Choosing, Chooses

(* A shrink asks BridgX for more machines than its caller named only when the *)
(* cluster has no mounted row: whatever fails, what the query for mounted     *)
(* rows chose is what is released, if callers wait for the task of a cluster  *)
(* to end before they ask for the next one.                                   *)
THEOREM ShrinksWithinCount ==
  ASSUME Patient, MountsInStep4
  PROVE  Spec /\ []IdsApart => ShrinkWithinCountIfMounted
<1>1. Init => Choosing
  BY InitChoosing
<1>2. Barrier /\ Readiness /\ Choosing /\ [Next]_vars => Choosing'
  BY NextChoosing DEF Readiness
<1>3. Barrier /\ Choosing /\ [Next]_vars =>
        [\A t \in TaskId :
          (run[t].pc = "shrink_call" /\ run'[t].pc = "shrink_poll" /\ task[t].inst_cnt > 0)
             => \/ Cardinality(bx'[run'[t].bx].machines) <= task[t].inst_cnt
                \/ RowsToUmount(task[t].cluster) = {}]_vars
  <2> SUFFICES ASSUME Barrier, Choosing, [Next]_vars, NEW t \in TaskId, run[t].pc = "shrink_call",
                      run'[t].pc = "shrink_poll", task[t].inst_cnt > 0
               PROVE  \/ Cardinality(bx'[run'[t].bx].machines) <= task[t].inst_cnt
                      \/ RowsToUmount(task[t].cluster) = {}
    OBVIOUS
  <2>1. IInv /\ RunStep(t) /\ Chooses(t)
    BY StepAt DEF Barrier, Choosing
  <2>2. ShrinkCall(t) /\ ~Fail(t)
    BY <2>1, CallMade, FailsMeans
  <2>3. task[t].kind = "Shrink"
    <3>1. Instr(t) = "bridgx.shrink" /\ run[t] \in RunRec
      BY <2>1, RunFacts, PcInstr
    <3> QED
      BY <3>1, <2>1, TypeParts, TemplateAssumption DEF Instr, InstrAt, ExpandStep, InstanceDeployStep, RunRec,
         MaxInstr, IInv, TasksOK, TaskRow, Kinds, GroupLen, Consistent, Control
  <2>4. PICK b \in NextBx : BxShrink(b, run[t].grp) /\ run' = [run EXCEPT ![t].pc = "shrink_poll", ![t].bx = b]
    BY <2>2 DEF ShrinkCall
  <2>5. run'[t].bx = b /\ bx'[b].machines = run[t].grp
    BY <2>1, <2>4, TypeParts DEF IInv, RunsOK, RunRec, CloudTypeOK, BxShrink, NextBx
  <2> QED
    BY <2>1, <2>3, <2>5 DEF Chooses, Within, NoneMounted
<1> QED
  BY <1>1, <1>2, <1>3, AlwaysBarrier, AlwaysReadiness, PTL DEF Spec, ShrinkWithinCountIfMounted

-----------------------------------------------------------------------------
(* What becomes of machines that have no row *)

NoDeploys == "Deploy" \notin Requested

Settled(m) == machine[m].state \in {"running", "gone"}

Gone(m) == machine[m].state = "gone"

(* The machines of an expand are pending while BridgX works on it, and no     *)
(* other expand's; those of a shrink were settled before, and are gone when   *)
(* BridgX is done.                                                            *)
Bought(b) ==
    bx[b].kind = "expand" =>
        /\ \A m \in bx[b].machines :
              machine[m].state # None /\ (machine[m].state = "pending" <=> bx[b].state = "working")
        /\ \A c \in BxTaskId \ {b} : bx[c].kind = "expand" => bx[b].machines \cap bx[c].machines = {}

Sold(b) ==
    bx[b].kind = "shrink" =>
        \A m \in bx[b].machines : Settled(m) /\ (bx[b].state # "working" => Gone(m))

Named(b) == bx[b].state = "working" => bx[b].kind # None

Tidy == \A b \in BxTaskId : Bought(b) /\ Sold(b) /\ Named(b)

\* Only what settled gets into the hands of a task, or into the table.
Rested ==
    /\ \A t \in TaskId : \A m \in run[t].grp : Settled(m)
    /\ \A r \in RowId : Exists(r) => Settled(r[2])

\* What a call to BridgX may come to, seen from its task b.
GivenUp(t) == run'[t].pc = "finish" /\ run'[t].err

Bid(t, b, ms) ==
    /\ b \in BxTaskId /\ bx[b].kind = None
    /\ bx'[b].state = "working" /\ bx'[b].machines = ms
    /\ \A c \in BxTaskId \ {b} : bx'[c] = bx[c]

Buys(t, b, ms) ==
    /\ Bid(t, b, ms) /\ bx'[b].kind = "expand" /\ ms \subseteq FreeMachines
    /\ \A m \in Machine \ ms : machine'[m] = machine[m]
    /\ \A m \in ms : machine'[m].state = "pending" /\ machine'[m].cluster = task[t].cluster
    /\ run[t].pc = "expand_call"
    /\ GivenUp(t) \/ (run'[t].pc = "expand_poll" /\ run'[t].bx = b)

Sells(t, b) ==
    /\ Bid(t, b, run[t].grp) /\ bx'[b].kind = "shrink"
    /\ machine' = machine
    /\ run[t].pc = "shrink_call"
    /\ GivenUp(t) \/ (run'[t].pc = "shrink_poll" /\ run'[t].bx = b /\ run'[t].grp = run[t].grp)

Serves(b) ==
    /\ bx[b].state = "working" /\ bx'[b].state # "working"
    /\ bx'[b].kind = bx[b].kind /\ bx'[b].machines = bx[b].machines
    /\ \A c \in BxTaskId \ {b} : bx'[c] = bx[c]
    /\ \A m \in Machine \ bx[b].machines : machine'[m] = machine[m]
    /\ \A m \in bx[b].machines : /\ machine'[m].cluster = machine[m].cluster
                                 /\ machine'[m].state \in {"running", "gone"}
                                 /\ bx[b].kind # "expand" => machine'[m].state = "gone"
    /\ UNCHANGED run

LEMMA FailGivesUp ==
  ASSUME IInv, NEW t \in TaskId, Fail(t)
  PROVE  GivenUp(t)
BY TypeParts DEF IInv, RunsOK, RunRec, Fail, GivenUp

LEMMA CallBuys ==
  ASSUME IInv, NEW t \in TaskId, ExpandCall(t)
  PROVE  \E b \in BxTaskId, ms \in SUBSET Machine : Buys(t, b, ms)
<1>1. PICK b \in NextBx, ms \in SUBSET FreeMachines :
        /\ BxExpand(b, task[t].cluster, ms)
        /\ run' = [run EXCEPT ![t].pc = "expand_poll", ![t].bx = b] \/ Fail(t)
  BY DEF ExpandCall
<1>2. GivenUp(t) \/ (run'[t].pc = "expand_poll" /\ run'[t].bx = b)
  BY <1>1, FailGivesUp, TypeParts DEF IInv, RunsOK, RunRec
<1>3. b \in BxTaskId /\ bx[b].kind = None /\ ms \subseteq FreeMachines /\ ms \in SUBSET Machine
  BY <1>1 DEF NextBx, FreeMachines
<1>4. bx' = [bx EXCEPT ![b] = [kind |-> "expand", state |-> "working", machines |-> ms]]
  BY <1>1 DEF BxExpand
<1>5. bx \in [BxTaskId -> [kind : BxKinds \cup {None}, state : BxStates \cup {None}, machines : SUBSET Machine]]
  BY TypeParts DEF IInv, CloudTypeOK
<1>6. bx'[b] = [kind |-> "expand", state |-> "working", machines |-> ms]
      /\ \A c \in BxTaskId \ {b} : bx'[c] = bx[c]
  BY <1>3, <1>4, <1>5
<1>7. bx'[b].kind = "expand" /\ bx'[b].state = "working" /\ bx'[b].machines = ms
  BY <1>6
<1>8. /\ \A m \in Machine \ ms : machine'[m] = machine[m]
      /\ \A m \in ms : machine'[m] = [state |-> "pending", cluster |-> task[t].cluster]
  BY <1>1, <1>3 DEF BxExpand
<1>9. \A m \in ms : machine'[m].state = "pending" /\ machine'[m].cluster = task[t].cluster
  BY <1>8
<1>10. run[t].pc = "expand_call"
  BY DEF ExpandCall, At
<1> QED
  BY <1>2, <1>3, <1>6, <1>7, <1>8, <1>9, <1>10 DEF Buys, Bid

LEMMA CallSells ==
  ASSUME IInv, NEW t \in TaskId, ShrinkCall(t)
  PROVE  \E b \in BxTaskId : Sells(t, b)
<1>1. PICK b \in NextBx :
        /\ BxShrink(b, run[t].grp)
        /\ run' = [run EXCEPT ![t].pc = "shrink_poll", ![t].bx = b] \/ Fail(t)
  BY DEF ShrinkCall
<1>2. GivenUp(t) \/ (run'[t].pc = "shrink_poll" /\ run'[t].bx = b /\ run'[t].grp = run[t].grp)
  BY <1>1, FailGivesUp, TypeParts DEF IInv, RunsOK, RunRec
<1>3. b \in BxTaskId /\ bx[b].kind = None
  BY <1>1 DEF NextBx
<1>4. bx' = [bx EXCEPT ![b] = [kind |-> "shrink", state |-> "working", machines |-> run[t].grp]]
      /\ machine' = machine
  BY <1>1 DEF BxShrink
<1>5. bx \in [BxTaskId -> [kind : BxKinds \cup {None}, state : BxStates \cup {None}, machines : SUBSET Machine]]
  BY TypeParts DEF IInv, CloudTypeOK
<1>6. bx'[b] = [kind |-> "shrink", state |-> "working", machines |-> run[t].grp]
      /\ \A c \in BxTaskId \ {b} : bx'[c] = bx[c]
  BY <1>3, <1>4, <1>5
<1>7. bx'[b].kind = "shrink" /\ bx'[b].state = "working" /\ bx'[b].machines = run[t].grp
  BY <1>6
<1>8. run[t].pc = "shrink_call"
  BY DEF ShrinkCall, At
<1> QED
  BY <1>2, <1>3, <1>4, <1>6, <1>7, <1>8 DEF Sells, Bid

LEMMA StepServes ==
  ASSUME IInv, NEW b \in BxTaskId, BxStep(b)
  PROVE  Serves(b)
<1>1. /\ bx[b] \in [kind : BxKinds \cup {None}, state : BxStates \cup {None}, machines : SUBSET Machine]
      /\ bx \in [BxTaskId -> [kind : BxKinds \cup {None}, state : BxStates \cup {None}, machines : SUBSET Machine]]
      /\ machine \in [Machine -> [state : {"pending", "running", "gone", None}, cluster : Cluster \cup {0}]]
  BY TypeParts DEF IInv, CloudTypeOK
<1>2. PICK ms \in SUBSET bx[b].machines : BxFinish(b, ms)
  BY DEF BxStep
<1>3. PICK end \in {"done", "failed"} : bx' = [bx EXCEPT ![b].state = end]
  BY <1>2 DEF BxFinish
<1>4. /\ bx'[b].state = end /\ bx'[b].kind = bx[b].kind /\ bx'[b].machines = bx[b].machines
      /\ \A c \in BxTaskId \ {b} : bx'[c] = bx[c]
  BY <1>1, <1>3
<1>5. \A m \in Machine \ bx[b].machines : machine'[m] = machine[m]
  BY <1>1, <1>2 DEF BxFinish
<1>6. ASSUME NEW m \in bx[b].machines
      PROVE  /\ machine'[m].cluster = machine[m].cluster
             /\ machine'[m].state \in {"running", "gone"}
             /\ bx[b].kind # "expand" => machine'[m].state = "gone"
  <2>1. m \in Machine
    BY <1>1
  <2>2. machine[m] \in [state : {"pending", "running", "gone", None}, cluster : Cluster \cup {0}]
    BY <1>1, <2>1
  <2>3. PICK state : state = IF bx[b].kind = "expand" /\ m \in ms THEN "running" ELSE "gone"
    OBVIOUS
  <2>4. machine'[m] = [machine[m] EXCEPT !.state = state]
    BY <1>2, <2>1, <2>3 DEF BxFinish
  <2>5. machine'[m].state = state /\ machine'[m].cluster = machine[m].cluster
    BY <2>2, <2>4
  <2> QED
    BY <2>3, <2>5
<1>7. bx[b].state = "working" /\ UNCHANGED run
  BY <1>2 DEF BxFinish, BxStep
<1> QED
  BY <1>4, <1>5, <1>6, <1>7 DEF Serves

LEMMA CloudWorks ==
  ASSUME IInv, [Next]_vars
  PROVE  \/ UNCHANGED <<bx, machine>>
         \/ \E t \in TaskId, b \in BxTaskId, ms \in SUBSET Machine : RunStep(t) /\ Buys(t, b, ms)
         \/ \E t \in TaskId, b \in BxTaskId : RunStep(t) /\ Sells(t, b)
         \/ \E b \in BxTaskId : Serves(b)
BY CloudMoves, CallBuys, CallSells, StepServes

\* A machine is bought, comes up or is released; nothing else happens to it.
MachineMove(m) ==
    \/ machine'[m] = machine[m]
    \/ /\ machine[m].state = None /\ machine'[m].state = "pending"
       /\ \E t \in TaskId, b \in BxTaskId, ms \in SUBSET Machine : RunStep(t) /\ Buys(t, b, ms) /\ m \in ms
    \/ /\ machine[m].state \in {"pending", "running", "gone"} /\ Settled(m)'
       /\ machine'[m].cluster = machine[m].cluster
       /\ Up(m)' => machine[m].state = "pending"

LEMMA EveryMachineMoves ==
  ASSUME IInv, Tidy, [Next]_vars, NEW m \in Machine
  PROVE  MachineMove(m)
<1>1. CASE UNCHANGED <<bx, machine>>
  BY <1>1 DEF MachineMove
<1>2. ASSUME NEW t \in TaskId, NEW b \in BxTaskId, NEW ms \in SUBSET Machine, RunStep(t), Buys(t, b, ms)
      PROVE  MachineMove(m)
  BY <1>2 DEF MachineMove, Buys, FreeMachines
<1>3. ASSUME NEW t \in TaskId, NEW b \in BxTaskId, Sells(t, b)
      PROVE  MachineMove(m)
  BY <1>3 DEF MachineMove, Sells
<1>4. ASSUME NEW b \in BxTaskId, Serves(b)
      PROVE  MachineMove(m)
  <2>1. CASE m \notin bx[b].machines
    BY <1>4, <2>1 DEF Serves, MachineMove
  <2>2. CASE m \in bx[b].machines /\ bx[b].kind = "expand"
    <3>1. machine[m].state = "pending"
      BY <1>4, <2>2 DEF Serves, Tidy, Bought
    <3> QED
      BY <1>4, <2>2, <3>1 DEF Serves, MachineMove, Settled, Up
  <2>3. CASE m \in bx[b].machines /\ bx[b].kind # "expand"
    <3>1. bx[b].kind \in BxKinds \cup {None}
      BY TypeParts DEF IInv, CloudTypeOK
    <3>2. bx[b].kind = "shrink"
      BY <1>4, <2>3, <3>1 DEF Serves, Tidy, Named, BxKinds
    <3>3. Settled(m)
      BY <2>3, <3>2 DEF Tidy, Sold
    <3> QED
      BY <1>4, <2>3, <3>3 DEF Serves, MachineMove, Settled, Up
  <2> QED
    BY <2>1, <2>2, <2>3
<1> QED
  BY <1>1, <1>2, <1>3, <1>4, CloudWorks

LEMMA SettledStays ==
  ASSUME IInv, Tidy, [Next]_vars, NEW m \in Machine
  PROVE  /\ Settled(m) => Settled(m)'
         /\ Gone(m) => Gone(m)'
BY EveryMachineMoves DEF MachineMove, Settled, Gone, Up, None

LEMMA TidyStays ==
  ASSUME IInv, Tidy, Rested, [Next]_vars
  PROVE  Tidy'
<1>0. \A b \in BxTaskId : bx[b].machines \subseteq Machine /\ bx[b].kind \in BxKinds \cup {None}
  BY TypeParts DEF IInv, CloudTypeOK
<1>1. CASE UNCHANGED <<bx, machine>>
  BY <1>1 DEF Tidy, Bought, Sold, Named, Settled, Gone
<1>2. ASSUME NEW t \in TaskId, NEW b \in BxTaskId, NEW ms \in SUBSET Machine, Buys(t, b, ms)
      PROVE  Tidy'
  <2> SUFFICES ASSUME NEW c \in BxTaskId PROVE Bought(c)' /\ Sold(c)' /\ Named(c)'
    BY DEF Tidy
  <2>1. \A m \in ms : machine[m].state = None /\ machine'[m].state = "pending"
    BY <1>2 DEF Buys, FreeMachines
  <2>2. \A d \in BxTaskId \ {b} : bx[d].kind \in BxKinds => bx[d].machines \cap ms = {}
    BY <1>0, <2>1 DEF Tidy, Bought, Sold, Settled, None, BxKinds
  <2>3. CASE c = b
    <3>1. bx'[b].kind = "expand" /\ bx'[b].machines = ms /\ bx'[b].state = "working"
          /\ \A d \in BxTaskId \ {b} : bx'[d] = bx[d]
      BY <1>2 DEF Buys, Bid
    <3>2. Bought(b)'
      BY <2>1, <2>2, <3>1 DEF Bought, None, BxKinds
    <3> QED
      BY <2>3, <3>1, <3>2 DEF Sold, Named, None
  <2>4. CASE c # b
    <3>1. bx'[c] = bx[c] /\ bx'[b].machines = ms /\ \A d \in BxTaskId \ {b} : bx'[d] = bx[d]
      BY <1>2, <2>4 DEF Buys, Bid
    <3>2. bx[c].kind \in BxKinds => \A m \in bx[c].machines : machine'[m] = machine[m]
      BY <1>0, <1>2, <2>2, <2>4 DEF Buys
    <3>3. Bought(c)'
      <4> SUFFICES ASSUME bx[c].kind = "expand" PROVE Bought(c)'
        BY <3>1 DEF Bought
      <4>1. /\ \A m \in bx[c].machines :
                 machine[m].state # None /\ (machine[m].state = "pending" <=> bx[c].state = "working")
            /\ \A d \in BxTaskId \ {c} : bx[d].kind = "expand" => bx[c].machines \cap bx[d].machines = {}
        BY DEF Tidy, Bought
      <4>2. bx[c].machines \cap ms = {}
        BY <2>2, <2>4 DEF BxKinds
      <4>3. \A d \in BxTaskId \ {c} : bx'[d].kind = "expand" => bx'[c].machines \cap bx'[d].machines = {}
        BY <3>1, <4>1, <4>2
      <4>4. \A m \in bx'[c].machines :
                 machine'[m].state # None /\ (machine'[m].state = "pending" <=> bx'[c].state = "working")
        BY <3>1, <3>2, <4>1 DEF BxKinds
      <4> QED
        BY <4>3, <4>4 DEF Bought
    <3>4. Sold(c)' /\ Named(c)'
      BY <3>1, <3>2 DEF Tidy, Sold, Named, Settled, Gone, BxKinds
    <3> QED
      BY <3>3, <3>4
  <2> QED
    BY <2>3, <2>4
<1>3. ASSUME NEW t \in TaskId, NEW b \in BxTaskId, Sells(t, b)
      PROVE  Tidy'
  <2> SUFFICES ASSUME NEW c \in BxTaskId PROVE Bought(c)' /\ Sold(c)' /\ Named(c)'
    BY DEF Tidy
  <2>1. bx'[b].kind = "shrink" /\ bx'[b].machines = run[t].grp /\ bx'[b].state = "working"
        /\ (\A d \in BxTaskId \ {b} : bx'[d] = bx[d]) /\ machine' = machine
    BY <1>3 DEF Sells, Bid
  <2>2. CASE c = b
    BY <2>1, <2>2 DEF Rested, Bought, Sold, Named, None, Settled
  <2>3. CASE c # b
    <3>1. Bought(c)'
      BY <2>1, <2>3 DEF Tidy, Bought
    <3>2. Sold(c)' /\ Named(c)'
      BY <2>1, <2>3 DEF Tidy, Sold, Named, Settled, Gone
    <3> QED
      BY <3>1, <3>2
  <2> QED
    BY <2>2, <2>3
<1>4. ASSUME NEW b \in BxTaskId, Serves(b)
      PROVE  Tidy'
  <2> SUFFICES ASSUME NEW c \in BxTaskId PROVE Bought(c)' /\ Sold(c)' /\ Named(c)'
    BY DEF Tidy
  <2>1. \A d \in BxTaskId : bx'[d].kind = bx[d].kind /\ bx'[d].machines = bx[d].machines
    BY <1>4 DEF Serves
  <2>2. Named(c)'
    BY <1>4 DEF Serves, Tidy, Named
  <2>3. Sold(c)'
    <3> SUFFICES ASSUME bx[c].kind = "shrink", NEW m \in bx[c].machines
                 PROVE  Settled(m)' /\ (bx'[c].state # "working" => Gone(m)')
      BY <2>1 DEF Sold
    <3>1. m \in Machine /\ Settled(m) /\ (bx[c].state # "working" => Gone(m))
      BY <1>0 DEF Tidy, Sold
    <3>2. Settled(m)' /\ (Gone(m) => Gone(m)')
      BY <3>1, SettledStays
    <3>3. c = b => Gone(m)'
      BY <1>4 DEF Serves, Gone
    <3> QED
      BY <1>4, <3>1, <3>2, <3>3 DEF Serves
  <2>4. Bought(c)'
    <3> SUFFICES ASSUME bx[c].kind = "expand" PROVE Bought(c)'
      BY <2>1 DEF Bought
    <3>1. /\ \A m \in bx[c].machines :
               machine[m].state # None /\ (machine[m].state = "pending" <=> bx[c].state = "working")
          /\ \A d \in BxTaskId \ {c} : bx[d].kind = "expand" => bx[c].machines \cap bx[d].machines = {}
      BY DEF Tidy, Bought
    <3>2. ASSUME NEW m \in bx[c].machines
          PROVE  machine'[m].state # None /\ (machine'[m].state = "pending" <=> bx'[c].state = "working")
      <4>1. m \in Machine
        BY <1>0
      <4>2. CASE c = b
        BY <1>4, <4>2 DEF Serves, None
      <4>3. CASE c # b
        <5>1. bx'[c] = bx[c]
          BY <1>4, <4>3 DEF Serves
        <5>2. CASE m \notin bx[b].machines
          BY <1>4, <3>1, <4>1, <5>1, <5>2 DEF Serves
        <5>3. CASE m \in bx[b].machines
          <6>1. bx[b].kind = "shrink"
            BY <1>0, <1>4, <3>1, <4>3, <5>3 DEF Serves, Tidy, Named, BxKinds
          <6>2. Settled(m)
            BY <5>3, <6>1 DEF Tidy, Sold
          <6>3. machine[m].state # "pending" /\ Settled(m)'
            BY <4>1, <6>2, SettledStays DEF Settled
          <6> QED
            BY <3>1, <5>1, <6>3 DEF Settled, None
        <5> QED
          BY <5>2, <5>3
      <4> QED
        BY <4>2, <4>3
    <3> QED
      BY <2>1, <3>1, <3>2 DEF Bought
  <2> QED
    BY <2>2, <2>3, <2>4
<1> QED
  BY <1>1, <1>2, <1>3, <1>4, CloudWorks

LEMMA RestedStays ==
  ASSUME Barrier, Tidy, Rested, [Next]_vars
  PROVE  Rested'
<1>0. IInv /\ AllKnown /\ \A t \in TaskId : run[t] \in RunRec /\ run[t].grp \subseteq Machine
  BY RunFacts DEF Barrier, RunRec
<1>1. ASSUME NEW t \in TaskId, NEW m \in run'[t].grp
      PROVE  Settled(m)'
  <2>1. m \in Machine
    BY <1>1, PlaceOfGroupStays
  <2>2. CASE m \in run[t].grp
    BY <1>0, <2>1, <2>2, SettledStays DEF Rested
  <2>3. CASE m \notin run[t].grp
    <3>1. GetsMachines(t) \/ GetsNodes(t) \/ GetsCluster(t)
      BY <1>0, <1>1, <2>3, EveryMove DEF IdleMove, ExpandMove, OtherMove, SameHands, GetsTask
    <3>2. Up(m) \/ \E r \in RowId : Exists(r) /\ r[2] = m
      <4>1. CASE GetsMachines(t)
        BY <1>1, <4>1 DEF GetsMachines, TaskInstances, Up
      <4>2. CASE GetsNodes(t)
        <5>1. <<run[t].key, m>> \in RowId /\ Exists(<<run[t].key, m>>)
          BY <1>1, <4>2 DEF GetsNodes, InstsQueryByTaskId, InstsOfTask
        <5> QED
          BY <5>1
      <4>3. CASE GetsCluster(t)
        BY <1>1, <2>3, <4>3 DEF GetsCluster, InCluster, RunningIn, RowsOfCluster, Up
      <4> QED
        BY <3>1, <4>1, <4>2, <4>3
    <3>3. Settled(m)
      BY <3>2 DEF Rested, Settled, Up
    <3> QED
      BY <1>0, <2>1, <3>3, SettledStays
  <2> QED
    BY <2>2, <2>3
<1>2. ASSUME NEW r \in RowId, Exists(r)'
      PROVE  Settled(r[2])'
  <2>1. r[2] \in Machine
    BY DEF RowId
  <2>2. Settled(r[2])
    <3>1. CASE Exists(r)
      BY <3>1 DEF Rested
    <3>2. CASE ~Exists(r)
      <4>1. PICK t \in TaskId : r[2] \in run[t].grp
        BY <1>0, <1>2, <3>2, AddedRow, EveryRowWritten
      <4> QED
        BY <4>1 DEF Rested
    <3> QED
      BY <3>1, <3>2
  <2>3. \A m \in Machine : Settled(m) => Settled(m)'
    BY <1>0, SettledStays
  <2> QED
    BY <2>1, <2>2, <2>3 DEF Settled
<1> QED
  BY <1>1, <1>2 DEF Rested, Settled

LEMMA BxStays ==
  ASSUME IInv, [Next]_vars, NEW b \in BxTaskId, bx[b].kind # None
  PROVE  bx'[b].kind = bx[b].kind /\ bx'[b].machines = bx[b].machines
<1>1. CASE UNCHANGED <<bx, machine>>
  BY <1>1
<1>2. ASSUME NEW t \in TaskId, NEW c \in BxTaskId, NEW ms, Bid(t, c, ms)
      PROVE  bx'[b] = bx[b]
  BY <1>2 DEF Bid
<1> QED
  BY <1>1, <1>2, CloudWorks DEF Buys, Sells, Serves

\* A poll of BridgX ended because BridgX was done.
LEMMA PolledDone ==
  ASSUME IInv, [Next]_vars, NEW t \in TaskId,
         \/ run[t].pc = "expand_poll" /\ run'[t].pc = "get_cluster"
         \/ run[t].pc = "shrink_poll" /\ run'[t].pc = "shrink_db"
  PROVE  bx[run[t].bx].state = "done"
<1>1. RunStep(t) /\ ~InstrFails(t)
  BY StepAt, FailsMeans
<1> QED
  BY <1>1
     DEF RunStep, At, BeginInstr, BeginInstrFails, SaveRelation, SaveRelationFails, ExpandCall,
         ExpandPolled, GetCluster, StoreNodes, NodePolled, NodeListed, MountCall, MountDb, UmountQuery,
         UmountCall, UmountDb, ShrinkPick, ShrinkPickFails, ShrinkCall, ShrinkPolled, ShrinkDb,
         DeployInstances, DeployMark, DeployInsert, DeployQuery, DeployWaited, Finish

(* A task polls the BridgX task of its own call; the machines of a shrink are *)
(* gone when it marks their rows.                                             *)
Engaged(t) ==
    /\ run[t].pc = "expand_poll" => bx[run[t].bx].kind = "expand"
    /\ run[t].pc = "shrink_poll" => bx[run[t].bx].kind = "shrink" /\ bx[run[t].bx].machines = run[t].grp
    /\ run[t].pc = "shrink_db" => \A m \in run[t].grp : Gone(m)

LEMMA EngagedStays ==
  ASSUME Barrier, Tidy, [Next]_vars, NEW t \in TaskId, Engaged(t)
  PROVE  Engaged(t)'
<1>0. IInv /\ run[t] \in RunRec /\ run[t].grp \subseteq Machine /\ Consistent(run[t], task[t].kind)
  BY RunFacts DEF Barrier, RunRec
<1>1. ASSUME run'[t].pc = "expand_poll" PROVE bx'[run'[t].bx].kind = "expand"
  <2>1. CASE run[t].pc = "expand_poll"
    BY <1>0, <1>1, <2>1, PollStays, BxStays DEF Engaged, Consistent, None
  <2>2. CASE run[t].pc # "expand_poll"
    <3>1. run[t].pc = "expand_call" /\ RunStep(t)
      BY <1>0, <1>1, <2>2, Entered, StepAt
    <3>2. ExpandCall(t)
      BY <1>0, <1>1, <3>1, CallMade, FailsMeans
    <3> QED
      BY <1>0, <1>1, <3>2, CallBuys DEF Buys, GivenUp
  <2> QED
    BY <2>1, <2>2
<1>2. ASSUME run'[t].pc = "shrink_poll"
      PROVE  bx'[run'[t].bx].kind = "shrink" /\ bx'[run'[t].bx].machines = run'[t].grp
  <2>1. CASE run[t].pc = "shrink_poll"
    BY <1>0, <1>2, <2>1, PollStays, BxStays DEF Engaged, Consistent, None
  <2>2. CASE run[t].pc # "shrink_poll"
    <3>1. run[t].pc = "shrink_call" /\ RunStep(t)
      BY <1>0, <1>2, <2>2, Entered, StepAt
    <3>2. ShrinkCall(t)
      BY <1>0, <1>2, <3>1, CallMade, FailsMeans
    <3> QED
      BY <1>0, <1>2, <3>2, CallSells DEF Sells, Bid, GivenUp
  <2> QED
    BY <2>1, <2>2
<1>3. ASSUME run'[t].pc = "shrink_db", NEW m \in run'[t].grp PROVE Gone(m)'
  <2>1. run'[t].grp = run[t].grp
    <3>1. CASE run[t].pc = "shrink_db"
      BY <1>0, <1>3, <3>1, EveryRunMoves DEF Move, PlainMove, GetsTask, GetsMachines, GetsNodes, GetsCluster,
         SameHands, RunRec
    <3>2. CASE run[t].pc # "shrink_db"
      BY <1>0, <1>3, <3>2, Entered
    <3> QED
      BY <3>1, <3>2
  <2>2. Gone(m)
    <3>1. CASE run[t].pc = "shrink_db"
      BY <1>3, <2>1, <3>1 DEF Engaged
    <3>2. CASE run[t].pc # "shrink_db"
      <4>1. run[t].pc = "shrink_poll"
        BY <1>0, <1>3, <3>2, Entered
      <4>2. bx[run[t].bx].state = "done" /\ run[t].bx \in BxTaskId
        BY <1>0, <1>3, <4>1, PolledDone DEF Consistent
      <4> QED
        BY <1>3, <2>1, <4>1, <4>2 DEF Engaged, Tidy, Sold
    <3> QED
      BY <3>1, <3>2
  <2>3. m \in Machine
    BY <1>0, <1>3, <2>1
  <2> QED
    BY <1>0, <2>2, <2>3, SettledStays
<1> QED
  BY <1>1, <1>2, <1>3 DEF Engaged, Gone

-----------------------------------------------------------------------------
DeploysNone == \A t \in TaskId : task[t].kind # "Deploy"

(* Callers wait, or ask for no deploy. *)
Turns ==
    \/ Patient /\ OneActive /\ Unended
    \/ NoDeploys /\ DeploysNone

LEMMA KindRequested ==
  ASSUME IInv, NEW t \in TaskId, NEW kind, NEW sc, NEW cnt, NEW isRollback,
         CreateAndRun(t, kind, sc, cnt, isRollback)
  PROVE  task'[t].kind = kind /\ kind \in Requested
<1>1. task \in [TaskId -> TaskRow]
  BY TypeParts DEF IInv, TasksOK
<1>2. PICK row : row = [NoTask EXCEPT !.kind = kind, !.cluster = sc, !.inst_cnt = cnt,
                                      !.status = IF isRollback THEN "ROLLING_BACK" ELSE "RUNNING"]
  OBVIOUS
<1>3. row.kind = kind
  BY <1>2 DEF NoTask
<1>4. \/ task' = [task EXCEPT ![t] = row]
      \/ task' = UpdateTaskStatus([task EXCEPT ![t] = row], t, "FAIL")
  BY <1>2 DEF CreateAndRun, CreateTask
<1>5. kind \in Requested
  BY DEF CreateAndRun
<1>6. [task EXCEPT ![t] = row][t] = row /\ DOMAIN [task EXCEPT ![t] = row] = TaskId
  BY <1>1
<1>7. CASE task' = [task EXCEPT ![t] = row]
  BY <1>3, <1>5, <1>6, <1>7
<1>8. CASE task' = UpdateTaskStatus([task EXCEPT ![t] = row], t, "FAIL")
  <2>1. PICK tbl : tbl = [task EXCEPT ![t] = row]
    OBVIOUS
  <2>2. task'[t] = [row EXCEPT !.status = "FAIL"]
    BY <1>6, <1>8, <2>1 DEF UpdateTaskStatus
  <2>3. [row EXCEPT !.status = "FAIL"].kind = row.kind
    BY <1>2 DEF NoTask
  <2> QED
    BY <1>3, <1>5, <2>2, <2>3
<1> QED
  BY <1>4, <1>7, <1>8

LEMMA NoDeployKept ==
  ASSUME NoDeploys, IInv, DeploysNone, [Next]_vars
  PROVE  DeploysNone'
<1> SUFFICES ASSUME NEW t \in TaskId PROVE task'[t].kind # "Deploy"
  BY DEF DeploysNone
<1>1. CASE run[t].pc # "idle"
  BY <1>1, NotIdleAgain DEF SameTask, DeploysNone
<1>2. CASE run[t].pc = "idle"
  <2>1. task'[t].kind = task[t].kind \/ Creates(t)
    BY <1>2, WhoWritesStatus DEF SameRow
  <2>2. ASSUME Creates(t) PROVE task'[t].kind # "Deploy"
    <3>1. run'[t].pc # "idle"
      BY <2>2 DEF Creates, MovesTo
    <3>2. PICK kind, sc, cnt, isRollback : CreateAndRun(t, kind, sc, cnt, isRollback)
      BY <1>2, <3>1, Created
    <3> QED
      BY <3>2, KindRequested DEF NoDeploys
  <2> QED
    BY <2>1, <2>2 DEF DeploysNone
<1> QED
  BY <1>1, <1>2

LEMMA TurnsKept ==
  ASSUME IInv, Turns, [Next]_vars
  PROVE  Turns'
BY TurnsStay, NoDeployKept DEF Turns

LEMMA MarkIsDeploy ==
  ASSUME Barrier, NEW t \in TaskId, run[t].pc \in {"deploy_mark", "deploy_insert"}
  PROVE  task[t].kind = "Deploy"
<1>1. IInv /\ Known(run[t], task[t].kind) /\ Consistent(run[t], task[t].kind) /\ run[t] \in RunRec
  BY RunFacts DEF Barrier, AllKnown
<1>2. Instr(t) = "nodeact.before_download"
  BY <1>1, PcInstr
<1>3. task[t].kind # "Expand"
  BY <1>1, <1>2, ExpandCalls
<1>4. task[t].kind # "Shrink"
  BY <1>2 DEF Instr, InstrAt
<1> QED
  BY <1>1, <1>3, <1>4 DEF Known, Kinds

LEMMA DeploySteps1 ==
  ASSUME IInv, [Next]_vars, NEW t \in TaskId, run'[t] # run[t], run'[t].pc \notin {"finish", "dead"}
  PROVE  /\ run[t].pc = "deploy_instances" => DeployInstances(t)
         /\ run[t].pc = "deploy_insert" => DeployInsert(t)
<1>1. run[t].pc # "idle" => RunStep(t) /\ ~InstrFails(t)
  BY StepAt, FailsMeans
<1>2. run[t].pc = "deploy_instances" => DeployInstances(t)
  BY <1>1
     DEF RunStep, At, BeginInstr, BeginInstrFails, SaveRelation, SaveRelationFails, ExpandCall,
         ExpandPolled, GetCluster, StoreNodes, NodePolled, NodeListed, MountCall, MountDb, UmountQuery,
         UmountCall, UmountDb, ShrinkPick, ShrinkPickFails, ShrinkCall, ShrinkPolled, ShrinkDb,
         DeployMark, DeployQuery, DeployWaited, Finish, DeployInsert
<1>3. run[t].pc = "deploy_insert" => DeployInsert(t)
  BY <1>1
     DEF RunStep, At, BeginInstr, BeginInstrFails, SaveRelation, SaveRelationFails, ExpandCall,
         ExpandPolled, GetCluster, StoreNodes, NodePolled, NodeListed, MountCall, MountDb, UmountQuery,
         UmountCall, UmountDb, ShrinkPick, ShrinkPickFails, ShrinkCall, ShrinkPolled, ShrinkDb,
         DeployMark, DeployQuery, DeployWaited, Finish, DeployInstances
<1> QED
  BY <1>2, <1>3

(* A deploy about to mark the rows of its cluster deploys all machines that   *)
(* run and have one, and will insert a new row for each.                      *)
MarkKept(t) ==
    run[t].pc = "deploy_mark" =>
        \A r \in RowId : (Exists(r) /\ Up(r[2]) /\ PlacedIn(r[2], task[t].cluster)) => r[2] \in run[t].grp

LEMMA MarkKeptStays ==
  ASSUME Barrier, Turns, Tidy, Rested, [Next]_vars, NEW t \in TaskId, MarkKept(t)
  PROVE  MarkKept(t)'
<1> SUFFICES ASSUME run'[t].pc = "deploy_mark", NEW r \in RowId, Exists(r)', Up(r[2])', PlacedIn(r[2], task[t].cluster)'
             PROVE  r[2] \in run'[t].grp
  BY DEF MarkKept
<1>0. IInv /\ r[2] \in Machine /\ run[t] \in RunRec /\ run'[t].pc # "idle"
  BY RunFacts DEF Barrier, RowId
<1>1. CASE run[t].pc = "deploy_mark"
  <2>1. SameTask(t) /\ Running(t)
    BY <1>0, <1>1, NotIdleAgain DEF Running, Active, Calls
  <2>2. run'[t] = run[t]
    <3>1. run'[t] = [run[t] EXCEPT !.pc = "dead"] => run'[t].pc = "dead"
      BY <1>0 DEF RunRec
    <3>2. \A c \in CallPairs : c[2] # "deploy_mark"
      BY DEF CallPairs
    <3> QED
      BY <1>0, <1>1, <3>1, <3>2, EveryRunMoves DEF Move, PlainMove, LastCalls, Leaves, GoesOn, Errs, GetsTask,
         GetsMachines, GetsNodes, GetsCluster, MovesTo
  <2>3. Exists(r)
    <3> SUFFICES ASSUME ~Exists(r) PROVE FALSE
      OBVIOUS
    <3>1. PICK u \in TaskId : /\ r[2] \in run[u].grp
                              /\ \/ StoreNodes(u) /\ r[1] = run[u].key
                                 \/ DeployInsert(u) /\ r[1] = u /\ task[u].kind = "Deploy"
      BY <1>0, AddedRow, EveryRowWritten DEF Barrier
    <3>2. PlacedIn(r[2], task[u].cluster)
      BY <3>1 DEF Barrier, AllPlaced, Place
    <3>3. task[u].cluster = task[t].cluster
      <4>1. MachinesStay
        BY <1>0, CloudStays
      <4>2. machine'[r[2]].cluster = task[u].cluster
        BY <1>0, <3>2, <4>1, PlaceStays
      <4>3. machine'[r[2]].cluster = task[t].cluster
        BY <2>1 DEF PlacedIn, SameTask
      <4> QED
        BY <4>2, <4>3
    <3>4. Running(u) /\ run[u].pc \in {"store", "deploy_insert"}
      BY <3>1 DEF StoreNodes, DeployInsert, At, Running, Active, Calls
    <3>5. task[t].kind = "Deploy"
      BY <1>1, MarkIsDeploy
    <3>6. t = u
      BY <2>1, <3>3, <3>4, <3>5 DEF Turns, OneActive, DeploysNone
    <3> QED
      BY <1>1, <3>4, <3>6
  <2>4. Up(r[2])
    <3>1. Settled(r[2])
      BY <2>3 DEF Rested
    <3> QED
      BY <1>0, <3>1, EveryMachineMoves DEF MachineMove, Settled, Up, None
  <2>5. PlacedIn(r[2], task[t].cluster)
    <3>1. machine'[r[2]].cluster = machine[r[2]].cluster
      BY <1>0, <2>4, CloudStays DEF MachinesStay, Up, None
    <3> QED
      BY <2>1, <2>4, <3>1 DEF PlacedIn, SameTask, Up, None
  <2> QED
    BY <1>1, <2>2, <2>3, <2>4, <2>5 DEF MarkKept
<1>2. CASE run[t].pc # "deploy_mark"
  <2>1. run[t].pc = "deploy_instances"
    BY <1>0, <1>2, Entered
  <2>2. DeployInstances(t)
    BY <1>0, <2>1, DeploySteps1
  <2>3. run' = [run EXCEPT ![t].pc = "deploy_mark", ![t].grp = RunningIn(task[t].cluster)]
        /\ UNCHANGED <<task, machine>>
    BY <2>2 DEF DeployInstances, cloudVars
  <2>4. run'[t].grp = RunningIn(task[t].cluster)
    BY <1>0, <2>3, TypeParts DEF IInv, RunsOK, RunRec
  <2>5. r[2] \in RunningIn(task[t].cluster)
    BY <1>0, <2>3 DEF RunningIn, Up, PlacedIn
  <2> QED
    BY <2>4, <2>5
<1> QED
  BY <1>1, <1>2

-----------------------------------------------------------------------------
(* Who answers for a machine that is lost *)

HasRow(m) == \E r \in RowId : r[2] = m /\ Live(r)

\* A machine that runs, or will, and that no query for rows finds.
Lost(m) == machine[m].state \in {"pending", "running"} /\ ~HasRow(m)

(* A task that is dead, about to report an error, or about to write the row.  *)
Liable(t, m) ==
    \/ run[t].pc = "dead"
    \/ run[t].pc = "finish" /\ run[t].err
    \/ run[t].pc = "expand_poll" /\ m \in bx[run[t].bx].machines
    \/ task[t].kind = "Expand" /\ FreshRun(run[t]) /\ m \in run[t].grp
    \/ run[t].pc = "deploy_insert" /\ m \in run[t].grp

Owes(t, m) ==
    /\ task[t].cluster = machine[m].cluster
    /\ task[t].status = "FAIL" \/ (task[t].status \in Unfinished /\ Liable(t, m))

Kept == \A m \in Machine : Lost(m) => \E t \in TaskId : Owes(t, m)

LEMMA StatusMoves ==
  ASSUME Stores, Answers, IInv, [Next]_vars, NEW t \in TaskId, run[t].pc # "idle"
  PROVE  /\ task'[t].status = task[t].status
            \/ (run[t].pc = "finish" /\ task'[t].status = FinalStatus(run[t]))
         /\ run[t].pc = "finish" =>
              \/ task'[t].status = FinalStatus(run[t])
              \/ run'[t].pc = "dead"
              \/ run'[t].pc = "finish" /\ run'[t].err = run[t].err
         /\ run[t].pc = "dead" => run'[t].pc = "dead"
<1>1. CASE Silent
  BY <1>1 DEF Silent, Unseen, SameRow, Calls, Active
<1>2. ASSUME NEW u \in TaskId, Visible(u), u # t
      PROVE  task'[t].status = task[t].status /\ run'[t] = run[t]
  BY <1>2 DEF Visible, OthersKept, SameRow
<1>3. CASE Visible(t)
  BY <1>3 DEF Visible, Creates, Begins, Completes, GivesUp, Relates, Ends, SameRow, Calls
<1> QED
  BY <1>1, <1>2, <1>3, EveryStepSeen

LEMMA PollLiable ==
  ASSUME Barrier, Tidy, [Next]_vars, NEW t \in TaskId, Engaged(t), NEW m \in Machine,
         run[t].pc = "expand_poll", m \in bx[run[t].bx].machines, Lost(m)'
  PROVE  Liable(t, m)'
<1>1. /\ IInv /\ run[t] \in RunRec /\ SameTask(t) /\ run[t].bx \in BxTaskId
      /\ bx[run[t].bx].kind = "expand"
  BY RunFacts, NotIdleAgain DEF Barrier, Consistent, Engaged
<1>2. task[t].kind = "Expand" /\ run[t].i = 1
  <2>1. Instr(t) = "bridgx.expand" /\ run[t].i \in 1..MaxInstr
    BY <1>1, PcInstr DEF RunRec
  <2>2. task[t].kind = "Expand"
    BY <2>1, RelationIsExpand DEF Instr
  <2> QED
    BY <1>1, <2>2, ExpandCalls DEF Calls
<1>3. CASE run'[t].pc = "expand_poll"
  <2>1. run'[t] = run[t]
    BY <1>1, <1>3, PollStays
  <2>2. bx'[run[t].bx].machines = bx[run[t].bx].machines
    BY <1>1, BxStays DEF None
  <2> QED
    BY <1>3, <2>1, <2>2 DEF Liable
<1>4. CASE GetsMachines(t)
  <2>1. bx[run[t].bx].state = "done"
    BY <1>1, <1>4, PolledDone DEF GetsMachines, MovesTo
  <2>2. machine[m].state \notin {None, "pending"}
    BY <1>1, <2>1 DEF Tidy, Bought
  <2>3. ~Gone(m)
    BY <1>1, SettledStays DEF Gone, Lost
  <2>4. m \in TaskInstances(run[t].bx)
    BY <1>1, <2>2, <2>3, TypeParts DEF IInv, CloudTypeOK, Gone, TaskInstances
  <2> QED
    BY <1>1, <1>2, <1>4, <2>4 DEF GetsMachines, MovesTo, Liable, FreshRun, SameTask
<1>5. CASE Errs(t)
  BY <1>5 DEF Errs, MovesTo, Liable
<1>6. CASE run'[t] = [run[t] EXCEPT !.pc = "dead"]
  <2>1. run'[t].pc = "dead"
    BY <1>1, <1>6 DEF RunRec
  <2> QED
    BY <2>1 DEF Liable
<1> QED
  BY <1>1, <1>3, <1>4, <1>5, <1>6, EveryRunMoves
     DEF Move, PlainMove, CallPairs, LastCalls, GetsTask, GetsNodes, GetsCluster

LEMMA FreshLiable ==
  ASSUME Initialises, Barrier, [Next]_vars, NEW t \in TaskId, NEW m \in Machine,
         task[t].kind = "Expand", FreshRun(run[t]), m \in run[t].grp, Lost(m)'
  PROVE  Liable(t, m)'
<1>1. IInv /\ run[t] \in RunRec /\ SameTask(t) /\ run[t].pc # "idle" /\ run[t].key \in BxTaskId
  <2>1. run[t].pc # "idle" /\ IInv
    BY DEF FreshRun, Barrier
  <2> QED
    BY <2>1, RunFacts, NotIdleAgain DEF FreshRun, Consistent
<1>2. CASE FreshRun(run'[t]) /\ run'[t].grp = run[t].grp
  BY <1>1, <1>2 DEF Liable, SameTask
<1>3. CASE run'[t].pc = "dead"
  BY <1>3 DEF Liable
<1>4. CASE run'[t].pc = "finish"
  <2>1. run[t].pc # "finish" /\ (run[t].pc \in {"relation", "get_cluster"} => run[t].i = 1)
    BY DEF FreshRun
  <2>2. GroupLen(task[t].kind) # 1
    BY DEF GroupLen, Initialises
  <2>3. HasRelation(t) <=> run[t].i \in {1, 2}
    BY <1>1, ExpandCalls DEF HasRelation
  <2>4. run'[t] = [run[t] EXCEPT !.pc = "dead"] => run'[t].pc = "dead"
    BY <1>1 DEF RunRec
  <2>5. FirstCall(Instr(t)) # "finish"
    BY DEF FirstCall
  <2>6. Errs(t)
    BY <1>1, <1>4, <2>1, <2>2, <2>3, <2>4, <2>5, EveryRunMoves
       DEF Move, PlainMove, CallPairs, LastCalls, Leaves, GoesOn, GetsTask, GetsMachines, GetsNodes,
           GetsCluster, MovesTo, FreshRun
  <2> QED
    BY <1>4, <2>6 DEF Errs, Liable
<1>5. CASE run[t].pc = "store" /\ run'[t].pc = "node_poll"
  <2>1. StoreNodes(t)
    BY <1>1, <1>5, PollFollowsStore
  <2>2. InstsOfTask(run[t].key) = {}
    <3>1. run[t].key = run[t].bx /\ run[t].key # 0
      BY <1>1, KnownKeys, IdAssumption DEF Barrier
    <3> QED
      BY <3>1 DEF Barrier, AllStocked, Stocked
  <2>3. PICK r : r = <<run[t].key, m>>
    OBVIOUS
  <2>4. r \in RowId /\ r[2] = m
    BY <1>1, <2>1, <2>3, StoredRow DEF RowId
  <2>5. instance'[r].status = "INIT"
    BY <1>1, <2>1, <2>2, <2>3, <2>4, StoredRow DEF InstsOfTask
  <2>6. HasRow(m)'
    BY <2>4, <2>5 DEF HasRow, Live, Exists, None
  <2> QED
    BY <2>6 DEF Lost
<1> QED
  <2>1. ExpandMove(t)
    BY <1>1, EveryMove DEF IdleMove, OtherMove
  <2> QED
    BY <1>2, <1>3, <1>4, <1>5, <2>1 DEF ExpandMove, SameHands, FreshRun, GetsTask, GetsMachines, GetsNodes

LEMMA InsertLiable ==
  ASSUME Barrier, [Next]_vars, NEW t \in TaskId, NEW m \in Machine,
         run[t].pc = "deploy_insert", m \in run[t].grp, Lost(m)'
  PROVE  Liable(t, m)'
<1>1. IInv /\ run[t] \in RunRec /\ SameTask(t)
  BY RunFacts, NotIdleAgain DEF Barrier
<1>2. CASE run'[t] = run[t]
  BY <1>2 DEF Liable
<1>3. CASE run'[t].pc = "dead"
  BY <1>3 DEF Liable
<1>4. CASE run'[t].pc = "finish"
  <2>1. run'[t] = [run[t] EXCEPT !.pc = "dead"] => run'[t].pc = "dead"
    BY <1>1 DEF RunRec
  <2>2. Errs(t)
    BY <1>1, <1>4, <2>1, EveryRunMoves
       DEF Move, PlainMove, CallPairs, LastCalls, GetsTask, GetsMachines, GetsNodes, GetsCluster, MovesTo
  <2> QED
    BY <1>4, <2>2 DEF Errs, Liable
<1>5. CASE run'[t] # run[t] /\ run'[t].pc \notin {"dead", "finish"}
  <2>1. DeployInsert(t)
    BY <1>1, <1>5, DeploySteps1
  <2>2. instance' = BatchCreate(run[t].grp, t, task[t].cluster)
    BY <2>1 DEF DeployInsert
  <2>3. PICK r : r = <<t, m>>
    OBVIOUS
  <2>4. r \in RowId /\ r[1] = t /\ r[2] = m
    BY <2>3 DEF RowId, Key
  <2>5. instance'[r].status = "INIT"
    BY <2>2, <2>4 DEF BatchCreate, NewRow
  <2>6. HasRow(m)'
    BY <2>4, <2>5 DEF HasRow, Live, Exists, None
  <2> QED
    BY <2>6 DEF Lost
<1> QED
  BY <1>2, <1>3, <1>4, <1>5

LEMMA OwesStays ==
  ASSUME Stores, Answers, Initialises, Barrier, Lives, Tidy, [Next]_vars, NEW t \in TaskId, Engaged(t),
         NEW m \in Machine, machine[m].state # None, Lost(m)', Owes(t, m)
  PROVE  Owes(t, m)'
<1>1. IInv /\ run[t] \in RunRec /\ Lived(t)
  BY RunFacts DEF Barrier, Lives
<1>2. run[t].pc # "idle"
  BY <1>1 DEF Lived, Owes, Unfinished, None
<1>3. task'[t].cluster = machine'[m].cluster
  BY <1>1, <1>2, NotIdleAgain, CloudStays DEF SameTask, MachinesStay, Owes
<1>4. CASE task[t].status = "FAIL"
  <2>1. run[t].pc # "finish"
    BY <1>1, <1>4 DEF Lived, Active, Unfinished
  <2> QED
    BY <1>1, <1>2, <1>3, <1>4, <2>1, StatusMoves DEF Owes
<1>5. CASE task[t].status \in Unfinished /\ Liable(t, m)
  <2>1. CASE run[t].pc = "finish" /\ run[t].err
    <3>1. FinalStatus(run[t]) = "FAIL"
      BY <2>1 DEF FinalStatus
    <3> QED
      BY <1>1, <1>2, <1>3, <1>5, <2>1, <3>1, StatusMoves DEF Owes, Liable
  <2>2. CASE run[t].pc = "dead"
    BY <1>1, <1>2, <1>3, <1>5, <2>2, StatusMoves DEF Owes, Liable
  <2>3. CASE run[t].pc \notin {"finish", "dead"}
    <3>1. Liable(t, m)'
      BY <1>5, <2>3, PollLiable, FreshLiable, InsertLiable DEF Liable
    <3> QED
      BY <1>1, <1>2, <1>3, <1>5, <2>3, <3>1, StatusMoves DEF Owes
  <2> QED
    BY <1>5, <2>1, <2>2, <2>3 DEF Liable, FreshRun
<1> QED
  BY <1>4, <1>5 DEF Owes

LEMMA MarkedOwes ==
  ASSUME IInv, NEW t \in TaskId, DeployMark(t)
  PROVE  run'[t].pc = "deploy_insert" /\ run'[t].grp = run[t].grp
  BY GotoMoves DEF DeployMark, MovesTo, SameHands

LEMMA BoughtOwes ==
  ASSUME Stores, Answers, Barrier, Lives, [Next]_vars, NEW t \in TaskId, NEW b \in BxTaskId, NEW ms \in SUBSET Machine,
         Buys(t, b, ms), NEW m \in ms
  PROVE  Owes(t, m)'
<1>1. IInv /\ run[t].pc = "expand_call" /\ Lived(t)
  BY DEF Barrier, Buys, Lives
<1>2. SameTask(t) /\ task'[t].status \in Unfinished
  BY <1>1, NotIdleAgain, StatusMoves DEF Lived, Active, Calls
<1>3. Liable(t, m)'
  BY DEF Buys, Bid, GivenUp, Liable
<1> QED
  BY <1>2, <1>3 DEF Owes, Buys, SameTask

\* Who takes the last row of a machine that is not gone owes for it.
LEMMA TakerOwes ==
  ASSUME Stores, Answers, Barrier, Lives, Rested, [Next]_vars,
         \A t \in TaskId : Engaged(t) /\ MarkKept(t),
         NEW r \in RowId, Live(r), ~Live(r)', ~Gone(r[2])
  PROVE  \E t \in TaskId : Owes(t, r[2])'
<1>1. IInv /\ r[2] \in Machine /\ r \in RowId
  BY DEF Barrier, RowId
<1>2. instance'[r] # instance[r] /\ Exists(r)
  BY DEF Live, Exists
<1>3. ~\E g \in node : AnsweredBy(g, r)
  <2> SUFFICES ASSUME NEW g \in node, AnsweredBy(g, r) PROVE FALSE
    OBVIOUS
  <2>1. g.target \in Targets
    BY SentFacts DEF Barrier, AllSent, Goroutine
  <2> QED
    BY <2>1 DEF AnsweredBy, Live, Exists, None, Targets
<1>4. PICK t \in TaskId : RunStep(t) /\ TouchedBy(t, r)
  BY <1>2, <1>3, RowTouched
<1>5. PlacedIn(r[2], task[t].cluster) /\ Buried(t, r)
  BY <1>2, <1>4 DEF TouchedBy, Stored, Inserted, Mounts, Live, Exists, None
<1>6. ~ShrinkDb(t)
  <2> SUFFICES ASSUME ShrinkDb(t) PROVE FALSE
    OBVIOUS
  <2>1. r[2] \in run[t].grp
    BY <1>2 DEF ShrinkDb, BatchUpdateStatusByIds
  <2> QED
    BY <2>1 DEF ShrinkDb, At, Engaged
<1>7. DeployMark(t)
  BY <1>5, <1>6 DEF Buried
<1>8. run[t].pc = "deploy_mark" /\ UNCHANGED <<task, machine>>
  BY <1>7 DEF DeployMark, At, cloudVars
<1>9. r[2] \in run[t].grp
  BY <1>2, <1>5, <1>8 DEF MarkKept, Rested, Settled, Gone, Up
<1>10. Liable(t, r[2])'
  BY <1>1, <1>7, <1>9, MarkedOwes DEF Liable
<1>11. task'[t].status \in Unfinished /\ task'[t].cluster = machine'[r[2]].cluster
  BY <1>5, <1>8 DEF Lives, Lived, Active, Calls, PlacedIn
<1> QED
  BY <1>10, <1>11 DEF Owes

LEMMA KeptStays ==
  ASSUME Stores, Answers, Initialises, Barrier, Lives, Tidy, Rested, Kept, [Next]_vars,
         \A t \in TaskId : Engaged(t) /\ MarkKept(t)
  PROVE  Kept'
<1> SUFFICES ASSUME NEW m \in Machine, Lost(m)' PROVE \E t \in TaskId : Owes(t, m)'
  BY DEF Kept
<1>0. IInv /\ machine[m].state \in {"pending", "running", "gone", None}
  BY TypeParts DEF Barrier, IInv, CloudTypeOK
<1>1. CASE Lost(m)
  <2>1. PICK t \in TaskId : Owes(t, m)
    BY <1>1 DEF Kept
  <2> QED
    BY <1>1, <2>1, OwesStays DEF Lost, None
<1>2. CASE machine[m].state = None
  <2>1. PICK t \in TaskId, b \in BxTaskId, ms \in SUBSET Machine : Buys(t, b, ms) /\ m \in ms
    BY <1>0, <1>2, EveryMachineMoves DEF MachineMove, Lost, None
  <2> QED
    BY <2>1, BoughtOwes
<1>3. CASE machine[m].state # None /\ ~Lost(m)
  <2>1. ~Gone(m)
    BY <1>0, SettledStays DEF Gone, Lost
  <2>2. HasRow(m)
    BY <1>0, <1>3, <2>1 DEF Lost, Gone
  <2>3. PICK r \in RowId : r[2] = m /\ Live(r)
    BY <2>2 DEF HasRow
  <2>4. ~Live(r)'
    BY <2>3 DEF Lost, HasRow
  <2> QED
    BY <2>1, <2>3, <2>4, TakerOwes
<1> QED
  BY <1>1, <1>2, <1>3

-----------------------------------------------------------------------------
(* No machine is lost in silence. *)

Debts ==
    /\ Progress /\ Lives /\ Turns /\ Tidy /\ Rested
    /\ \A t \in TaskId : Engaged(t) /\ MarkKept(t)
    /\ Kept

LEMMA NextDebts ==
  ASSUME Stores, Answers, Initialises, Barrier, Debts, [Next]_vars
  PROVE  Debts'
<1>1. IInv
  BY DEF Barrier
<1>2. Progress' /\ Lives'
  BY <1>1, NextProgress, NextLives DEF Debts
<1>3. Turns' /\ Tidy' /\ Rested'
  BY <1>1, TurnsKept, TidyStays, RestedStays DEF Debts
<1>4. ASSUME NEW t \in TaskId PROVE Engaged(t)' /\ MarkKept(t)'
  BY EngagedStays, MarkKeptStays DEF Debts
<1>5. Kept'
  BY KeptStays DEF Debts
<1> QED
  BY <1>2, <1>3, <1>4, <1>5 DEF Debts, Engaged, MarkKept

LEMMA InitDebts ==
  ASSUME Patient \/ NoDeploys, Init
  PROVE  Debts
<1> DEFINE b0 == CHOOSE b \in BxTaskId : \A c \in BxTaskId : b <= c
           c0 == CHOOSE c \in Cluster : TRUE
<1>1. /\ run = [t \in TaskId |-> NewRun] /\ task = [t \in TaskId |-> NoTask]
      /\ instance = [r \in RowId |-> IF r[2] \in Mounted /\ r[1] = b0
                                     THEN [status |-> "ALB", cluster |-> c0] ELSE NoRow]
      /\ bx = [b \in BxTaskId |-> IF Mounted # {} /\ b = b0
                 THEN [kind |-> "expand", state |-> "done", machines |-> Mounted] ELSE NoBxTask]
      /\ machine = [m \in Machine |-> IF m \in Mounted
                      THEN [state |-> "running", cluster |-> c0] ELSE [state |-> None, cluster |-> 0]]
  BY DEF Init
<1>2. Mounted # {} => b0 \in BxTaskId
  <2> SUFFICES ASSUME Mounted # {} PROVE b0 \in BxTaskId
    OBVIOUS
  <2>1. BxTaskId \subseteq Nat /\ BxTaskId # {}
    BY IdAssumption, TemplateAssumption
  <2>2. \E b \in BxTaskId : \A c \in BxTaskId : b <= c
    BY <2>1, LeastId
  <2> QED
    BY <2>2
<1> HIDE DEF b0, c0
<1>3. \A t \in TaskId : run[t].pc = "idle" /\ run[t].grp = {} /\ task[t].kind = None
  BY <1>1 DEF NewRun, NoTask
<1>4. Progress /\ Lives
  BY InitProgress, InitLives
<1>5. Turns
  BY <1>3 DEF Turns, OneActive, Unended, Running, Active, Calls, DeploysNone, None
<1>6. Tidy
  <2> SUFFICES ASSUME NEW b \in BxTaskId PROVE Bought(b) /\ Sold(b) /\ Named(b)
    BY DEF Tidy
  <2>1. CASE Mounted # {} /\ b = b0
    <3>1. bx[b] = [kind |-> "expand", state |-> "done", machines |-> Mounted]
      BY <1>1, <2>1
    <3>2. \A c \in BxTaskId \ {b} : bx[c].kind # "expand"
      BY <1>1, <2>1 DEF NoBxTask, None
    <3>3. \A m \in Mounted : machine[m].state = "running"
      BY <1>1, TemplateAssumption
    <3> QED
      BY <3>1, <3>2, <3>3 DEF Bought, Sold, Named, None
  <2>2. CASE ~(Mounted # {} /\ b = b0)
    <3>1. bx[b].kind = None /\ bx[b].state = None
      BY <1>1, <2>2 DEF NoBxTask
    <3> QED
      BY <3>1 DEF Bought, Sold, Named, None
  <2> QED
    BY <2>1, <2>2
<1>7. Rested
  <2>1. ASSUME NEW r \in RowId, Exists(r) PROVE Settled(r[2])
    <3>1. r[2] \in Mounted
      BY <1>1, <2>1 DEF Exists, NoRow
    <3> QED
      BY <1>1, <3>1, TemplateAssumption DEF Settled
  <2> QED
    BY <1>3, <2>1 DEF Rested
<1>8. \A t \in TaskId : Engaged(t) /\ MarkKept(t)
  BY <1>3 DEF Engaged, MarkKept
<1>9. Kept
  <2> SUFFICES ASSUME NEW m \in Machine, machine[m].state \in {"pending", "running"} PROVE HasRow(m)
    BY DEF Kept, Lost
  <2>1. m \in Mounted
    BY <1>1 DEF None
  <2>2. PICK r : r = <<b0, m>>
    OBVIOUS
  <2>3. r \in RowId /\ r[1] = b0 /\ r[2] = m
    BY <1>2, <2>1, <2>2 DEF RowId, Key
  <2>4. instance[r].status = "ALB"
    BY <1>1, <2>1, <2>3
  <2> QED
    BY <2>3, <2>4 DEF HasRow, Live, Exists, None
<1> QED
  BY <1>4, <1>5, <1>6, <1>7, <1>8, <1>9 DEF Debts

LEMMA DebtsReported ==
  ASSUME Debts
  PROVE  LossIsReported
<1> SUFFICES ASSUME Quiet, NEW m \in Machine, machine[m].state = "running", LiveRows(m) = {}
             PROVE  \E t \in TaskId : task[t].cluster = machine[m].cluster
                                      /\ task[t].status \in Unfinished \cup {"FAIL"}
  BY DEF LossIsReported
<1>1. Lost(m)
  BY DEF Lost, HasRow, LiveRows, Live
<1> QED
  BY <1>1 DEF Debts, Kept, Owes

(* A machine that runs with no row to find it by is a task's reported failure,*)
(* or the unfinished task of a process that died: remote work that fails,     *)
(* answers that are lost and crashes in between cost no machine its row in    *)
(* silence.  A deploy that comes while another task of the cluster runs does: *)
(* it marks rows of machines that were not running when it asked for them.    *)
THEOREM LossesAreReported ==
  ASSUME Stores, Answers, Initialises, Patient \/ NoDeploys
  PROVE  Spec /\ []IdsApart => []LossIsReported
<1>1. Init => Debts
  BY InitDebts
<1>2. Barrier /\ Debts /\ [Next]_vars => Debts'
  BY NextDebts
<1>3. Debts => LossIsReported
  BY DebtsReported
<1> QED
  BY <1>1, <1>2, <1>3, AlwaysBarrier, PTL DEF Spec

\* Without deploys the ids of tasks never meet those of BridgX.
LEMMA AlwaysApart ==
  ASSUME NoDeploys
  PROVE  Spec => []IdsApart
<1>1. Init => Barrier /\ DeploysNone
  BY InitBarrier DEF Init, DeploysNone, NoTask, None
<1>2. DeploysNone => IdsApart
  BY DEF DeploysNone, IdsApart
<1>3. Barrier /\ DeploysNone /\ [Next]_vars => DeploysNone'
  BY NoDeployKept DEF Barrier
<1>4. DeploysNone' => IdsApart'
  BY DEF DeploysNone, IdsApart
<1>5. Barrier /\ IdsApart /\ IdsApart' /\ [Next]_vars => Barrier'
  BY NextBarrier
<1> QED
  BY <1>1, <1>2, <1>3, <1>4, <1>5, PTL DEF Spec

(* A service that never deploys loses no machine in silence, whatever ids     *)
(* BridgX gives its tasks and however many tasks run at once.                 *)
THEOREM NothingIsLostUndeployed ==
  ASSUME Stores, Answers, Initialises, NoDeploys
  PROVE  Spec => []LossIsReported
BY LossesAreReported, AlwaysApart, PTL

-----------------------------------------------------------------------------
(* What serves behind the load balancer *)

\* What BridgX and the load balancer do, they answer.
Heard == "lost" \notin Faults

(* Callers who wait see one unfinished task in a cluster at most; one that    *)
(* died stays unfinished, so they never ask for another.                      *)
OneUnfinished ==
    \A t, u \in TaskId :
        (task[t].status \in Unfinished /\ task[u].status \in Unfinished
            /\ task[t].cluster = task[u].cluster) => t = u

Unsold(m) == \A b \in BxTaskId : bx[b].kind = "shrink" => m \notin bx[b].machines

Fit(m) == Up(m) /\ Unsold(m)

AlbRow(m) == \E r \in RowId : r[2] = m /\ instance[r].status = "ALB"

\* The task has mounted the machine and not marked its row, or died before.
Mounting(t, m) ==
    /\ task[t].kind = "Expand" /\ task[t].status \in Unfinished
    /\ run[t].pc \in {"mount_db", "dead"} /\ m \in run[t].grp

Shown(m) == AlbRow(m) \/ \E t \in TaskId : Mounting(t, m)

(* What serves runs, is not given back, and the query for mounted rows finds  *)
(* it, or will once its task has marked the row; if that died, nobody asks.   *)
AllServing == \A m \in slb : Fit(m) /\ Shown(m)

FitHands(t) == \A m \in run[t].grp : Fit(m)

FitRows(t) == run[t].key # 0 => \A m \in InstsOfTask(run[t].key) : Fit(m)

UnsoldYet(t) == run[t].pc = "expand_poll" => \A m \in bx[run[t].bx].machines : Unsold(m)

\* Nobody gives back what a running expand has, or will have.
FitMachines(t) == (task[t].kind = "Expand" /\ Running(t)) => FitHands(t) /\ FitRows(t) /\ UnsoldYet(t)

NonePlaced(sc) == \A m \in slb : ~PlacedIn(m, sc)

(* What a running shrink is about to give back was taken out of the server    *)
(* group; it may pick any machine of a cluster that has none in there.        *)
OffGroup(t) ==
    (task[t].kind = "Shrink" /\ Running(t)) =>
        /\ (run[t].i = 2 \/ run[t].pc = "umount_db") => run[t].grp \cap slb = {}
        /\ (run[t].i = 2 /\ run[t].pc \in {"next", "shrink_pick"} /\ run[t].grp = {}) =>
              NonePlaced(task[t].cluster)

\* The rows of an expand say ALB after its last instruction only.
AlbLate(t) ==
    (task[t].kind = "Expand" /\ run[t].key # 0 /\ run[t].i < 4) =>
        \A m \in Machine : instance[<<run[t].key, m>>].status # "ALB"

\* A command still in flight has no mounted row to overwrite.
AlbOver(g) == instance[<<g.key, g.inst>>].status # "ALB"

Service ==
    /\ AllServing
    /\ \A t \in TaskId : FitMachines(t) /\ OffGroup(t) /\ AlbLate(t)
    /\ \A g \in node : AlbOver(g)

\* A row that is written ends its task, or is that of a query that panics.
LEMMA StatusEnds ==
  ASSUME Stores, IInv, [Next]_vars, NEW t \in TaskId, run[t].pc # "idle"
  PROVE  /\ SameTask(t)
         /\ task'[t].status \in {task[t].status, "SUCC", "FAIL"}
         /\ run[t].pc \in {"mount_db", "dead"} => task'[t].status = task[t].status
<1>1. SameTask(t)
  BY EveryTaskStays DEF TasksStay
<1>2. CASE Finish(t) /\ task'[t].status \in {task[t].status, FinalStatus(run[t])}
  BY <1>1, <1>2 DEF Finish, At, FinalStatus
<1>3. CASE TaskPanics(t)
  <2>1. run[t].pc = "get_cluster"
    BY <1>3 DEF TaskPanics, At, Stores
  <2>2. task' = task \/ task' = UpdateTaskStatus(task, t, "SUCC")
    BY <1>3, <2>1 DEF TaskPanics
  <2>3. task'[t].status \in {task[t].status, "SUCC"}
    BY <2>2, TypeParts DEF UpdateTaskStatus, IInv, TasksOK, TaskRow
  <2> QED
    BY <1>1, <2>1, <2>3
<1> QED
  BY <1>1, <1>2, <1>3, WhoWritesStatus DEF SameRow, Creates

LEMMA OneUnfinishedStays ==
  ASSUME Stores, Patient, IInv, OneUnfinished, [Next]_vars,
         \A t \in TaskId : run[t].pc = "idle" => task[t].status \notin Unfinished
  PROVE  OneUnfinished'
<1>1. ASSUME NEW t \in TaskId, task'[t].status \in Unfinished, ~(SameTask(t) /\ task[t].status \in Unfinished)
      PROVE  \E kind, sc, cnt, isRollback : CreateAndRun(t, kind, sc, cnt, isRollback)
  <2>1. run[t].pc = "idle"
    BY <1>1, StatusEnds DEF Unfinished
  <2>2. run'[t].pc = "idle" => SameRow(t)
    BY <2>1, WhoWritesStatus DEF Finish, TaskPanics, At, Creates, MovesTo
  <2> QED
    BY <1>1, <2>1, <2>2, Created DEF SameRow
<1>2. ASSUME NEW t \in TaskId, NEW u \in TaskId, t # u, task'[u].status \in Unfinished,
             task'[t].cluster = task'[u].cluster,
             \E kind, sc, cnt, isRollback : CreateAndRun(t, kind, sc, cnt, isRollback)
      PROVE  FALSE
  <2>1. PICK kind, sc, cnt, isRollback : CreateAndRun(t, kind, sc, cnt, isRollback)
    BY <1>2
  <2>2. OneAtATime
    BY <1>2 DEF Patient
  <2>3. task'[t].cluster = sc /\ task'[u] = task[u] /\ ~HasRunningTask(sc)
    BY <1>2, <2>1, <2>2, CreatedTask
  <2> QED
    BY <1>2, <2>3 DEF HasRunningTask
<1> QED
  BY <1>1, <1>2 DEF OneUnfinished, SameTask

-----------------------------------------------------------------------------
\* Nobody gives the machine back now.
NotTaken(m) == \A u \in TaskId : run[u].pc = "shrink_call" => m \notin run[u].grp

LEMMA UnsoldStays ==
  ASSUME IInv, [Next]_vars, NEW m \in Machine, Unsold(m), NotTaken(m)
  PROVE  Unsold(m)'
<1> SUFFICES ASSUME NEW b \in BxTaskId, bx'[b].kind = "shrink" PROVE m \notin bx'[b].machines
  BY DEF Unsold
<1>1. bx'[b] = bx[b] => m \notin bx'[b].machines
  BY DEF Unsold
<1>2. CASE \E t \in TaskId, c \in BxTaskId, ms \in SUBSET Machine : RunStep(t) /\ Buys(t, c, ms)
  BY <1>1, <1>2 DEF Buys, Bid
<1>3. CASE \E t \in TaskId, c \in BxTaskId : RunStep(t) /\ Sells(t, c)
  BY <1>1, <1>3 DEF Sells, Bid, NotTaken
<1>4. CASE \E c \in BxTaskId : Serves(c)
  BY <1>1, <1>4 DEF Serves, Unsold
<1> QED
  BY <1>1, <1>2, <1>3, <1>4, CloudWorks

LEMMA FitStays ==
  ASSUME IInv, Tidy, [Next]_vars, NEW m \in Machine, Fit(m), NotTaken(m)
  PROVE  Fit(m)'
<1>1. Unsold(m)'
  BY UnsoldStays DEF Fit
<1>2. Up(m)'
  <2>1. CASE \E t \in TaskId, c \in BxTaskId, ms \in SUBSET Machine : RunStep(t) /\ Buys(t, c, ms)
    BY <2>1 DEF Buys, Fit, Up, FreeMachines, None
  <2>2. CASE \E t \in TaskId, c \in BxTaskId : RunStep(t) /\ Sells(t, c)
    BY <2>2 DEF Sells, Fit, Up
  <2>3. CASE \E c \in BxTaskId : Serves(c)
    <3>1. PICK c \in BxTaskId : Serves(c)
      BY <2>3
    <3>2. m \notin bx[c].machines
      <4>1. bx[c].kind \in {"expand", "shrink"}
        BY <3>1, TypeParts DEF Serves, Tidy, Named, IInv, CloudTypeOK, BxKinds
      <4> QED
        BY <3>1, <4>1 DEF Serves, Tidy, Bought, Fit, Up, Unsold
    <3> QED
      BY <3>1, <3>2 DEF Serves, Fit, Up
  <2> QED
    BY <2>1, <2>2, <2>3, CloudWorks DEF Fit, Up
<1> QED
  BY <1>1, <1>2 DEF Fit

\* A running expand has the machines of its cluster for itself.
LEMMA OwnNotTaken ==
  ASSUME Barrier, OneActive, NEW t \in TaskId, Running(t), task[t].kind = "Expand",
         NEW m \in Machine, PlacedIn(m, task[t].cluster)
  PROVE  NotTaken(m)
<1> SUFFICES ASSUME NEW u \in TaskId, run[u].pc = "shrink_call", m \in run[u].grp PROVE FALSE
  BY DEF NotTaken
<1>1. IInv /\ Place(u) /\ Running(u)
  BY DEF Barrier, AllPlaced, Running, Active, Calls
<1>2. u = t
  BY <1>1 DEF Place, PlacedIn, OneActive
<1> QED
  BY <1>1, <1>2, ExpandCalls DEF Calls

LEMMA ServingNotTaken ==
  ASSUME MountsInStep4, Barrier, Service, NEW m \in slb
  PROVE  NotTaken(m)
<1> SUFFICES ASSUME NEW u \in TaskId, run[u].pc = "shrink_call", m \in run[u].grp PROVE FALSE
  BY DEF NotTaken
<1>1. IInv /\ Running(u) /\ Consistent(run[u], task[u].kind) /\ run[u] \in RunRec
  BY RunFacts DEF Barrier, Running, Active, Calls
<1>2. task[u].kind = "Shrink"
  BY <1>1, PcInstr, TemplateAssumption DEF Consistent, RunRec, MaxInstr, Instr, InstrAt, ExpandStep, InstanceDeployStep, GroupLen
<1>3. run[u].i = 2
  BY <1>1, <1>2, ShrinkGroup DEF Calls
<1> QED
  BY <1>1, <1>2, <1>3 DEF Service, OffGroup

LEMMA MountDbNext ==
  ASSUME Stores, NEW t \in TaskId, RunStep(t), run[t].pc = "mount_db"
  PROVE  MountDb(t)
<1>1. (InstrFails(t) /\ run[t].pc = "mount_db") => FALSE
  BY DEF Stores, InstrFails, CallRefused, PollGivesUp, ErrorReturn
<1> QED
  BY <1>1
     DEF RunStep, At, BeginInstr, BeginInstrFails, SaveRelation, SaveRelationFails, ExpandCall,
         ExpandPolled, GetCluster, StoreNodes, NodePolled, NodeListed, MountCall, MountDb, UmountQuery,
         UmountCall, UmountDb, ShrinkPick, ShrinkPickFails, ShrinkCall, ShrinkPolled, ShrinkDb,
         DeployInstances, DeployMark, DeployInsert, DeployQuery, DeployWaited, Finish

LEMMA MountIsExpand ==
  ASSUME IInv, NEW t \in TaskId, run[t].pc \in {"mount_call", "mount_db"}
  PROVE  task[t].kind = "Expand" /\ run[t].i = 4 /\ Running(t)
<1>1. Instr(t) = "mount.slb" /\ run[t].i \in 1..MaxInstr /\ run[t].i <= GroupLen(task[t].kind)
  BY PcInstr, RunFacts DEF Consistent, RunRec
<1> QED
  BY <1>1, TemplateAssumption DEF Instr, InstrAt, ExpandStep, InstanceDeployStep, MaxInstr, GroupLen,
     Running, Active, Calls

\* A row that says ALB of a machine that serves is not written any more.
LEMMA AlbStays ==
  ASSUME Barrier, DeploysNone, \A t \in TaskId : Engaged(t), Service, [Next]_vars,
         NEW r \in RowId, instance[r].status = "ALB", Up(r[2])
  PROVE  instance'[r].status = "ALB"
<1> SUFFICES ASSUME instance'[r].status # "ALB" PROVE FALSE
  OBVIOUS
<1>1. IInv /\ Exists(r) /\ instance'[r] # instance[r]
  BY DEF Barrier, Exists, None
<1>2. ASSUME NEW t \in TaskId, RunStep(t), TouchedBy(t, r) PROVE FALSE
  <2>1. Buried(t, r)
    BY <1>1, <1>2 DEF TouchedBy, Stored, Inserted, Mounts
  <2>2. CASE DeployMark(t)
    BY <1>1, <2>2, MarkIsDeploy DEF DeployMark, At, DeploysNone
  <2>3. CASE ShrinkDb(t)
    <3>1. r[2] \in run[t].grp /\ run[t].pc = "shrink_db"
      BY <1>1, <2>3 DEF ShrinkDb, At, BatchUpdateStatusByIds
    <3> QED
      BY <3>1 DEF Engaged, Gone, Up
  <2> QED
    BY <2>1, <2>2, <2>3 DEF Buried
<1>3. ASSUME NEW g \in node, AnsweredBy(g, r) PROVE FALSE
  BY <1>3 DEF AnsweredBy, Service, AlbOver
<1> QED
  BY <1>1, <1>2, <1>3, RowTouched

LEMMA DeadRests ==
  ASSUME IInv, [Next]_vars, NEW t \in TaskId, run[t].pc = "dead"
  PROVE  run'[t].pc = "dead" /\ run'[t].grp = run[t].grp
<1>1. Move(t) /\ "dead" \notin Active
  BY EveryRunMoves DEF Active, Calls
<1> QED
  BY <1>1 DEF Move, PlainMove, GetsTask, GetsMachines, GetsNodes, GetsCluster, CallPairs, LastCalls, Errs

LEMMA MountingShows ==
  ASSUME Stores, Barrier, [Next]_vars, NEW t \in TaskId, NEW m, Mounting(t, m)
  PROVE  Shown(m)'
<1>1. IInv /\ run[t] \in RunRec /\ run[t].pc # "idle" /\ task[t].kind = "Expand" /\ m \in run[t].grp
  BY RunFacts DEF Barrier, Mounting
<1>2. SameTask(t) /\ task'[t].status = task[t].status
  BY <1>1, StatusEnds DEF Mounting
<1>3. CASE run'[t].pc \in {"mount_db", "dead"} /\ run'[t].grp = run[t].grp
  BY <1>2, <1>3 DEF Shown, Mounting, SameTask
<1>4. CASE run[t].pc = "dead"
  <2>1. run'[t].pc = "dead" /\ run'[t].grp = run[t].grp
    BY <1>1, <1>4, DeadRests
  <2> QED
    BY <1>3, <2>1
<1>5. CASE run[t].pc = "mount_db" /\ ~(run'[t].pc \in {"mount_db", "dead"} /\ run'[t].grp = run[t].grp)
  <2>1. run'[t] # run[t] /\ run'[t].pc # "dead"
    <3>1. ExpandMove(t) /\ run[t].i = 4
      BY <1>1, <1>5, EveryMove, MountIsExpand DEF IdleMove, OtherMove
    <3> QED
      BY <1>1, <1>5, <3>1 DEF ExpandMove, GetsTask, GetsMachines, GetsNodes, SameHands
  <2>2. MountDb(t)
    BY <1>1, <1>5, <2>1, StepAt, MountDbNext
  <2>3. PICK k \in Key : k = run[t].key
    BY <1>1, <1>5, MountIsExpand, ExpandFacts
  <2>4. m \in Machine /\ <<k, m>> \in RowId /\ Exists(<<k, m>>)
    BY <1>1, <1>5, <2>3, MountIsExpand DEF Barrier, AllStocked, Stocked, StoredRun, InstsOfTask
  <2>5. instance'[<<k, m>>].status = "ALB"
    <3>1. instance'[<<k, m>>] = [instance[<<k, m>>] EXCEPT !.status = "ALB"]
      BY <1>1, <2>2, <2>3, <2>4 DEF MountDb, BatchUpdateStatus
    <3>2. instance[<<k, m>>] \in InstanceRow
      BY <1>1, <2>4, TypeParts DEF IInv, RowsOK
    <3> QED
      BY <3>1, <3>2, StatusSet
  <2> QED
    BY <2>4, <2>5 DEF Shown, AlbRow
<1> QED
  BY <1>3, <1>4, <1>5 DEF Mounting

LEMMA ServingStays ==
  ASSUME Stores, Heard, MountsInStep4, Barrier, OneActive, Unended, DeploysNone, Tidy,
         \A t \in TaskId : Engaged(t), Service, [Next]_vars
  PROVE  AllServing'
<1> SUFFICES ASSUME NEW m \in slb' PROVE Fit(m)' /\ Shown(m)'
  BY DEF AllServing
<1>1. IInv /\ slb \subseteq Machine
  BY TypeParts DEF Barrier, IInv, CloudTypeOK
<1>2. CASE m \in slb
  <2>1. Fit(m) /\ Shown(m) /\ Fit(m)'
    BY <1>1, <1>2, FitStays, ServingNotTaken DEF Service, AllServing
  <2>2. CASE AlbRow(m)
    BY <2>1, <2>2, AlbStays DEF AlbRow, Fit, Shown
  <2>3. CASE \E t \in TaskId : Mounting(t, m)
    BY <2>1, <2>3, MountingShows
  <2> QED
    BY <2>1, <2>2, <2>3 DEF Shown
<1>3. CASE m \notin slb
  <2>1. PICK t \in TaskId : MountCall(t) /\ m \in run[t].grp
    BY <1>3, MountedBy
  <2>2. run[t].pc = "mount_call" /\ task[t].kind = "Expand" /\ Running(t) /\ run[t] \in RunRec
    BY <1>1, <2>1, MountIsExpand, RunFacts DEF MountCall, At
  <2>3. m \in Machine /\ PlacedIn(m, task[t].cluster) /\ Fit(m)
    BY <2>1, <2>2, ExpandFacts DEF Service, FitMachines, FitHands
  <2>4. Fit(m)'
    BY <1>1, <2>2, <2>3, OwnNotTaken, FitStays
  <2>5. Goto(t, "mount_db") /\ task' = task
    BY <2>1 DEF MountCall, Heard
  <2>6. run'[t].pc = "mount_db" /\ run'[t].grp = run[t].grp
    BY <1>1, <2>5, GotoMoves DEF MovesTo, SameHands
  <2>7. task'[t].status \in Unfinished /\ task'[t].kind = "Expand"
    BY <2>2, <2>5 DEF Unended
  <2> QED
    BY <2>1, <2>4, <2>6, <2>7 DEF Shown, Mounting
<1> QED
  BY <1>2, <1>3

\* Machines of a running expand stay fit.
LEMMA OwnStaysFit ==
  ASSUME Barrier, OneActive, Tidy, [Next]_vars, NEW t \in TaskId, Running(t), task[t].kind = "Expand",
         NEW m \in Machine, PlacedIn(m, task[t].cluster), Fit(m)
  PROVE  Fit(m)'
  BY OwnNotTaken, FitStays DEF Barrier

LEMMA HandsStayFit ==
  ASSUME Barrier, OneActive, Tidy, [Next]_vars, NEW t \in TaskId, Running(t), task[t].kind = "Expand",
         FitMachines(t)
  PROVE  FitHands(t)'
<1> SUFFICES ASSUME NEW m \in run'[t].grp PROVE Fit(m)'
  BY DEF FitHands
<1>1. /\ IInv /\ run[t] \in RunRec /\ run[t].pc # "idle" /\ Place(t)
      /\ FitHands(t) /\ FitRows(t) /\ UnsoldYet(t)
  BY RunFacts DEF Barrier, AllPlaced, FitMachines, Running, Active, Calls
<1>2. ExpandMove(t)
  BY <1>1, EveryMove DEF IdleMove, OtherMove
<1>3. m \in Machine /\ PlacedIn(m, task[t].cluster) /\ Fit(m)
  <2>1. CASE run'[t].grp = run[t].grp
    BY <1>1, <2>1 DEF FitHands, Place, RunRec
  <2>2. CASE GetsMachines(t)
    <3>1. run[t].pc = "expand_poll" /\ m \in TaskInstances(run[t].bx)
      BY <2>2 DEF GetsMachines
    <3>2. m \in bx[run[t].bx].machines /\ Up(m) /\ PlacedIn(m, task[t].cluster)
      BY <1>1, <3>1 DEF TaskInstances, Up, Place
    <3>3. m \in Machine
      <4>1. run[t].bx \in BxTaskId
        BY <1>1, <3>1, RunFacts DEF Consistent
      <4> QED
        BY <1>1, <3>2, <4>1, TypeParts DEF IInv, CloudTypeOK
    <3> QED
      BY <1>1, <3>1, <3>2, <3>3 DEF UnsoldYet, Fit
  <2>3. CASE GetsNodes(t)
    <3>1. m \in InstsOfTask(run[t].key) /\ run[t].i > 1
      BY <1>1, <2>3, ExpandCalls DEF GetsNodes, InstsQueryByTaskId, Calls
    <3>2. run[t].key # 0
      BY <3>1, ExpandFacts
    <3> QED
      BY <1>1, <3>1, <3>2 DEF FitRows, Place, InstsOfTask
  <2> QED
    BY <1>2, <2>1, <2>2, <2>3 DEF ExpandMove, SameHands, GetsTask
<1> QED
  BY <1>3, OwnStaysFit

LEMMA RowsStayFit ==
  ASSUME IdsApart, Barrier, OneActive, Tidy, [Next]_vars, NEW t \in TaskId, Running(t), task[t].kind = "Expand",
         FitMachines(t)
  PROVE  FitRows(t)'
<1> SUFFICES ASSUME run'[t].key # 0, NEW m \in InstsOfTask(run[t].key)' PROVE Fit(m)'
  BY DEF FitRows
<1>1. /\ IInv /\ run[t] \in RunRec /\ run[t].pc # "idle" /\ Place(t) /\ Known(run[t], task[t].kind)
      /\ FitHands(t) /\ FitRows(t) /\ Stocked(t) /\ AllKnown
  BY RunFacts DEF Barrier, AllPlaced, AllKnown, AllStocked, FitMachines, Running, Active, Calls
<1>2. ExpandMove(t)
  BY <1>1, EveryMove DEF IdleMove, OtherMove
<1>3. run'[t].key \in {run[t].key, run[t].bx} /\ run'[t].key = run[t].bx
  BY <1>1, <1>2 DEF ExpandMove, SameHands, SameKeys, GetsTask, GetsMachines, GetsNodes, Known
<1>4. PICK k \in BxTaskId : k = run[t].bx /\ k = run'[t].key
  BY <1>1, <1>3, KnownKeys
<1>5. m \in Machine /\ <<k, m>> \in RowId /\ Exists(<<k, m>>)'
  BY <1>4 DEF InstsOfTask, RowId, Key
<1>6. CASE m \in InstsOfTask(k)
  <2>1. run[t].key = k
    BY <1>1, <1>4, <1>6 DEF Stocked, Known
  <2>2. Fit(m) /\ PlacedIn(m, task[t].cluster)
    BY <1>1, <1>3, <1>4, <1>6, <2>1 DEF FitRows, Place
  <2> QED
    BY <1>5, <2>2, OwnStaysFit
<1>7. CASE m \in run[t].grp
  BY <1>1, <1>5, <1>7, OwnStaysFit DEF FitHands, Place
<1> QED
  BY <1>4, <1>5, <1>6, <1>7, RowsOfTask

LEMMA StaysUnsold ==
  ASSUME Barrier, OneActive, Tidy, [Next]_vars, NEW t \in TaskId, Running(t), task[t].kind = "Expand",
         Engaged(t), FitMachines(t)
  PROVE  UnsoldYet(t)'
<1> SUFFICES ASSUME run'[t].pc = "expand_poll", NEW m \in bx'[run'[t].bx].machines PROVE Unsold(m)'
  BY DEF UnsoldYet
<1>1. IInv /\ run[t] \in RunRec /\ Place(t) /\ UnsoldYet(t) /\ IInv' /\ Consistent(run[t], task[t].kind)
  BY RunFacts, NextIInv DEF Barrier, AllPlaced, FitMachines
<1>2. CASE run[t].pc = "expand_poll"
  <2>1. run'[t] = run[t]
    BY <1>1, <1>2, PollStays
  <2>2. PICK b \in BxTaskId : b = run[t].bx /\ b = run'[t].bx
    BY <1>1, <1>2, <2>1 DEF Consistent
  <2>3. bx'[b].machines = bx[b].machines
    BY <1>1, <1>2, <2>2, BxStays DEF Engaged, None
  <2>4. m \in Machine /\ PlacedIn(m, task[t].cluster) /\ Unsold(m)
    BY <1>1, <1>2, <2>2, <2>3, TypeParts DEF Place, UnsoldYet, IInv, CloudTypeOK
  <2> QED
    BY <1>1, <2>4, OwnNotTaken, UnsoldStays
<1>3. CASE run[t].pc # "expand_poll"
  <2>1. run[t].pc = "expand_call" /\ run'[t] # run[t] /\ run[t].pc # "idle"
    BY <1>1, <1>3, Entered
  <2>2. ExpandCall(t)
    BY <1>1, <2>1, StepAt, CallMade, FailsMeans
  <2>3. PICK b \in BxTaskId, ms \in SUBSET Machine : Buys(t, b, ms)
    BY <1>1, <2>2, CallBuys
  <2>4. run'[t].bx = b /\ bx'[b].machines = ms
    BY <2>3 DEF Buys, Bid, GivenUp
  <2>5. m \in Machine /\ machine[m].state = None
    BY <2>3, <2>4 DEF Buys, FreeMachines
  <2> SUFFICES ASSUME NEW c \in BxTaskId, bx'[c].kind = "shrink", m \in bx'[c].machines PROVE FALSE
    BY DEF Unsold
  <2>6. c # b /\ bx'[c] = bx[c]
    BY <2>3 DEF Buys, Bid
  <2> QED
    BY <2>5, <2>6 DEF Tidy, Sold, Settled, None
<1> QED
  BY <1>2, <1>3

LEMMA FitStaysOfTask ==
  ASSUME IdsApart, Barrier, OneActive, Tidy, [Next]_vars, NEW t \in TaskId, Engaged(t), FitMachines(t)
  PROVE  FitMachines(t)'
<1> SUFFICES ASSUME task'[t].kind = "Expand", Running(t)' PROVE (FitHands(t) /\ FitRows(t) /\ UnsoldYet(t))'
  BY DEF FitMachines
<1>1. IInv /\ Known(run[t], task[t].kind) /\ run[t] \in RunRec
  BY RunFacts DEF Barrier, AllKnown
<1>2. CASE Running(t) /\ SameTask(t)
  <2>1. task[t].kind = "Expand"
    BY <1>2 DEF SameTask
  <2> QED
    BY <1>2, <2>1, HandsStayFit, RowsStayFit, StaysUnsold
<1>3. CASE run[t].pc = "idle"
  <2>1. run[t].grp = {} /\ run[t].key = 0
    BY <1>1, <1>3 DEF Known, Unkeyed
  <2>2. run'[t].grp = {} /\ run'[t].key = 0 /\ run'[t].pc # "expand_poll"
    BY <1>1, <1>3, <2>1, EveryRunMoves, IdleMoves DEF IdleMove, SameHands, SameKeys
  <2> QED
    BY <2>2 DEF FitHands, FitRows, UnsoldYet
<1> QED
  BY <1>1, <1>2, <1>3, RunningBefore

LEMMA AlbLateStays ==
  ASSUME IdsApart, IdsApart', Barrier, [Next]_vars, NEW t \in TaskId, AlbLate(t)
  PROVE  AlbLate(t)'
<1> SUFFICES ASSUME task'[t].kind = "Expand", run'[t].key # 0, run'[t].i < 4, NEW m \in Machine,
                    instance'[<<run'[t].key, m>>].status = "ALB"
             PROVE  FALSE
  BY DEF AlbLate
<1>1. IInv /\ AllKnown /\ OwnBx /\ run[t] \in RunRec /\ Known(run[t], task[t].kind)
  BY RunFacts DEF Barrier, AllKnown
<1>2. run[t].pc # "idle"
  <2>1. run[t].pc = "idle" => run[t].key = 0
    BY <1>1 DEF Known, Unkeyed
  <2> QED
    BY <1>1, <2>1, EveryMove DEF IdleMove, SameHands, SameKeys, ExpandMove, OtherMove
<1>3. ExpandMove(t) /\ task[t].kind = "Expand"
  BY <1>1, <1>2, EveryMove, EveryTaskStays DEF IdleMove, OtherMove, TasksStay, SameTask
<1>4. CASE GetsMachines(t)
  <2>1. /\ run'[t].pc = "get_cluster" /\ run'[t].i = 1 /\ run'[t].bx # 0
        /\ run'[t].key = run[t].bx /\ run'[t].bx = run[t].bx
    BY <1>1, <1>3, <1>4, RunFacts, IdAssumption DEF GetsMachines, MovesTo, ExpandMove, GetsTask, GetsNodes,
       SameHands, SameKeys, Consistent
  <2>2. InstsOfTask(run[t].bx)' = {}
    BY <2>1, FreshStays DEF FreshRun
  <2>3. PICK k \in Key : k = run'[t].key /\ k = run[t].bx /\ k = run'[t].bx
    BY <1>1, <2>1, KnownKeys DEF Key
  <2>4. <<k, m>> \in RowId
    BY <2>3 DEF RowId
  <2>5. instance'[<<k, m>>].status = None
    BY <2>2, <2>3, <2>4 DEF InstsOfTask, Exists
  <2> QED
    BY <2>3, <2>5 DEF None
<1>5. CASE ~GetsMachines(t)
  <2>1. run'[t].key = run[t].key /\ run[t].i < 4
    BY <1>1, <1>3, <1>5 DEF ExpandMove, SameHands, SameKeys, GetsTask, GetsNodes, MovesTo, RunRec, MaxInstr
  <2>2. PICK k \in BxTaskId : k = run[t].key /\ k = run'[t].key
    BY <1>1, <2>1, KnownKeys
  <2>3. instance[<<k, m>>].status # "ALB" /\ instance'[<<k, m>>].status = "ALB" /\ <<k, m>> \in RowId
    BY <1>3, <2>1, <2>2 DEF AlbLate, RowId, Key
  <2>4. PICK u \in TaskId : run[u].pc = "mount_db" /\ k = run[u].key /\ run[u].key # 0
    BY <1>1, <2>3, AlbWritten
  <2>5. u = t
    BY <1>1, <2>1, <2>2, <2>4, KeysApart
  <2> QED
    BY <1>1, <2>1, <2>4, <2>5, MountIsExpand
<1> QED
  BY <1>4, <1>5

LEMMA AlbOverStays ==
  ASSUME IdsApart, Barrier, DeploysNone, Readiness, Service, [Next]_vars, NEW g \in node'
  PROVE  AlbOver(g)'
<1> SUFFICES instance'[<<g.key, g.inst>>].status # "ALB"
  BY DEF AlbOver
<1>1. CASE g \in node
  <2>1. <<g.key, g.inst>> \in RowId
    BY <1>1, SentFacts DEF Barrier, AllSent
  <2>2. instance[<<g.key, g.inst>>].status # "ALB"
    BY <1>1 DEF Service, AlbOver
  <2>3. ASSUME NEW u \in TaskId, run[u].pc = "mount_db", g.key = run[u].key, run[u].key # 0 PROVE FALSE
    <3>1. g.task = u /\ task[u].kind = "Expand" /\ run[u].i = 4
      BY <1>1, <2>3, OwnCommand, MountIsExpand DEF Barrier
    <3> QED
      BY <1>1, <3>1 DEF Readiness, Over, InFlight
  <2> QED
    BY <2>1, <2>2, <2>3, AlbWritten DEF Barrier
<1>2. CASE g \notin node
  <2>1. PICK t \in TaskId : StoreNodes(t) \/ DeployInsert(t) \/ DeployQuery(t)
    BY <1>2, CommandsStart DEF Starts
  <2>2. IInv /\ run[t] \in RunRec /\ AllKnown
    BY RunFacts DEF Barrier
  <2>3. StoreNodes(t)
    BY <2>1, <2>2, OnlyDeploys DEF DeploysNone
  <2>4. run[t].pc = "store" /\ task[t].kind = "Expand" /\ run[t].i \in {2, 3} /\ run[t].key # 0
    BY <2>2, <2>3, StoreFacts
  <2>5. PICK m \in run[t].grp : g = [task |-> t, key |-> run[t].key, inst |-> m, target |-> Target(Instr(t))]
    BY <1>2, <2>3, NewCommands DEF CommandsOf
  <2>6. m \in Machine /\ g.key = run[t].key /\ g.inst = m
    BY <2>2, <2>5 DEF RunRec
  <2>7. instance[<<run[t].key, m>>].status # "ALB"
    BY <2>4, <2>6 DEF Service, AlbLate
  <2>8. instance'[<<run[t].key, m>>].status # "ALB"
    BY <2>2, <2>3, <2>7, StoredRow
  <2> QED
    BY <2>6, <2>8
<1> QED
  BY <1>1, <1>2

-----------------------------------------------------------------------------
(* A shrink takes machines out of the server group before it gives them back. *)

\* Nobody mounts machines of a cluster while a shrink of it runs.
LEMMA MountElsewhere ==
  ASSUME Barrier, OneActive, [Next]_vars, NEW t \in TaskId, Running(t), task[t].kind = "Shrink",
         NEW m \in slb', PlacedIn(m, task[t].cluster)
  PROVE  m \in slb
<1> SUFFICES ASSUME m \notin slb PROVE FALSE
  OBVIOUS
<1>1. PICK u \in TaskId : MountCall(u) /\ m \in run[u].grp
  BY MountedBy
<1>2. Running(u) /\ task[u].kind = "Expand" /\ PlacedIn(m, task[u].cluster)
  BY <1>1, MountIsExpand DEF MountCall, At, Barrier, AllPlaced, Place
<1> QED
  BY <1>2 DEF OneActive, PlacedIn

LEMMA NonePlacedStays ==
  ASSUME Barrier, OneActive, Service, [Next]_vars, NEW t \in TaskId, Running(t), task[t].kind = "Shrink",
         NEW sc, sc = task[t].cluster, NonePlaced(sc)
  PROVE  NonePlaced(sc)'
<1> SUFFICES ASSUME NEW m \in slb', PlacedIn(m, sc)' PROVE FALSE
  BY DEF NonePlaced
<1>1. IInv /\ IInv' /\ MachinesStay
  BY CloudStays, NextIInv DEF Barrier
<1>2. m \in Machine
  BY <1>1 DEF IInv, TypeOK, CloudTypeOK
<1>3. PlacedIn(m, sc)
  <2>1. machine[m].state # None
    <3>1. CASE m \in slb
      BY <3>1 DEF Service, AllServing, Fit, Up, None
    <3>2. CASE m \notin slb
      <4>1. PICK u \in TaskId : MountCall(u) /\ m \in run[u].grp
        BY <3>2, MountedBy
      <4> QED
        BY <4>1 DEF Barrier, AllPlaced, Place, PlacedIn
    <3> QED
      BY <3>1, <3>2
  <2> QED
    BY <1>1, <1>2, <2>1 DEF MachinesStay, PlacedIn
<1>4. m \in slb
  BY <1>3, MountElsewhere
<1> QED
  BY <1>3, <1>4 DEF NonePlaced

GroupOff(t) == run[t].grp \cap slb = {}

LEMMA GroupStaysOff ==
  ASSUME Barrier, OneActive, [Next]_vars, NEW t \in TaskId, Running(t), task[t].kind = "Shrink",
         GroupOff(t), run'[t].grp = run[t].grp
  PROVE  GroupOff(t)'
<1>1. \A m \in run[t].grp : PlacedIn(m, task[t].cluster)
  BY DEF Barrier, AllPlaced, Place
<1> QED
  BY <1>1, MountElsewhere DEF GroupOff

\* The query for mounted rows finds none: no machine of the cluster serves.
LEMMA NothingServes ==
  ASSUME Barrier, Unended, OneUnfinished, Service, NEW t \in TaskId, Running(t), task[t].kind = "Shrink",
         NoneMounted(task[t].cluster)
  PROVE  NonePlaced(task[t].cluster)
<1> SUFFICES ASSUME NEW m \in slb, PlacedIn(m, task[t].cluster) PROVE FALSE
  BY DEF NonePlaced
<1>1. CASE AlbRow(m)
  <2>1. PICK r \in RowId : r[2] = m /\ instance[r].status = "ALB"
    BY <1>1 DEF AlbRow
  <2>2. Exists(r) /\ PlacedIn(r[2], instance[r].cluster)
    BY <2>1 DEF Exists, None, Barrier, AllRows, RowOf
  <2> QED
    BY <2>1, <2>2 DEF PlacedIn, NoneMounted, RowsToUmount, RowsOfCluster
<1>2. CASE \E u \in TaskId : Mounting(u, m)
  <2>1. PICK u \in TaskId : Mounting(u, m)
    BY <1>2
  <2>2. task[u].status \in Unfinished /\ task[u].kind = "Expand" /\ PlacedIn(m, task[u].cluster)
    BY <2>1 DEF Mounting, Barrier, AllPlaced, Place
  <2> QED
    BY <2>2 DEF OneUnfinished, Unended, PlacedIn
<1> QED
  BY <1>1, <1>2 DEF Service, AllServing, Shown

Released(t) == run[t].i = 2 \/ run[t].pc = "umount_db"

Picks(t) == run[t].i = 2 /\ run[t].pc \in {"next", "shrink_pick"} /\ run[t].grp = {}

LEMMA OffGroupParts ==
  ASSUME NEW t \in TaskId
  PROVE  OffGroup(t) <=> ((task[t].kind = "Shrink" /\ Running(t)) =>
                            /\ Released(t) => GroupOff(t)
                            /\ Picks(t) => NonePlaced(task[t].cluster))
  BY DEF OffGroup, Released, GroupOff, Picks

\* The steps of a shrink that leave it its machines.
LEMMA HandsStayOff ==
  ASSUME Barrier, OneActive, Service, [Next]_vars, NEW t \in TaskId, Running(t), task[t].kind = "Shrink",
         SameTask(t), run'[t].grp = run[t].grp,
         Released(t)' => Released(t), Picks(t)' => Picks(t)
  PROVE  OffGroup(t)'
<1>1. Released(t) => GroupOff(t)
  BY OffGroupParts DEF Service
<1>2. Picks(t) => NonePlaced(task[t].cluster)
  BY OffGroupParts DEF Service
<1>3. Released(t)' => GroupOff(t)'
  BY <1>1, GroupStaysOff
<1>4. PICK sc : sc = task[t].cluster /\ sc = task'[t].cluster
  BY DEF SameTask
<1>5. Picks(t)' => NonePlaced(sc)'
  BY <1>2, <1>4, NonePlacedStays
<1> QED
  BY <1>3, <1>4, <1>5 DEF OffGroup, Released, GroupOff, Picks

LEMMA OffGroupMoves ==
  ASSUME Stores, Heard, MountsInStep4, Barrier, OneActive, Unended, OneUnfinished, Choosing, Service,
         [Next]_vars, NEW t \in TaskId, RunStep(t), Running(t), task[t].kind = "Shrink"
  PROVE  OffGroup(t)'
<1>1. /\ IInv /\ run[t] \in RunRec /\ SameTask(t) /\ Chooses(t) /\ task[t] \in TaskRow
  BY RunFacts, RunStepKeepsTasks, TypeParts DEF Barrier, IInv, TasksOK, Choosing
<1>2. PICK sc : sc = task[t].cluster /\ sc = task'[t].cluster
  BY <1>1 DEF SameTask
<1>6. /\ run[t].i \in 1..2 /\ GroupLen(task[t].kind) = 2 /\ ~HasRelation(t)
      /\ FirstCall(Instr(t)) = IF run[t].i = 1 THEN "umount_query" ELSE "shrink_pick"
      /\ run[t].pc \in {"umount_query", "umount_call", "umount_db"} => run[t].i = 1
      /\ run[t].pc \in {"shrink_pick", "shrink_call", "shrink_poll", "shrink_db"} => run[t].i = 2
  BY <1>1, ShrinkGroup DEF Calls
<1>7. CASE BeginInstr(t)
  <2>1. run[t].pc = "next" /\ MovesTo(t, FirstCall(Instr(t)), run[t].i) /\ run'[t].grp = run[t].grp
    BY <1>1, <1>7, GotoMoves DEF BeginInstr, At, SameHands
  <2> QED
    BY <1>1, <1>6, <2>1, HandsStayOff DEF MovesTo, Released, Picks
<1>8. CASE UmountQuery(t)
  <2>1. PICK rows \in QueryInstsToUmount(sc, task[t].inst_cnt) :
          IF rows = {} THEN Succeed(t, run[t])
          ELSE run' = [run EXCEPT ![t].pc = "umount_call", ![t].grp = {r[2] : r \in rows}]
    BY <1>2, <1>8 DEF UmountQuery
  <2>2. run[t].pc = "umount_query" /\ run[t].grp = {}
    BY <1>1, <1>6, <1>8 DEF UmountQuery, At, Chooses
  <2>3. CASE rows = {}
    <3>1. Leaves(t) /\ run'[t].grp = {}
      BY <1>1, <2>1, <2>2, <2>3, LeavesAfter
    <3>2. NoneMounted(sc)
      BY <1>1, <2>3, QueriedWithin DEF TaskRow, Choosing
    <3>3. NonePlaced(sc)'
      BY <1>2, <3>2, NothingServes, NonePlacedStays
    <3> QED
      BY <1>2, <3>1, <3>3 DEF OffGroup
  <2>4. CASE rows # {}
    <3>1. run'[t].pc = "umount_call" /\ run'[t].i = 1
      BY <1>1, <1>6, <2>1, <2>2, <2>4, TypeParts DEF IInv, RunsOK, RunRec
    <3> QED
      BY <3>1 DEF OffGroup
  <2> QED
    BY <2>3, <2>4
<1>9. CASE UmountCall(t)
  <2>1. run'[t].pc = "umount_db" /\ run'[t].grp = run[t].grp
    BY <1>1, <1>9, GotoMoves DEF UmountCall, Heard, MovesTo, SameHands
  <2>2. slb' = slb \ run[t].grp
    BY <1>9 DEF UmountCall
  <2> QED
    BY <2>1, <2>2 DEF OffGroup
<1>10. CASE UmountDb(t)
  <2>1. run[t].pc = "umount_db" /\ run'[t].grp = run[t].grp /\ run[t].grp # {}
    BY <1>1, <1>10, LeavesAfter DEF UmountDb, At, Chooses
  <2> QED
    BY <1>1, <2>1, HandsStayOff DEF Released, Picks
<1>11. CASE ShrinkPick(t)
  <2>1. /\ run[t].pc = "shrink_pick" /\ run'[t].pc = "shrink_call" /\ run'[t].i = run[t].i
        /\ run[t].grp # {} => run'[t].grp = run[t].grp
    BY <1>1, <1>11, TypeParts DEF IInv, RunsOK, RunRec, ShrinkPick, At
  <2>2. CASE run[t].grp # {}
    BY <1>1, <1>6, <2>1, <2>2, HandsStayOff DEF Released, Picks
  <2>3. CASE run[t].grp = {}
    <3>1. NonePlaced(task[t].cluster)
      BY <1>6, <2>1, <2>3 DEF Service, OffGroup
    <3>2. machine' = machine /\ slb' = slb
      BY <1>11 DEF ShrinkPick, cloudVars
    <3>3. \A m \in run'[t].grp : PlacedIn(m, task[t].cluster)
      <4>1. \A m \in run'[t].grp : PlacedIn(m, task[t].cluster)'
        BY PlaceOfGroupStays
      <4> QED
        BY <1>2, <3>2, <4>1 DEF PlacedIn
    <3>4. run'[t].grp \cap slb' = {}
      BY <3>1, <3>2, <3>3 DEF NonePlaced
    <3> QED
      BY <2>1, <3>4 DEF OffGroup
  <2> QED
    BY <2>2, <2>3
<1>12. CASE ShrinkPolled(t) \/ ShrinkDb(t) \/ ShrinkCall(t)
  <2>1. run[t].i = 2 /\ run'[t].grp = run[t].grp /\ run'[t].pc \in {"finish", "shrink_poll", "shrink_db"}
    <3>1. CASE ShrinkCall(t)
      BY <1>1, <1>6, <3>1, TypeParts DEF Heard, ShrinkCall, At, IInv, RunsOK, RunRec
    <3>2. CASE ShrinkPolled(t)
      BY <1>1, <1>6, <3>2, GotoMoves DEF ShrinkPolled, MovesTo, SameHands, At
    <3>3. CASE ShrinkDb(t)
      <4>1. Leaves(t) /\ run[t].i = 2 /\ run'[t].grp = run[t].grp
        BY <1>1, <1>6, <3>3, LeavesAfter DEF ShrinkDb, At
      <4> QED
        BY <1>6, <4>1 DEF Leaves, GoesOn, MovesTo
    <3> QED
      BY <1>12, <3>1, <3>2, <3>3
  <2> QED
    BY <1>1, <2>1, HandsStayOff DEF Released, Picks
<1>13. CASE BeginInstrFails(t) \/ ShrinkPickFails(t) \/ InstrFails(t) \/ Finish(t)
  <2>1. run'[t].pc \in {"finish", "done"} /\ run'[t].grp = run[t].grp /\ run'[t].i = run[t].i
    <3>1. CASE Finish(t)
      BY <1>1, <3>1, GotoMoves DEF Finish, MovesTo, SameHands
    <3>2. CASE BeginInstrFails(t) \/ ShrinkPickFails(t)
      BY <3>2 DEF Stores, BeginInstrFails, ShrinkPickFails
    <3>3. CASE InstrFails(t)
      BY <1>1, <3>3, TypeParts DEF IInv, RunsOK, RunRec, InstrFails, Fail
    <3> QED
      BY <1>13, <3>1, <3>2, <3>3
  <2> QED
    BY <1>1, <2>1, HandsStayOff DEF Released, Picks
<1> QED
  BY <1>1, <1>7, <1>8, <1>9, <1>10, <1>11, <1>12, <1>13, ShrinkSteps

LEMMA OffGroupStays ==
  ASSUME Stores, Heard, MountsInStep4, Barrier, OneActive, Unended, OneUnfinished, Choosing, Service,
         [Next]_vars, NEW t \in TaskId
  PROVE  OffGroup(t)'
<1> SUFFICES ASSUME task'[t].kind = "Shrink", Running(t)' PROVE OffGroup(t)'
  BY DEF OffGroup
<1>1. IInv /\ run[t] \in RunRec
  BY RunFacts DEF Barrier
<1>2. CASE Running(t) /\ SameTask(t)
  <2>1. task[t].kind = "Shrink" /\ run[t].pc # "idle"
    BY <1>2 DEF SameTask, Running, Active, Calls
  <2>2. CASE run'[t] = run[t]
    BY <1>2, <2>1, <2>2, HandsStayOff DEF Released, Picks
  <2>3. CASE run'[t] # run[t]
    <3>1. run'[t].pc # "dead"
      BY DEF Running, Active, Calls
    <3>2. RunStep(t)
      BY <1>1, <2>1, <2>3, <3>1, StepAt
    <3> QED
      BY <1>2, <2>1, <3>2, OffGroupMoves
  <2> QED
    BY <2>2, <2>3
<1>3. CASE run[t].pc = "idle"
  <2>1. run'[t].i = 1 /\ run'[t].pc \in {"idle", "next", "done"}
    BY <1>1, <1>3, EveryRunMoves, IdleMoves DEF IdleMove
  <2> QED
    BY <2>1 DEF OffGroup
<1> QED
  BY <1>1, <1>2, <1>3, RunningBefore

-----------------------------------------------------------------------------
(* What is released does not serve. *)
Balanced ==
    /\ Readiness /\ Choosing /\ DeploysNone /\ Tidy /\ Rested /\ OneUnfinished
    /\ \A t \in TaskId : Engaged(t) /\ (run[t].pc = "idle" => task[t].status \notin Unfinished)
    /\ Service

LEMMA NextBalanced ==
  ASSUME Patient, NoDeploys, MountsInStep4, Stores, Heard, IdsApart, IdsApart', Barrier, Balanced, [Next]_vars
  PROVE  Balanced'
<1>1. IInv /\ OneActive /\ Unended
  BY DEF Barrier, Balanced, Readiness
<1>2. Readiness' /\ Choosing' /\ DeploysNone' /\ Tidy' /\ Rested'
  BY <1>1, NextReadiness, NextChoosing, NoDeployKept, TidyStays, RestedStays DEF Balanced
<1>3. ASSUME NEW t \in TaskId PROVE Engaged(t)' /\ (run'[t].pc = "idle" => task'[t].status \notin Unfinished)
  <2>1. Engaged(t)'
    BY EngagedStays DEF Balanced
  <2>2. run'[t].pc = "idle" => run[t].pc = "idle" /\ SameRow(t)
    BY <1>1, NotIdleAgain, WhoWritesStatus DEF Finish, TaskPanics, At, Creates, MovesTo
  <2> QED
    BY <2>1, <2>2 DEF Balanced, SameRow
<1>4. AllServing'
  BY <1>1, ServingStays DEF Balanced
<1>5. ASSUME NEW t \in TaskId PROVE FitMachines(t)' /\ OffGroup(t)' /\ AlbLate(t)'
  BY <1>1, FitStaysOfTask, OffGroupStays, AlbLateStays DEF Balanced, Service
<1>6. ASSUME NEW g \in node' PROVE AlbOver(g)'
  BY AlbOverStays DEF Balanced
<1>7. Service'
  BY <1>4, <1>5, <1>6 DEF Service
<1>8. OneUnfinished'
  BY <1>1, OneUnfinishedStays DEF Balanced
<1> QED
  BY <1>2, <1>3, <1>7, <1>8 DEF Balanced

LEMMA InitService ==
  ASSUME Init
  PROVE  Service
<1>1. /\ slb = Mounted /\ node = {}
      /\ \A t \in TaskId : run[t].pc = "idle" /\ task[t].kind = None
  BY DEF Init, NewRun, NoTask
<1>2. ASSUME NEW t \in TaskId PROVE FitMachines(t) /\ OffGroup(t) /\ AlbLate(t)
  BY <1>1 DEF FitMachines, OffGroup, AlbLate, None
<1>3. ASSUME NEW m \in slb PROVE Fit(m) /\ AlbRow(m)
  <2>1. m \in Machine /\ BxTaskId # {} /\ BxTaskId \subseteq Nat
    BY <1>1, <1>3, TemplateAssumption, IdAssumption
  <2>2. PICK b0 \in BxTaskId : b0 = CHOOSE b \in BxTaskId : \A c \in BxTaskId : b <= c
    <3>1. \E b \in BxTaskId : \A c \in BxTaskId : b <= c
      BY <2>1, LeastId
    <3> QED
      BY <3>1
  <2>3. Up(m)
    BY <1>1, <1>3, <2>1 DEF Init, Up
  <2>4. \A b \in BxTaskId : bx[b].kind # "shrink"
    BY DEF Init, NoBxTask, None
  <2>5. <<b0, m>> \in RowId
    <3>1. b0 \in Key
      BY DEF Key
    <3> QED
      BY <2>1, <3>1 DEF RowId
  <2>6. instance[<<b0, m>>].status = "ALB"
    BY <1>1, <1>3, <2>1, <2>2, <2>5 DEF Init
  <2> QED
    BY <2>3, <2>4, <2>5, <2>6 DEF Fit, Unsold, AlbRow
<1> QED
  BY <1>1, <1>2, <1>3 DEF Service, AllServing, Shown

LEMMA AlwaysBalanced ==
  ASSUME Patient, NoDeploys, MountsInStep4, Stores, Heard
  PROVE  Spec => []Balanced
<1>1. Init => Balanced
  <2> SUFFICES ASSUME Init PROVE Balanced
    OBVIOUS
  <2>1. Debts /\ DeploysNone
    BY InitDebts DEF Init, NoTask, None, DeploysNone
  <2>2. OneUnfinished /\ \A t \in TaskId : task[t].status \notin Unfinished
    BY DEF Init, NoTask, None, OneUnfinished, Unfinished
  <2> QED
    BY <2>1, <2>2, InitReadiness, InitChoosing, InitService DEF Balanced, Debts
<1>2. IdsApart /\ IdsApart' /\ Barrier /\ Balanced /\ [Next]_vars => Balanced'
  BY NextBalanced
<1> QED
  BY <1>1, <1>2, AlwaysBarrier, AlwaysApart, PTL DEF Spec

(* No machine that BridgX has released is left in the server group: a shrink  *)
(* unmounts what it is about to give back, the rows it goes by name every     *)
(* machine that serves, and no callback overwrites them, if callers wait for  *)
(* the task of a cluster to end before they ask for the next one; crashes     *)
(* included, since a task that died keeps them waiting.  It is false for      *)
(* services that deploy, which replaces the rows that say ALB, and when the   *)
(* answer to a mount or the update after it is lost.                          *)
THEOREM ReleasedDoesNotServe ==
  ASSUME Patient, NoDeploys, MountsInStep4, Stores, Heard
  PROVE  Spec => []ReleasedNotServing
<1>1. IInv /\ Balanced => ReleasedNotServing
  BY DEF Balanced, Service, AllServing, Fit, Up, ReleasedNotServing
<1> QED
  BY <1>1, AlwaysBalanced, AlwaysIInv, PTL
=============================================================================
