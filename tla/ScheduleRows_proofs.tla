------------------------ MODULE ScheduleRows_proofs ---------------------------
(***************************************************************************)
(* The rows of the machines, the commands in flight and the goroutines     *)
(* that started them, whatever fails and however many tasks run at once.   *)
(*                                                                         *)
(* A step of the scheduler is looked at from four sides: what it does to a *)
(* goroutine (Move), to a row (Written), to the commands in flight         *)
(* (CommandsStart) and to what is in the cloud or waits for a task         *)
(* (MachinesStay, BxTasksStay, TasksStay).  The invariants are proved from *)
(* these views.                                                            *)
(***************************************************************************)
EXTENDS ScheduleLifecycle_proofs

-----------------------------------------------------------------------------
(* The view of a goroutine *)

\* From a call to the next one of the same instruction, with the same machines.
CallPairs ==
    {<<"store", "node_poll">>, <<"node_poll", "node_list">>, <<"mount_call", "mount_db">>,
     <<"umount_call", "umount_db">>, <<"shrink_poll", "shrink_db">>,
     <<"deploy_mark", "deploy_insert">>, <<"deploy_insert", "deploy_wait">>,
     <<"deploy_query", "deploy_wait">>}

LastCalls ==
    {"get_cluster", "mount_db", "umount_query", "umount_db", "shrink_db", "deploy_wait"}

SameKeys(t) == run'[t].key = run[t].key /\ run'[t].bx = run[t].bx

SameHands(t) == SameKeys(t) /\ run'[t].grp = run[t].grp

\* The instruction is over.
Leaves(t) ==
    /\ run'[t].err = run[t].err
    /\ IF HasRelation(t) THEN MovesTo(t, "relation", run[t].i) ELSE GoesOn(t)

Errs(t) == run[t].pc \in Active \ {"finish"} /\ MovesTo(t, "finish", run[t].i) /\ run'[t].err

\* The machines and the ids in the goroutine's hands stay the same.
PlainMove(t) ==
    /\ SameHands(t)
    /\ \/ /\ run'[t].err = run[t].err
          /\ \/ run[t].pc = "idle" /\ (MovesTo(t, "next", run[t].i) \/ MovesTo(t, "done", run[t].i))
             \/ run[t].pc = "next" /\ MovesTo(t, FirstCall(Instr(t)), run[t].i)
             \/ \E c \in CallPairs : run[t].pc = c[1] /\ MovesTo(t, c[2], run[t].i)
             \/ run[t].pc = "relation" /\ GoesOn(t)
             \/ run[t].pc = "finish" /\ MovesTo(t, "done", run[t].i)
       \/ run[t].pc \in LastCalls /\ Leaves(t)
       \/ Errs(t)

\* BridgX gives the task an id.
GetsTask(t) ==
    /\ \/ run[t].pc = "expand_call" /\ MovesTo(t, "expand_poll", run[t].i)
       \/ run[t].pc = "shrink_call" /\ MovesTo(t, "shrink_poll", run[t].i)
    /\ run'[t].bx \in NextBx /\ run'[t].key = run[t].key /\ run'[t].grp = run[t].grp
    /\ run'[t].err = run[t].err

GetsMachines(t) ==
    /\ run[t].pc = "expand_poll" /\ MovesTo(t, "get_cluster", run[t].i)
    /\ run'[t].bx = run[t].bx /\ run'[t].key = run[t].bx
    /\ run'[t].grp = TaskInstances(run[t].bx) /\ run'[t].grp # {}
    /\ run'[t].err = run[t].err

GetsNodes(t) ==
    /\ run[t].pc = "node_list" /\ Leaves(t) /\ SameKeys(t)
    /\ run'[t].grp = InstsQueryByTaskId(run[t].key, Target(Instr(t))) /\ run'[t].grp # {}

InCluster(m, sc) == m \in RunningIn(sc) \/ \E r \in RowsOfCluster(sc) : r[2] = m

GetsCluster(t) ==
    /\ \/ run[t].pc = "umount_query" /\ MovesTo(t, "umount_call", run[t].i)
       \/ run[t].pc = "shrink_pick" /\ MovesTo(t, "shrink_call", run[t].i)
       \/ run[t].pc = "deploy_instances" /\ MovesTo(t, "deploy_mark", run[t].i)
    /\ SameKeys(t) /\ run'[t].err = run[t].err
    /\ \A m \in run'[t].grp : m \in run[t].grp \/ InCluster(m, task[t].cluster)

Move(t) ==
    \/ run'[t] = run[t]
    \/ run[t].pc \in Active /\ run'[t] = [run[t] EXCEPT !.pc = "dead"]
    \/ PlainMove(t) \/ GetsTask(t) \/ GetsMachines(t) \/ GetsNodes(t) \/ GetsCluster(t)

LEMMA OthersMove ==
  ASSUME NEW t \in TaskId, Move(t), \A u \in TaskId \ {t} : run'[u] = run[u]
  PROVE  \A u \in TaskId : Move(u)
  BY DEF Move

LEMMA GotoMoves ==
  ASSUME IInv, NEW t \in TaskId, NEW pc, Goto(t, pc)
  PROVE  /\ MovesTo(t, pc, run[t].i) /\ SameHands(t) /\ run'[t].err = run[t].err
         /\ \A u \in TaskId \ {t} : run'[u] = run[u]
  BY TypeParts DEF IInv, RunsOK, RunRec, Goto, MovesTo, SameHands, SameKeys

LEMMA LeavesAfter ==
  ASSUME IInv, NEW t \in TaskId, NEW r \in RunRec, r.i = run[t].i, r.err = run[t].err, Succeed(t, r)
  PROVE  /\ Leaves(t) /\ run'[t].grp = r.grp /\ run'[t].key = r.key /\ run'[t].bx = r.bx
         /\ \A u \in TaskId \ {t} : run'[u] = run[u]
<1>1. CASE HasRelation(t)
  <2>1. run'[t] = [r EXCEPT !.pc = "relation"]
    BY <1>1, OneRun DEF Succeed
  <2> QED
    BY <1>1, <2>1, OneRun DEF Leaves, MovesTo, RunRec, Succeed
<1>2. CASE ~HasRelation(t)
  <2>1. run'[t] = Advance(t, r) /\ \A u \in TaskId \ {t} : run'[u] = run[u]
    BY <1>2, OneRun DEF Succeed
  <2>2. GoesOn(t)
    BY <2>1, AdvanceSeen
  <2>3. /\ Advance(t, r).grp = r.grp /\ Advance(t, r).key = r.key
        /\ Advance(t, r).bx = r.bx /\ Advance(t, r).err = r.err
    BY DEF Advance, RunRec
  <2> QED
    BY <1>2, <2>1, <2>2, <2>3 DEF Leaves
<1> QED
  BY <1>1, <1>2

LEMMA ErrsAfter ==
  ASSUME IInv, NEW t \in TaskId, run[t].pc \in Active \ {"finish"},
         run' = [run EXCEPT ![t].pc = "finish", ![t].err = TRUE]
  PROVE  \A u \in TaskId : Move(u)
<1>1. /\ MovesTo(t, "finish", run[t].i) /\ SameHands(t) /\ run'[t].err
      /\ \A u \in TaskId \ {t} : run'[u] = run[u]
  BY TypeParts DEF IInv, RunsOK, RunRec, MovesTo, SameHands, SameKeys
<1> QED
  BY <1>1, OthersMove DEF Move, PlainMove, Errs

LEMMA FrameMoves ==
  ASSUME IInv, NEW t \in TaskId,
         \/ BeginInstr(t) \/ BeginInstrFails(t) \/ SaveRelation(t) \/ SaveRelationFails(t)
         \/ Finish(t) \/ InstrFails(t) \/ ShrinkPickFails(t)
  PROVE  \A u \in TaskId : Move(u)
<1>1. CASE BeginInstrFails(t) \/ SaveRelationFails(t) \/ InstrFails(t) \/ ShrinkPickFails(t)
  BY <1>1, ErrsAfter DEF BeginInstrFails, SaveRelationFails, InstrFails, ShrinkPickFails, Fail,
                         At, Active, Calls
<1>2. CASE BeginInstr(t)
  BY <1>2, GotoMoves, OthersMove DEF BeginInstr, At, Move, PlainMove
<1>3. CASE Finish(t)
  BY <1>3, GotoMoves, OthersMove DEF Finish, At, Move, PlainMove
<1>4. CASE SaveRelation(t)
  <2>1. run'[t] = Advance(t, run[t]) /\ \A u \in TaskId \ {t} : run'[u] = run[u]
    BY <1>4, TypeParts DEF IInv, RunsOK, SaveRelation
  <2>2. GoesOn(t) /\ run[t].pc = "relation"
    BY <1>4, <2>1, RunFacts, AdvanceSeen DEF SaveRelation, At
  <2>3. SameHands(t) /\ run'[t].err = run[t].err
    BY <2>1, RunFacts DEF Advance, RunRec, SameHands, SameKeys
  <2> QED
    BY <2>1, <2>2, <2>3, OthersMove DEF Move, PlainMove
<1> QED
  BY <1>1, <1>2, <1>3, <1>4

LEMMA CallsMove ==
  ASSUME IInv, NEW t \in TaskId,
         \/ StoreNodes(t) \/ NodePolled(t) \/ MountCall(t) \/ UmountCall(t) \/ ShrinkPolled(t)
         \/ DeployMark(t) \/ DeployInsert(t) \/ DeployQuery(t)
         \/ ExpandCall(t) \/ ShrinkCall(t)
  PROVE  \A u \in TaskId : Move(u)
<1>1. run[t].pc \in Active \ {"finish"}
  BY DEF StoreNodes, NodePolled, MountCall, UmountCall, ShrinkPolled, DeployMark, DeployInsert,
         DeployQuery, ExpandCall, ShrinkCall, At, Active, Calls
<1>2. CASE Fail(t)
  BY <1>1, <1>2, ErrsAfter DEF Fail
<1>3. CASE \E c \in CallPairs : run[t].pc = c[1] /\ Goto(t, c[2])
  BY <1>3, GotoMoves, OthersMove DEF Move, PlainMove
<1>4. CASE \/ StoreNodes(t) \/ NodePolled(t) \/ ShrinkPolled(t)
           \/ DeployMark(t) \/ DeployInsert(t) \/ DeployQuery(t)
           \/ ((MountCall(t) \/ UmountCall(t)) /\ ~Fail(t))
  <2>1. \E c \in CallPairs : run[t].pc = c[1] /\ Goto(t, c[2])
    BY <1>4 DEF CallPairs, StoreNodes, NodePolled, ShrinkPolled, DeployMark, DeployInsert,
                DeployQuery, MountCall, UmountCall, At
  <2> QED
    BY <1>3, <2>1
<1>5. CASE (ExpandCall(t) \/ ShrinkCall(t)) /\ ~Fail(t)
  <2>1. PICK pc \in {"expand_poll", "shrink_poll"} :
          /\ \E b \in NextBx : run' = [run EXCEPT ![t].pc = pc, ![t].bx = b]
          /\ run[t].pc = IF pc = "expand_poll" THEN "expand_call" ELSE "shrink_call"
    BY <1>5 DEF ExpandCall, ShrinkCall, At
  <2>2. PICK b \in NextBx : run' = [run EXCEPT ![t].pc = pc, ![t].bx = b]
    BY <2>1
  <2>3. GetsTask(t) /\ \A u \in TaskId \ {t} : run'[u] = run[u]
    BY <2>1, <2>2, TypeParts DEF IInv, RunsOK, RunRec, GetsTask, MovesTo
  <2> QED
    BY <2>3, OthersMove DEF Move
<1> QED
  BY <1>2, <1>4, <1>5

LEMMA QueriesMove ==
  ASSUME IInv, NEW t \in TaskId, ExpandPolled(t) \/ ShrinkPick(t) \/ DeployInstances(t)
  PROVE  \A u \in TaskId : Move(u)
<1>1. run \in [TaskId -> RunRec]
  BY TypeParts DEF IInv, RunsOK
<1>2. CASE ExpandPolled(t)
  <2>1. GetsMachines(t) /\ \A u \in TaskId \ {t} : run'[u] = run[u]
    BY <1>1, <1>2 DEF ExpandPolled, At, GetsMachines, MovesTo, RunRec
  <2> QED
    BY <2>1, OthersMove DEF Move
<1>3. CASE ShrinkPick(t)
  <2> DEFINE picked == {r[2] : r \in NotDeletedInstsWithLimit(task[t].cluster, task[t].inst_cnt)}
  <2>1. \A m \in picked : InCluster(m, task[t].cluster)
    BY DEF NotDeletedInstsWithLimit, InCluster
  <2>2. run' = [run EXCEPT ![t].pc = "shrink_call", ![t].grp = IF @ # {} THEN @ ELSE picked]
    BY <1>3 DEF ShrinkPick
  <2> HIDE DEF picked
  <2>3. /\ MovesTo(t, "shrink_call", run[t].i) /\ SameKeys(t) /\ run'[t].err = run[t].err
        /\ run'[t].grp \in {run[t].grp, picked}
        /\ \A u \in TaskId \ {t} : run'[u] = run[u]
    BY <1>1, <2>2 DEF MovesTo, SameKeys, RunRec
  <2>4. GetsCluster(t)
    BY <1>3, <2>1, <2>3 DEF GetsCluster, ShrinkPick, At
  <2> QED
    BY <2>3, <2>4, OthersMove DEF Move
<1>4. CASE DeployInstances(t)
  <2> DEFINE found == RunningIn(task[t].cluster)
  <2>1. \A m \in found : InCluster(m, task[t].cluster)
    BY DEF InCluster
  <2>2. run' = [run EXCEPT ![t].pc = "deploy_mark", ![t].grp = found]
    BY <1>4 DEF DeployInstances
  <2> HIDE DEF found
  <2>3. /\ MovesTo(t, "deploy_mark", run[t].i) /\ SameKeys(t) /\ run'[t].err = run[t].err
        /\ run'[t].grp = found
        /\ \A u \in TaskId \ {t} : run'[u] = run[u]
    BY <1>1, <2>2 DEF MovesTo, SameKeys, RunRec
  <2>4. GetsCluster(t)
    BY <1>4, <2>1, <2>3 DEF GetsCluster, DeployInstances, At
  <2> QED
    BY <2>3, <2>4, OthersMove DEF Move
<1> QED
  BY <1>2, <1>3, <1>4

LEMMA EndsMove ==
  ASSUME IInv, NEW t \in TaskId,
         \/ GetCluster(t) \/ NodeListed(t) \/ MountDb(t) \/ UmountDb(t) \/ UmountQuery(t)
         \/ ShrinkDb(t) \/ DeployWaited(t)
  PROVE  \A u \in TaskId : Move(u)
<1>1. run \in [TaskId -> RunRec] /\ run[t] \in RunRec
  BY TypeParts DEF IInv, RunsOK
<1>2. /\ run[t].pc \in Active \ {"finish"}
      /\ ~NodeListed(t) => run[t].pc \in LastCalls
  BY DEF GetCluster, NodeListed, MountDb, UmountDb, UmountQuery, ShrinkDb, DeployWaited,
         At, LastCalls, Active, Calls
<1>3. CASE Succeed(t, run[t]) /\ ~NodeListed(t)
  <2>1. Leaves(t) /\ SameHands(t) /\ \A u \in TaskId \ {t} : run'[u] = run[u]
    BY <1>1, <1>3, LeavesAfter DEF SameHands, SameKeys
  <2> QED
    BY <1>2, <1>3, <2>1, OthersMove DEF Move, PlainMove
<1>4. CASE Fail(t)
  BY <1>2, <1>4, ErrsAfter DEF Fail
<1>5. CASE NodeListed(t)
  <2> DEFINE ms == InstsQueryByTaskId(run[t].key, Target(Instr(t)))
             r == [run[t] EXCEPT !.grp = ms]
  <2>1. Succeed(t, r) /\ ms # {} /\ run[t].pc = "node_list"
    BY <1>5 DEF NodeListed, At
  <2>2. ms \in SUBSET Machine
    BY QueriesType
  <2> HIDE DEF ms
  <2>3. r \in RunRec /\ r.i = run[t].i /\ r.err = run[t].err /\ r.grp = ms
        /\ r.key = run[t].key /\ r.bx = run[t].bx
    BY <1>1, <2>2 DEF RunRec
  <2> HIDE DEF r
  <2>4. /\ Leaves(t) /\ SameKeys(t) /\ run'[t].grp = ms
        /\ \A u \in TaskId \ {t} : run'[u] = run[u]
    BY <2>1, <2>3, LeavesAfter DEF SameKeys
  <2>5. GetsNodes(t)
    BY <2>1, <2>4 DEF GetsNodes, ms
  <2> QED
    BY <2>4, <2>5, OthersMove DEF Move
<1>6. CASE UmountQuery(t) /\ ~Succeed(t, run[t])
  <2>1. PICK rows \in QueryInstsToUmount(task[t].cluster, task[t].inst_cnt) :
          run' = [run EXCEPT ![t].pc = "umount_call", ![t].grp = {r[2] : r \in rows}]
    BY <1>6 DEF UmountQuery
  <2> DEFINE found == {r[2] : r \in rows}
  <2>2. \A m \in found : InCluster(m, task[t].cluster)
    BY DEF QueryInstsToUmount, RowsToUmount, InCluster
  <2>3. run' = [run EXCEPT ![t].pc = "umount_call", ![t].grp = found]
    BY <2>1
  <2> HIDE DEF found
  <2>4. /\ MovesTo(t, "umount_call", run[t].i) /\ SameKeys(t) /\ run'[t].err = run[t].err
        /\ run'[t].grp = found
        /\ \A u \in TaskId \ {t} : run'[u] = run[u]
    BY <1>1, <2>3 DEF MovesTo, SameKeys, RunRec
  <2>5. GetsCluster(t)
    BY <1>6, <2>2, <2>4 DEF GetsCluster, UmountQuery, At
  <2> QED
    BY <2>4, <2>5, OthersMove DEF Move
<1> QED
  BY <1>3, <1>4, <1>5, <1>6 DEF GetCluster, MountDb, UmountDb, ShrinkDb, DeployWaited, UmountQuery

LEMMA EveryRunMoves ==
  ASSUME IInv, [Next]_vars
  PROVE  \A u \in TaskId : Move(u)
<1>1. CASE Request
  <2>1. PICK t \in TaskId : \E kind, sc, cnt, isRollback : CreateAndRun(t, kind, sc, cnt, isRollback)
    BY <1>1 DEF Request, ExpandAction, ShrinkAction, DeployAction
  <2>2. run[t].pc = "idle" /\ (Goto(t, "next") \/ Goto(t, "done"))
    BY <2>1 DEF CreateAndRun
  <2> QED
    BY <2>2, GotoMoves, OthersMove DEF Move, PlainMove
<1>2. CASE \E t \in TaskId : RunStep(t)
  BY <1>2, FrameMoves, CallsMove, QueriesMove, EndsMove DEF RunStep
<1>3. CASE Panic \/ Crash
  <2>1. \A u \in TaskId : run'[u] = Killed(run[u])
    BY <1>3 DEF Panic, TaskPanics, PollPanics, Crash, ProcessDies
  <2> QED
    BY <2>1 DEF Killed, Move
<1>4. CASE Restart \/ Idle \/ UNCHANGED vars
  BY <1>4 DEF Restart, Idle, vars, Move
<1>5. CASE (\E g \in node : NodeStep(g)) \/ \E b \in BxTaskId : BxStep(b)
  BY <1>5 DEF NodeStep, BxStep, Move
<1> QED
  BY <1>1, <1>2, <1>3, <1>4, <1>5 DEF Next

-----------------------------------------------------------------------------
(* One goroutine moves at a time, unless all of them die. *)

MovesAlone(t) == \A u \in TaskId \ {t} : run'[u] = run[u]

LEMMA SuccessAlone ==
  ASSUME IInv, NEW t \in TaskId, NEW r, Succeed(t, r) \/ Fail(t)
  PROVE  MovesAlone(t)
  BY TypeParts DEF IInv, RunsOK, Succeed, Fail, MovesAlone

LEMMA GotoAlone ==
  ASSUME IInv, NEW t \in TaskId, NEW pc, Goto(t, pc)
  PROVE  MovesAlone(t)
  BY TypeParts DEF IInv, RunsOK, Goto, MovesAlone

LEMMA RunStepAlone ==
  ASSUME IInv, NEW t \in TaskId, RunStep(t)
  PROVE  MovesAlone(t)
<1>1. run \in [TaskId -> RunRec]
  BY TypeParts DEF IInv, RunsOK
<1>2. CASE \/ BeginInstr(t) \/ BeginInstrFails(t) \/ SaveRelation(t) \/ SaveRelationFails(t)
           \/ InstrFails(t) \/ Finish(t) \/ ShrinkPickFails(t)
  BY <1>1, <1>2, SuccessAlone, GotoAlone DEF BeginInstr, BeginInstrFails, SaveRelation,
       SaveRelationFails, InstrFails, Finish, ShrinkPickFails, MovesAlone
<1>3. CASE ExpandCall(t) \/ ExpandPolled(t) \/ ShrinkPick(t) \/ ShrinkCall(t) \/ DeployInstances(t)
  <2>1. CASE Fail(t)
    BY <2>1, SuccessAlone
  <2>2. CASE ~Fail(t)
    BY <1>1, <1>3, <2>2 DEF ExpandCall, ExpandPolled, ShrinkPick, ShrinkCall, DeployInstances,
                            MovesAlone
  <2> QED
    BY <2>1, <2>2
<1>4. CASE \/ StoreNodes(t) \/ NodePolled(t) \/ MountCall(t) \/ UmountCall(t)
           \/ ShrinkPolled(t) \/ DeployMark(t) \/ DeployInsert(t) \/ DeployQuery(t)
  BY <1>4, SuccessAlone, GotoAlone DEF StoreNodes, NodePolled, MountCall, UmountCall, ShrinkPolled,
       DeployMark, DeployInsert, DeployQuery
<1>5. CASE \/ GetCluster(t) \/ NodeListed(t) \/ MountDb(t) \/ UmountDb(t) \/ ShrinkDb(t)
           \/ DeployWaited(t)
  BY <1>5, SuccessAlone DEF GetCluster, NodeListed, MountDb, UmountDb, ShrinkDb, DeployWaited
<1>6. CASE UmountQuery(t)
  <2>1. CASE Succeed(t, run[t])
    BY <2>1, SuccessAlone
  <2>2. CASE ~Succeed(t, run[t])
    BY <1>1, <1>6, <2>2 DEF UmountQuery, MovesAlone
  <2> QED
    BY <2>1, <2>2
<1> QED
  BY <1>2, <1>3, <1>4, <1>5, <1>6 DEF RunStep

Dies == node' = {} /\ \A u \in TaskId : run'[u] = Killed(run[u])

LEMMA EveryMoveIs ==
  ASSUME IInv, [Next]_vars
  PROVE  \/ \A u \in TaskId : run'[u] = run[u]
         \/ Dies
         \/ \E t \in TaskId :
              /\ MovesAlone(t)
              /\ (run[t].pc = "idle" /\ UNCHANGED <<instance, cloudVars, envVars>>) \/ RunStep(t)
<1>1. CASE Request
  <2>1. PICK t \in TaskId : \E kind, sc, cnt, isRollback : CreateAndRun(t, kind, sc, cnt, isRollback)
    BY <1>1 DEF Request, ExpandAction, ShrinkAction, DeployAction
  <2>2. MovesAlone(t) /\ run[t].pc = "idle" /\ UNCHANGED <<instance, cloudVars, envVars>>
    BY <2>1, GotoAlone DEF CreateAndRun
  <2> QED
    BY <2>2
<1>2. CASE \E t \in TaskId : RunStep(t)
  BY <1>2, RunStepAlone
<1>3. CASE Panic \/ Crash
  BY <1>3 DEF Panic, TaskPanics, PollPanics, Crash, ProcessDies, Dies
<1>4. CASE Restart \/ Idle \/ UNCHANGED vars
  BY <1>4 DEF Restart, Idle, vars
<1>5. CASE (\E g \in node : NodeStep(g)) \/ \E b \in BxTaskId : BxStep(b)
  BY <1>5 DEF NodeStep, BxStep
<1> QED
  BY <1>1, <1>2, <1>3, <1>4, <1>5 DEF Next

-----------------------------------------------------------------------------
(* What stays: machines, BridgX tasks and what a task was asked for *)

MachinesStay ==
    \A m \in Machine : machine[m].state # None =>
        machine'[m].state # None /\ machine'[m].cluster = machine[m].cluster

BxTasksStay ==
    \A b \in BxTaskId : bx[b].kind # None =>
        bx'[b].kind # None /\ bx'[b].machines = bx[b].machines

SameTask(u) ==
    /\ task'[u].kind = task[u].kind /\ task'[u].cluster = task[u].cluster
    /\ task'[u].inst_cnt = task[u].inst_cnt

TasksStay == \A u \in TaskId : run[u].pc # "idle" => SameTask(u)

LEMMA SameCloudStays == ASSUME UNCHANGED <<bx, machine>> PROVE MachinesStay /\ BxTasksStay
  BY DEF MachinesStay, BxTasksStay

\* Only two calls reach BridgX.
LEMMA CloudKept ==
  ASSUME NEW t \in TaskId, RunStep(t), ~ExpandCall(t), ~ShrinkCall(t)
  PROVE  UNCHANGED <<bx, machine>>
<1>1. CASE \/ BeginInstr(t) \/ BeginInstrFails(t) \/ SaveRelation(t) \/ SaveRelationFails(t)
           \/ InstrFails(t) \/ Finish(t) \/ ShrinkPickFails(t)
  BY <1>1 DEF BeginInstr, BeginInstrFails, SaveRelation, SaveRelationFails, InstrFails, Finish,
              ShrinkPickFails, cloudVars
<1>2. CASE \/ ExpandPolled(t) \/ ShrinkPick(t) \/ DeployInstances(t) \/ StoreNodes(t) \/ NodePolled(t)
           \/ MountCall(t) \/ UmountCall(t) \/ ShrinkPolled(t) \/ DeployMark(t) \/ DeployInsert(t)
           \/ DeployQuery(t)
  BY <1>2 DEF ExpandPolled, ShrinkPick, DeployInstances, StoreNodes, NodePolled, MountCall, UmountCall,
              ShrinkPolled, DeployMark, DeployInsert, DeployQuery, cloudVars
<1>3. CASE \/ GetCluster(t) \/ NodeListed(t) \/ MountDb(t) \/ UmountDb(t) \/ ShrinkDb(t)
           \/ DeployWaited(t) \/ UmountQuery(t)
  BY <1>3 DEF GetCluster, NodeListed, MountDb, UmountDb, ShrinkDb, DeployWaited, UmountQuery, cloudVars
<1> QED
  BY <1>1, <1>2, <1>3 DEF RunStep

LEMMA CloudStays ==
  ASSUME IInv, [Next]_vars
  PROVE  MachinesStay /\ BxTasksStay
<1>1. CloudTypeOK
  BY TypeParts DEF IInv
<1>2. CASE \E t \in TaskId : ExpandCall(t)
  <2>1. PICK t \in TaskId, b \in NextBx, ms \in SUBSET FreeMachines : BxExpand(b, task[t].cluster, ms)
    BY <1>2 DEF ExpandCall
  <2>2. MachinesStay
    BY <1>1, <2>1 DEF BxExpand, MachinesStay, CloudTypeOK, FreeMachines
  <2>3. BxTasksStay
    BY <1>1, <2>1 DEF BxExpand, BxTasksStay, CloudTypeOK, NextBx
  <2> QED
    BY <2>2, <2>3
<1>3. CASE \E t \in TaskId : ShrinkCall(t)
  <2>1. PICK t \in TaskId, b \in NextBx : BxShrink(b, run[t].grp)
    BY <1>3 DEF ShrinkCall
  <2> QED
    BY <1>1, <2>1 DEF BxShrink, MachinesStay, BxTasksStay, CloudTypeOK, NextBx
<1>4. CASE \E b \in BxTaskId : BxStep(b)
  <2>1. PICK b \in BxTaskId : \E ms : BxFinish(b, ms)
    BY <1>4 DEF BxStep
  <2>2. PICK ms : BxFinish(b, ms)
    BY <2>1
  <2>3. MachinesStay
    BY <1>1, <2>2 DEF BxFinish, MachinesStay, CloudTypeOK, None
  <2>4. BxTasksStay
    BY <1>1, <2>2 DEF BxFinish, BxTasksStay, CloudTypeOK
  <2> QED
    BY <2>3, <2>4
<1>5. CASE \/ Request \/ Panic \/ Crash \/ Restart \/ Idle \/ UNCHANGED vars
           \/ \E g \in node : NodeStep(g)
  <2>1. UNCHANGED <<bx, machine>>
    BY <1>5 DEF Request, ExpandAction, ShrinkAction, DeployAction, CreateAndRun, Panic, TaskPanics,
         PollPanics, Crash, ProcessDies, Restart, Idle, vars, NodeStep, cloudVars
  <2> QED
    BY <2>1, SameCloudStays
<1> QED
  BY <1>2, <1>3, <1>4, <1>5, CloudKept, SameCloudStays DEF Next

LEMMA StepKeepsTasks ==
  ASSUME IInv, NEW t \in TaskId, NEW phase, WriteStep(t, phase) \/ UNCHANGED task
  PROVE  \A u \in TaskId : SameTask(u)
<1>1. task \in [TaskId -> TaskRow]
  BY TypeParts DEF IInv, TasksOK
<1> QED
  BY <1>1 DEF WriteStep, UpdateTaskStep, TaskRow, SameTask

LEMMA RunStepKeepsTasks ==
  ASSUME IInv, NEW t \in TaskId, RunStep(t)
  PROVE  \A u \in TaskId : SameTask(u)
<1>1. task \in [TaskId -> TaskRow]
  BY TypeParts DEF IInv, TasksOK
<1>2. CASE SaveRelation(t) \/ Finish(t)
  BY <1>1, <1>2 DEF SaveRelation, Finish, UpdateTaskStatus, UpdateTaskRelationTaskId, TaskRow, SameTask
<1>3. CASE Fail(t) \/ \E r : Succeed(t, r)
  BY <1>3, StepKeepsTasks DEF Fail, Succeed
<1>4. CASE BeginInstr(t) \/ ShrinkPickFails(t)
  BY <1>4, StepKeepsTasks DEF BeginInstr, ShrinkPickFails
<1>5. CASE \/ BeginInstrFails(t) \/ SaveRelationFails(t) \/ ExpandPolled(t) \/ ShrinkPick(t)
           \/ DeployInstances(t) \/ StoreNodes(t) \/ NodePolled(t) \/ ShrinkPolled(t) \/ DeployMark(t)
           \/ DeployInsert(t) \/ DeployQuery(t)
  <2>1. UNCHANGED task
    BY <1>5 DEF BeginInstrFails, SaveRelationFails, ExpandPolled, ShrinkPick, DeployInstances, StoreNodes,
                NodePolled, ShrinkPolled, DeployMark, DeployInsert, DeployQuery
  <2> QED
    BY <2>1 DEF SameTask
<1>6. CASE (ExpandCall(t) \/ ShrinkCall(t) \/ MountCall(t) \/ UmountCall(t)) /\ ~Fail(t)
  BY <1>6 DEF ExpandCall, ShrinkCall, MountCall, UmountCall, SameTask
<1>7. CASE \/ GetCluster(t) \/ NodeListed(t) \/ MountDb(t) \/ UmountDb(t) \/ ShrinkDb(t)
           \/ DeployWaited(t) \/ InstrFails(t)
  BY <1>7, <1>3 DEF GetCluster, NodeListed, MountDb, UmountDb, ShrinkDb, DeployWaited, InstrFails
<1>8. CASE UmountQuery(t) /\ ~Succeed(t, run[t])
  BY <1>8 DEF UmountQuery, SameTask
<1> QED
  BY <1>2, <1>3, <1>4, <1>5, <1>6, <1>7, <1>8 DEF RunStep

LEMMA EveryTaskStays ==
  ASSUME IInv, [Next]_vars
  PROVE  TasksStay
<1>1. task \in [TaskId -> TaskRow]
  BY TypeParts DEF IInv, TasksOK
<1>2. CASE Request
  <2>1. PICK t \in TaskId : \E kind, sc, cnt, isRollback : CreateAndRun(t, kind, sc, cnt, isRollback)
    BY <1>2 DEF Request, ExpandAction, ShrinkAction, DeployAction
  <2>2. run[t].pc = "idle" /\ \A u \in TaskId \ {t} : task'[u] = task[u]
    BY <1>1, <2>1 DEF CreateAndRun, CreateTask, UpdateTaskStatus
  <2> QED
    BY <2>2 DEF TasksStay, SameTask
<1>3. CASE Panic
  <2>1. CASE UNCHANGED task
    BY <2>1 DEF TasksStay, SameTask
  <2>2. ASSUME NEW t \in TaskId, TaskPanics(t) PROVE \A u \in TaskId : SameTask(u)
    <3>1. PICK stepped \in Outcomes("db"), stored \in Outcomes("db") :
            LET done == IF stepped /\ run[t].pc = "node_list"
                        THEN UpdateTaskStep(task, t, InstrStep(t, "SUCC")) ELSE task
            IN  task' = IF stored THEN UpdateTaskStatus(done, t, "SUCC") ELSE done
      BY <2>2 DEF TaskPanics
    <3> QED
      BY <1>1, <3>1 DEF UpdateTaskStep, UpdateTaskStatus, TaskRow, SameTask
  <2> QED
    BY <1>3, <2>1, <2>2 DEF Panic, PollPanics, TasksStay
<1>4. CASE \/ Crash \/ Restart \/ Idle \/ UNCHANGED vars
           \/ (\E g \in node : NodeStep(g)) \/ (\E b \in BxTaskId : BxStep(b))
  <2>1. UNCHANGED task
    BY <1>4 DEF Crash, Restart, Idle, vars, NodeStep, NodeReturns, BxStep
  <2> QED
    BY <2>1 DEF TasksStay, SameTask
<1> QED
  BY <1>2, <1>3, <1>4, RunStepKeepsTasks DEF Next, TasksStay

-----------------------------------------------------------------------------
(* The view of a row: who writes it, and what *)

Updated(r, status) == Exists(r) /\ instance'[r] = [instance[r] EXCEPT !.status = status]

\* A row that NodeUpdateStore or BatchCreate adds.
Added(r) ==
    \E t \in TaskId :
        /\ r[2] \in run[t].grp /\ ~Exists(r)
        /\ \/ StoreNodes(t) /\ r[1] = run[t].key /\ instance'[r] = NewRow(StoredCluster(t))
           \/ DeployInsert(t) /\ r[1] = t /\ instance'[r] = NewRow(task[t].cluster)

Written(r) ==
    \/ instance'[r] = instance[r]
    \/ Added(r)
    \/ Updated(r, "DELETED")
    \/ /\ Updated(r, "ALB")
       /\ \E t \in TaskId : run[t].pc = "mount_db" /\ r[1] = run[t].key /\ run[t].key # 0
    \/ \E g \in node : /\ node' = node \ {g} /\ UNCHANGED run
                       /\ r = <<g.key, g.inst>>
                       /\ \E status \in {g.target, "FAIL"} : Updated(r, status)

LEMMA RowsWrittenByRun ==
  ASSUME IInv, NEW t \in TaskId,
         \/ StoreNodes(t) \/ DeployInsert(t) \/ DeployMark(t)
         \/ MountDb(t) \/ UmountDb(t) \/ ShrinkDb(t)
  PROVE  \A r \in RowId : Written(r)
<1> SUFFICES ASSUME NEW r \in RowId PROVE Written(r)
  OBVIOUS
<1>1. r = <<r[1], r[2]>> /\ r[1] \in Key /\ r[2] \in Machine
  BY DEF RowId
<1>2. 0 \notin Key
  BY IdAssumption DEF Key
<1>3. CASE StoreNodes(t)
  <2>1. instance'[r] = IF r[1] = run[t].key /\ r[2] \in run[t].grp /\ ~Exists(r)
                       THEN NewRow(StoredCluster(t)) ELSE instance[r]
    BY <1>3 DEF StoreNodes, UpInsertInstanceBatch
  <2> QED
    BY <1>3, <2>1 DEF Written, Added
<1>4. CASE DeployInsert(t)
  <2>1. instance'[r] = IF r[1] = t /\ r[2] \in run[t].grp
                       THEN NewRow(task[t].cluster) ELSE instance[r]
    BY <1>4 DEF DeployInsert, BatchCreate
  <2>2. r[1] = t /\ r[2] \in run[t].grp => ~Exists(r)
    BY <1>1, <1>4 DEF DeployInsert, CanBatchCreate
  <2> QED
    BY <1>4, <2>1, <2>2 DEF Written, Added
<1>5. CASE DeployMark(t) \/ ShrinkDb(t)
  BY <1>5 DEF DeployMark, ShrinkDb, MarkClusterDeleted, BatchUpdateStatusByIds, Written, Updated
<1>6. CASE MountDb(t)
  <2>1. instance'[r] = IF r[1] = run[t].key /\ r[2] \in run[t].grp /\ Exists(r)
                       THEN [instance[r] EXCEPT !.status = "ALB"] ELSE instance[r]
    BY <1>6 DEF MountDb, BatchUpdateStatus
  <2> QED
    BY <1>1, <1>2, <1>6, <2>1 DEF Written, Updated, MountDb, At
<1>7. CASE UmountDb(t)
  BY <1>1, <1>2, <1>7 DEF UmountDb, BatchUpdateStatus, UmountTaskId, Written
<1> QED
  BY <1>3, <1>4, <1>5, <1>6, <1>7

LEMMA RowsKeptByRun ==
  ASSUME NEW t \in TaskId, RunStep(t),
         ~StoreNodes(t), ~DeployInsert(t), ~DeployMark(t), ~MountDb(t), ~UmountDb(t), ~ShrinkDb(t)
  PROVE  UNCHANGED instance
<1>1. CASE \/ BeginInstr(t) \/ BeginInstrFails(t) \/ SaveRelation(t) \/ SaveRelationFails(t)
           \/ InstrFails(t) \/ Finish(t) \/ ShrinkPickFails(t)
  BY <1>1 DEF BeginInstr, BeginInstrFails, SaveRelation, SaveRelationFails, InstrFails, Finish,
              ShrinkPickFails
<1>2. CASE \/ ExpandCall(t) \/ ExpandPolled(t) \/ ShrinkPick(t) \/ ShrinkCall(t) \/ DeployInstances(t)
           \/ NodePolled(t) \/ MountCall(t) \/ UmountCall(t) \/ ShrinkPolled(t) \/ DeployQuery(t)
  BY <1>2 DEF ExpandCall, ExpandPolled, ShrinkPick, ShrinkCall, DeployInstances, NodePolled, MountCall,
              UmountCall, ShrinkPolled, DeployQuery
<1>3. CASE GetCluster(t) \/ NodeListed(t) \/ DeployWaited(t) \/ UmountQuery(t)
  BY <1>3 DEF GetCluster, NodeListed, DeployWaited, UmountQuery
<1> QED
  BY <1>1, <1>2, <1>3 DEF RunStep

LEMMA EveryRowWritten ==
  ASSUME IInv, [Next]_vars
  PROVE  \A r \in RowId : Written(r)
<1>1. CASE UNCHANGED instance
  BY <1>1 DEF Written
<1>2. CASE Request \/ Panic \/ Crash \/ Restart \/ Idle \/ UNCHANGED vars \/ \E b \in BxTaskId : BxStep(b)
  <2>1. UNCHANGED instance
    BY <1>2 DEF Request, ExpandAction, ShrinkAction, DeployAction, CreateAndRun, Panic, TaskPanics,
         PollPanics, Crash, ProcessDies, Restart, Idle, vars, BxStep
  <2> QED
    BY <1>1, <2>1
<1>3. ASSUME NEW g \in node, NodeStep(g) PROVE \A r \in RowId : Written(r)
  <2>1. PICK ok \in Outcomes("ssh"), stored \in Outcomes("db") :
          instance' = IF stored THEN UpdateInst(g.key, g.inst, Reported(g, ok)) ELSE instance
    BY <1>3 DEF NodeStep, NodeReturns
  <2>2. node' = node \ {g} /\ UNCHANGED run
    BY <1>3 DEF NodeStep, NodeReturns
  <2>3. Reported(g, ok) \in {g.target, "FAIL"}
    BY DEF Reported
  <2>4. CASE instance' = instance
    BY <2>4 DEF Written
  <2>5. CASE instance' = UpdateInst(g.key, g.inst, Reported(g, ok))
    <3> TAKE r \in RowId
    <3>1. \/ instance'[r] = instance[r]
          \/ r = <<g.key, g.inst>> /\ Updated(r, Reported(g, ok))
      BY <2>5 DEF UpdateInst, Updated
    <3> QED
      BY <2>2, <2>3, <3>1 DEF Written
  <2> QED
    BY <2>1, <2>4, <2>5
<1> QED
  BY <1>1, <1>2, <1>3, RowsWrittenByRun, RowsKeptByRun DEF Next

\* Rows stay, with their cluster.
RowsStay ==
    \A r \in RowId : Exists(r) => Exists(r)' /\ instance'[r].cluster = instance[r].cluster

LEMMA EveryRowStays ==
  ASSUME IInv, \A r \in RowId : Written(r)
  PROVE  RowsStay
<1>1. \A r \in RowId : instance[r] \in InstanceRow
  BY TypeParts DEF IInv, RowsOK
<1>2. \A g \in node : g.target \in Targets
  BY TypeParts DEF IInv, EnvTypeOK, Goroutine
<1>3. \A r \in RowId : \A status : Updated(r, status) /\ status # None =>
        Exists(r)' /\ instance'[r].cluster = instance[r].cluster
  BY <1>1 DEF Updated, Exists, InstanceRow
<1> QED
  BY <1>2, <1>3 DEF Written, Added, RowsStay, Exists, None, Targets

-----------------------------------------------------------------------------
(* The commands in flight *)

Starts == \E t \in TaskId : StoreNodes(t) \/ DeployInsert(t) \/ DeployQuery(t)

LEMMA CommandsStart ==
  ASSUME [Next]_vars
  PROVE  node' \subseteq node \/ Starts
<1>1. CASE UNCHANGED node
  BY <1>1
<1>2. CASE \/ Request \/ Panic \/ Crash \/ Restart \/ Idle \/ UNCHANGED vars
           \/ (\E b \in BxTaskId : BxStep(b)) \/ \E g \in node : NodeStep(g)
  BY <1>2 DEF Request, ExpandAction, ShrinkAction, DeployAction, CreateAndRun, Panic, TaskPanics,
       PollPanics, Crash, ProcessDies, Restart, Idle, vars, BxStep, NodeStep, NodeReturns, envVars
<1>3. ASSUME NEW t \in TaskId, RunStep(t), ~Starts PROVE UNCHANGED node
  <2>1. CASE \/ BeginInstr(t) \/ BeginInstrFails(t) \/ SaveRelation(t) \/ SaveRelationFails(t)
             \/ InstrFails(t) \/ Finish(t) \/ ShrinkPickFails(t)
    BY <2>1 DEF BeginInstr, BeginInstrFails, SaveRelation, SaveRelationFails, InstrFails, Finish,
                ShrinkPickFails, envVars
  <2>2. CASE \/ ExpandCall(t) \/ ExpandPolled(t) \/ ShrinkPick(t) \/ ShrinkCall(t) \/ DeployInstances(t)
             \/ NodePolled(t) \/ MountCall(t) \/ UmountCall(t) \/ ShrinkPolled(t) \/ DeployMark(t)
    BY <2>2 DEF ExpandCall, ExpandPolled, ShrinkPick, ShrinkCall, DeployInstances, NodePolled, MountCall,
                UmountCall, ShrinkPolled, DeployMark, envVars
  <2>3. CASE \/ GetCluster(t) \/ NodeListed(t) \/ DeployWaited(t) \/ UmountQuery(t)
             \/ MountDb(t) \/ UmountDb(t) \/ ShrinkDb(t)
    BY <2>3 DEF GetCluster, NodeListed, DeployWaited, UmountQuery, MountDb, UmountDb, ShrinkDb, envVars
  <2> QED
    BY <1>3, <2>1, <2>2, <2>3 DEF RunStep, Starts
<1> QED
  BY <1>2, <1>3 DEF Next

-----------------------------------------------------------------------------
(* What a goroutine that initialises nodes has in its hands *)

(* An expand that has its machines keeps some, and those it waits for have    *)
(* rows of its task.                                                          *)
InHand(r, kind) ==
    (kind = "Expand" /\ (r.i > 1 \/ r.pc \in {"get_cluster", "relation"})) => r.grp # {}

Handed(t) ==
    /\ InHand(run[t], task[t].kind)
    /\ run[t].pc = "node_poll" => run[t].grp \subseteq InstsOfTask(run[t].key)

(* The callback of a command writes a row of the task that sent it, or of its *)
(* BridgX task, which stays the same once commands were sent.                 *)
Addressed(g) ==
    /\ g.key \in {g.task, run[g.task].key}
    /\ run[g.task].pc # "idle"
    /\ task[g.task].kind = "Expand" => run[g.task].i > 1

Handy == (\A t \in TaskId : Handed(t)) /\ \A g \in node : Addressed(g)

LEMMA InitHandy == Init => Handy
  BY DEF Init, Handy, Handed, InHand, NewRun

\* What follows for an instruction of an expand.
LEMMA ExpandCalls ==
  ASSUME IInv, NEW t \in TaskId, task[t].kind = "Expand"
  PROVE  LET pc == run[t].pc
             i  == run[t].i
         IN  /\ i \in 1..4
             /\ i = 1 => Instr(t) = "bridgx.expand"
             /\ i = 2 => Instr(t) = "nodeact.initbase"
             /\ i = 3 => Instr(t) = "nodeact.initsvc"
             /\ i = 4 => Instr(t) = "mount.slb"
             /\ pc \in Calls => /\ i = 1 => pc \in {"expand_call", "expand_poll", "get_cluster"}
                                /\ i \in {2, 3} => pc \in {"store", "node_poll", "node_list"}
                                /\ i = 4 => pc \in {"mount_call", "mount_db"}
<1>1. run[t].i \in 1..4 /\ run[t].i <= GroupLen("Expand")
  BY RunFacts, TemplateAssumption DEF Consistent, RunRec, GroupLen, MaxInstr
<1>2. Instr(t) = ExpandStep[run[t].i]
  BY DEF Instr, InstrAt
<1>3. run[t].pc \in Calls => run[t].pc \in CallsOf(Instr(t))
  BY RunFacts DEF Consistent, Instr
<1> QED
  BY <1>1, <1>2, <1>3 DEF ExpandStep, CallsOf

LEMMA ExpandHasRelation ==
  ASSUME NEW t \in TaskId
  PROVE  /\ Instr(t) \in {"bridgx.expand", "nodeact.initbase"} <=> HasRelation(t)
         /\ HasRelation(t) => task[t].kind = "Expand" \/ run[t].i \notin 1..MaxInstr
  BY RelationIsExpand DEF HasRelation, Instr

LEMMA InHandStays ==
  ASSUME IInv, TasksStay, NEW t \in TaskId, InHand(run[t], task[t].kind), Move(t)
  PROVE  InHand(run'[t], task'[t].kind)
<1>1. run[t] \in RunRec /\ Consistent(run[t], task[t].kind)
  BY RunFacts
<1>2. CASE run[t].pc = "idle"
  <2>1. run[t].i = 1 /\ run[t].pc \notin Active
    BY <1>1, <1>2 DEF Consistent, Active, Calls
  <2>2. run'[t].i = 1 /\ run'[t].pc \in {"idle", "next", "done"}
    BY <1>2, <2>1 DEF Move, PlainMove, GetsTask, GetsMachines, GetsNodes, GetsCluster, MovesTo, Errs,
                      LastCalls, CallPairs
  <2> QED
    BY <2>2 DEF InHand
<1>3. CASE run[t].pc # "idle"
  <2>1. SameTask(t)
    BY <1>3 DEF TasksStay
  <2> SUFFICES ASSUME task[t].kind = "Expand"
               PROVE  InHand(run'[t], "Expand")
    BY <2>1 DEF InHand, SameTask
  <2>2. /\ run[t].i \in 1..4
        /\ run[t].pc \in Calls => /\ run[t].i = 1 => run[t].pc \in {"expand_call", "expand_poll", "get_cluster"}
                                  /\ run[t].i \in {2, 3} => run[t].pc \in {"store", "node_poll", "node_list"}
                                  /\ run[t].i = 4 => run[t].pc \in {"mount_call", "mount_db"}
        /\ run[t].i = 1 => HasRelation(t)
    BY ExpandCalls, ExpandHasRelation
  <2>3. CASE run'[t] = run[t] \/ run'[t] = [run[t] EXCEPT !.pc = "dead"]
    BY <1>1, <2>3 DEF InHand, RunRec
  <2>4. CASE GetsTask(t) \/ GetsMachines(t) \/ GetsNodes(t)
    BY <1>1, <2>2, <2>4 DEF InHand, GetsTask, GetsMachines, GetsNodes, MovesTo, Calls
  <2>5. CASE GetsCluster(t)
    BY <2>2, <2>5 DEF GetsCluster, Calls
  <2>6. CASE PlainMove(t)
    <3>1. InHand(run[t], "Expand") /\ run'[t].grp = run[t].grp
      BY <2>6 DEF PlainMove, SameHands
    <3>2. \/ run'[t].i = run[t].i /\ run'[t].pc \notin {"get_cluster", "relation"}
          \/ run[t].pc \in {"get_cluster", "relation"} \/ run[t].i > 1
      BY <2>2, <2>6, <1>3, FirstCallOfInstr, InstrType
         DEF PlainMove, CallPairs, LastCalls, Leaves, Errs, GoesOn, MovesTo, Calls
    <3> QED
      BY <1>1, <3>1, <3>2 DEF InHand, RunRec
  <2> QED
    BY <2>3, <2>4, <2>5, <2>6 DEF Move
<1> QED
  BY <1>2, <1>3

\* Only NodeUpdateStore is followed by a poll.
LEMMA PollFollowsStore ==
  ASSUME IInv, [Next]_vars, NEW t \in TaskId, run'[t].pc = "node_poll"
  PROVE  run'[t] = run[t] \/ StoreNodes(t)
<1>1. CASE run'[t] = Killed(run[t])
  BY <1>1, RunFacts DEF Killed, RunRec
<1>0. Move(t) /\ run[t] \in RunRec
  BY EveryRunMoves, RunFacts
<1>2. CASE run[t].pc = "idle"
  <2>1. run[t].pc \notin Active
    BY <1>2 DEF Active, Calls
  <2> QED
    BY <1>0, <1>2, <2>1
       DEF Move, PlainMove, GetsTask, GetsMachines, GetsNodes, GetsCluster, MovesTo, Errs,
           LastCalls, CallPairs
<1>3. CASE RunStep(t)
  <2>1. run[t].pc = "store" \/ run'[t] = run[t]
    <3>1. FirstCall(Instr(t)) # "node_poll"
      BY DEF FirstCall
    <3>2. run'[t] # [run[t] EXCEPT !.pc = "dead"]
      BY <1>0 DEF RunRec
    <3>3. ~Leaves(t) /\ ~GoesOn(t) /\ ~Errs(t)
      BY DEF Leaves, GoesOn, Errs, MovesTo
    <3> QED
      BY <1>0, <3>1, <3>2, <3>3
       DEF Move, PlainMove, GetsTask, GetsMachines, GetsNodes, GetsCluster, MovesTo, CallPairs
  <2>2. CASE run[t].pc = "store"
    <3>1. StoreNodes(t) \/ InstrFails(t)
      BY <1>3, <2>2
         DEF RunStep, At, BeginInstr, BeginInstrFails, SaveRelation, SaveRelationFails, ExpandCall,
             ExpandPolled, GetCluster, NodePolled, NodeListed, MountCall, MountDb, UmountQuery, UmountCall,
             UmountDb, ShrinkPick, ShrinkPickFails, ShrinkCall, ShrinkPolled, ShrinkDb, DeployInstances,
             DeployMark, DeployInsert, DeployQuery, DeployWaited, Finish
    <3>2. InstrFails(t) => run'[t].pc = "finish"
      BY TypeParts DEF IInv, RunsOK, RunRec, InstrFails, Fail
    <3> QED
      BY <3>1, <3>2
  <2> QED
    BY <2>1, <2>2
<1> QED
  BY <1>1, <1>2, <1>3, EveryMoveIs DEF Dies, MovesAlone

LEMMA InstsStay == ASSUME RowsStay PROVE \A k : InstsOfTask(k) \subseteq InstsOfTask(k)'
  BY DEF RowsStay, InstsOfTask

\* NodeUpdateStore runs in an expand that has its BridgX task and some machines.
LEMMA StoreFacts ==
  ASSUME IInv, NEW t \in TaskId, StoreNodes(t)
  PROVE  /\ run[t].pc = "store" /\ task[t].kind = "Expand" /\ run[t].i \in {2, 3}
         /\ run[t].key \in BxTaskId /\ run[t].key # 0
         /\ run'[t] = [run[t] EXCEPT !.pc = "node_poll"] /\ MovesAlone(t)
         /\ run[t].grp \subseteq Machine
         /\ run[t].grp \subseteq InstsOfTask(run[t].key)'
<1>1. run[t].pc = "store" /\ run[t] \in RunRec /\ Consistent(run[t], task[t].kind)
  BY RunFacts DEF StoreNodes, At
<1>2. task[t].kind = "Expand" /\ run[t].i > 1
  BY <1>1, PcInstr, InitNodesIsExpand DEF Consistent, Instr, RunRec
<1>3. run[t].i \in {2, 3}
  BY <1>1, <1>2, ExpandCalls DEF Calls
<1>4. run[t].key \in BxTaskId /\ run[t].key # 0
  BY <1>1, <1>2, IdAssumption DEF Consistent
<1>5. run'[t] = [run[t] EXCEPT !.pc = "node_poll"] /\ MovesAlone(t)
  BY TypeParts DEF IInv, RunsOK, RunRec, StoreNodes, Goto, MovesAlone
<1>6. \A m \in run[t].grp : Exists(<<run[t].key, m>>)' /\ <<run[t].key, m>> \in RowId
  <2> TAKE m \in run[t].grp
  <2> DEFINE r == <<run[t].key, m>>
  <2>1. r \in RowId /\ r[1] = run[t].key /\ r[2] = m
    BY <1>1, <1>4 DEF RowId, Key, RunRec
  <2>2. instance'[r] = IF ~Exists(r) THEN NewRow(StoredCluster(t)) ELSE instance[r]
    BY <2>1 DEF StoreNodes, UpInsertInstanceBatch
  <2>3. instance'[r].status # None
    BY <2>2 DEF Exists, NewRow, None
  <2>4. run'[t].key = run[t].key
    BY <1>1, <1>5 DEF RunRec
  <2> QED
    BY <2>1, <2>3, <2>4 DEF Exists
<1> QED
  BY <1>1, <1>2, <1>3, <1>4, <1>5, <1>6 DEF InstsOfTask, RunRec

LEMMA HandedStays ==
  ASSUME IInv, [Next]_vars, RowsStay, TasksStay, NEW t \in TaskId, Handed(t)
  PROVE  Handed(t)'
<1>1. InHand(run[t], task[t].kind)'
  BY EveryRunMoves, InHandStays DEF Handed, InHand
<1>2. ASSUME run'[t].pc = "node_poll" PROVE run'[t].grp \subseteq InstsOfTask(run[t].key)'
  <2>1. CASE run'[t] = run[t]
    <3>1. run[t].grp \subseteq InstsOfTask(run[t].key)
      BY <1>2, <2>1 DEF Handed
    <3>2. InstsOfTask(run[t].key) \subseteq InstsOfTask(run[t].key)'
      BY <2>1 DEF RowsStay, InstsOfTask
    <3> QED
      BY <2>1, <3>1, <3>2
  <2>2. CASE StoreNodes(t)
    <3>1. run'[t].grp = run[t].grp /\ run[t].grp \subseteq InstsOfTask(run[t].key)'
      BY <2>2, StoreFacts, RunFacts DEF RunRec
    <3> QED
      BY <3>1
  <2> QED
    BY <1>2, <2>1, <2>2, PollFollowsStore
<1> QED
  BY <1>1, <1>2 DEF Handed

\* Once a goroutine may have sent commands, the key of its BridgX task stays.
LEMMA KeyStays ==
  ASSUME IInv, TasksStay, NEW t \in TaskId, Move(t), run[t].pc # "idle",
         task[t].kind = "Expand" => run[t].i > 1
  PROVE  /\ run'[t].pc # "idle" /\ run'[t].key = run[t].key /\ SameTask(t)
         /\ task[t].kind = "Expand" => run'[t].i > 1
<1>1. run[t] \in RunRec /\ SameTask(t)
  BY RunFacts DEF TasksStay
<1>2. run[t].pc \notin {"expand_call", "expand_poll"}
  <2>1. ASSUME run[t].pc \in {"expand_call", "expand_poll"} PROVE FALSE
    <3>1. Instr(t) = "bridgx.expand" /\ run[t].i \in 1..MaxInstr
      BY <1>1, <2>1, PcInstr DEF RunRec
    <3>2. task[t].kind = "Expand"
      BY <3>1, RelationIsExpand DEF Instr
    <3>3. run[t].i \in 2..4
      BY <3>2, ExpandCalls
    <3> QED
      BY <2>1, <3>2, <3>3, ExpandCalls DEF Calls
  <2> QED
    BY <2>1
<1>3. CASE run'[t] = run[t] \/ run'[t] = [run[t] EXCEPT !.pc = "dead"]
  BY <1>1, <1>3 DEF RunRec
<1>4. CASE GetsTask(t) \/ GetsMachines(t) \/ GetsNodes(t) \/ GetsCluster(t) \/ PlainMove(t)
  <2>1. run'[t].key = run[t].key
    BY <1>2, <1>4 DEF GetsTask, GetsMachines, GetsNodes, GetsCluster, PlainMove, SameHands, SameKeys
  <2>2. FirstCall(Instr(t)) # "idle"
    BY DEF FirstCall
  <2>3. run'[t].pc # "idle" /\ (run'[t].i = run[t].i \/ run'[t].i = run[t].i + 1)
    BY <1>4, <2>2 DEF GetsTask, GetsMachines, GetsNodes, GetsCluster, PlainMove, Leaves, GoesOn, Errs,
                      MovesTo, CallPairs
  <2> QED
    BY <1>1, <2>1, <2>3 DEF RunRec
<1> QED
  BY <1>3, <1>4 DEF Move

\* The commands of one instruction.
CommandsOf(t, k, ms) == {[task |-> t, key |-> k, inst |-> m, target |-> Target(Instr(t))] : m \in ms}

LEMMA DeployFacts ==
  ASSUME IInv, NEW t \in TaskId, DeployInsert(t) \/ DeployQuery(t)
  PROVE  /\ run[t].pc \in {"deploy_insert", "deploy_query"} /\ task[t].kind \notin {"Expand", "Shrink"}
         /\ run'[t] = [run[t] EXCEPT !.pc = "deploy_wait"] /\ MovesAlone(t)
<1>1. run[t].pc \in {"deploy_insert", "deploy_query"} /\ run[t] \in RunRec
      /\ Consistent(run[t], task[t].kind)
  BY RunFacts DEF DeployInsert, DeployQuery, At
<1>2. Instr(t) \in DeployActions
  BY <1>1, PcInstr DEF DeployActions
<1>3. task[t].kind # "Expand"
  BY <1>2, ExpandCalls DEF DeployActions
<1>4. task[t].kind # "Shrink"
  BY <1>2 DEF DeployActions, Instr, InstrAt
<1>5. run'[t] = [run[t] EXCEPT !.pc = "deploy_wait"] /\ MovesAlone(t)
  BY TypeParts DEF IInv, RunsOK, RunRec, DeployInsert, DeployQuery, Goto, MovesAlone
<1> QED
  BY <1>1, <1>3, <1>4, <1>5

LEMMA NewCommands ==
  ASSUME NEW t \in TaskId, StoreNodes(t) \/ DeployInsert(t) \/ DeployQuery(t)
  PROVE  /\ StoreNodes(t) => node' = node \cup CommandsOf(t, run[t].key, run[t].grp)
         /\ DeployInsert(t) => node' = node \cup CommandsOf(t, t, run[t].grp)
         /\ DeployQuery(t) =>
               node' = node \cup CommandsOf(t, t, InstsQueryByTaskId(t, Previous(Instr(t))))
  BY DEF StoreNodes, DeployInsert, DeployQuery, Spawn, CommandsOf

LEMMA AddressedStays ==
  ASSUME IInv, [Next]_vars, TasksStay, NEW g \in node', g \in node => Addressed(g)
  PROVE  Addressed(g)'
<1>1. \A h \in node : h.task \in TaskId
  BY TypeParts DEF IInv, EnvTypeOK, Goroutine
<1>2. CASE g \in node
  <2>1. g.task \in TaskId /\ Addressed(g) /\ Move(g.task)
    BY <1>1, <1>2, EveryRunMoves
  <2> QED
    BY <2>1, KeyStays DEF Addressed, SameTask
<1>3. ASSUME NEW t \in TaskId, StoreNodes(t), g \notin node PROVE Addressed(g)'
  <2>1. g.task = t /\ g.key = run[t].key
    BY <1>3, NewCommands DEF CommandsOf
  <2>2. run[t].pc = "store" /\ run[t].i \in {2, 3} /\ task[t].kind = "Expand" /\ run[t] \in RunRec
        /\ run'[t] = [run[t] EXCEPT !.pc = "node_poll"]
    BY <1>3, StoreFacts, RunFacts
  <2>3. run'[t].key = run[t].key /\ run'[t].pc = "node_poll" /\ run'[t].i > 1
    BY <2>2 DEF RunRec
  <2> QED
    BY <2>1, <2>3 DEF Addressed
<1>4. ASSUME NEW t \in TaskId, DeployInsert(t) \/ DeployQuery(t), g \notin node PROVE Addressed(g)'
  <2>1. g.task = t /\ g.key = t
    BY <1>4, NewCommands DEF CommandsOf
  <2>2. /\ run[t].pc \in {"deploy_insert", "deploy_query"} /\ task[t].kind # "Expand" /\ run[t] \in RunRec
        /\ run'[t] = [run[t] EXCEPT !.pc = "deploy_wait"]
    BY <1>4, DeployFacts, RunFacts
  <2>3. run'[t].pc = "deploy_wait" /\ task'[t].kind # "Expand"
    BY <2>2 DEF RunRec, TasksStay, SameTask
  <2> QED
    BY <2>1, <2>3 DEF Addressed
<1> QED
  BY <1>2, <1>3, <1>4, CommandsStart DEF Starts

LEMMA NextHandy ==
  ASSUME IInv, Handy, [Next]_vars
  PROVE  Handy'
<1>1. RowsStay /\ TasksStay
  BY EveryRowWritten, EveryRowStays, EveryTaskStays
<1> QED
  BY <1>1, HandedStays, AddressedStays DEF Handy

(* While Describe is polled for the nodes of a task it has rows to divide by, *)
(* whatever fails and whatever other tasks do to the table.                   *)
THEOREM RateAlwaysDefined == Spec => []RateIsDefined
<1>1. IInv /\ Handy => RateIsDefined
  <2> SUFFICES ASSUME IInv, Handy, NEW t \in TaskId, run[t].pc = "node_poll"
               PROVE  InstsOfTask(run[t].key) # {}
    BY DEF RateIsDefined
  <2>1. task[t].kind = "Expand" /\ run[t].i > 1
    BY PcInstr, InitNodesIsExpand, RunFacts DEF Consistent, Instr, RunRec
  <2> QED
    BY <2>1 DEF Handy, Handed, InHand
<1> QED
  BY <1>1, InitHandy, NextHandy, AlwaysIInv, PTL DEF Spec

(* A row marked DELETED comes back only through the task that wrote it, while *)
(* that task runs or has a command in flight: no callback, however late,      *)
(* reaches a row of another task.                                             *)
THEOREM OnlyWriterRevives == Spec => RevivedByItsOwnTask
<1>1. IInv /\ Handy /\ [Next]_vars =>
        [\A r \in RowId :
          (instance[r].status = "DELETED" /\ instance'[r].status # "DELETED") =>
             \E t \in TaskId : WroteRow(t, r) /\ (Running(t) \/ InFlight(t) # {})]_vars
  <2> SUFFICES ASSUME IInv, Handy, [Next]_vars, NEW r \in RowId,
                      instance[r].status = "DELETED", instance'[r].status # "DELETED"
               PROVE  \E t \in TaskId : WroteRow(t, r) /\ (Running(t) \/ InFlight(t) # {})
    OBVIOUS
  <2>1. Written(r) /\ Exists(r) /\ instance[r] \in InstanceRow
    BY EveryRowWritten, TypeParts DEF IInv, RowsOK, Exists, None
  <2>2. ~Updated(r, "DELETED")
    BY <2>1 DEF Updated, InstanceRow
  <2>3. ASSUME NEW t \in TaskId, run[t].pc = "mount_db", r[1] = run[t].key
        PROVE  WroteRow(t, r) /\ Running(t)
    BY <2>3 DEF WroteRow, Running, Active, Calls
  <2>4. ASSUME NEW g \in node, r = <<g.key, g.inst>>
        PROVE  g.task \in TaskId /\ WroteRow(g.task, r) /\ InFlight(g.task) # {}
    <3>1. g.task \in TaskId /\ Addressed(g)
      BY TypeParts DEF IInv, EnvTypeOK, Goroutine, Handy
    <3> QED
      BY <2>4, <3>1 DEF Addressed, WroteRow, InFlight
  <2> QED
    BY <2>1, <2>2, <2>3, <2>4 DEF Written, Added
<1> QED
  BY <1>1, InitHandy, NextHandy, AlwaysIInv, PTL DEF Spec, RevivedByItsOwnTask
=============================================================================
