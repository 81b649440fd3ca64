----------------------- MODULE ScheduleBarrier_proofs -------------------------
(***************************************************************************)
(* The barriers between the instructions of a task, and the separation of  *)
(* the service clusters, whatever fails and however many tasks run at once.*)
(***************************************************************************)
EXTENDS ScheduleRows_proofs, WellFoundedInduction

(* No deploy has the id of a task BridgX has had.  Both ids number rows of    *)
(* the table instance: once they meet, a poll counts the rows of another      *)
(* task, and what is proved here of the time before is false.                 *)
IdsApart ==
    \A t \in TaskId : (task[t].kind = "Deploy" /\ t \in BxTaskId) => bx[t].kind = None

-----------------------------------------------------------------------------
(* The moves of a goroutine, by the kind of its task *)

IdleMove(t) ==
    /\ run[t].pc = "idle" /\ SameHands(t)
    /\ run'[t].pc \in {"idle", "next", "done"} /\ run'[t].i = 1

ExpandMove(t) ==
    LET r == run[t]
        q == run'[t]
    IN  /\ r.pc # "idle" /\ task[t].kind = "Expand" /\ SameTask(t)
        /\ \/ q = r
           \/ /\ SameHands(t) /\ q.i = r.i
              /\ \/ q.pc \in {"finish", "dead"}
                 \/ q.pc = "done" /\ r.pc = "finish"
                 \/ r.i = 1 /\ <<r.pc, q.pc>> \in {<<"next", "expand_call">>, <<"get_cluster", "relation">>}
                 \/ r.i \in {2, 3} /\ <<r.pc, q.pc>> \in {<<"next", "store">>, <<"store", "node_poll">>,
                                                          <<"node_poll", "node_list">>}
                 \/ r.i = 4 /\ q.pc \in {"mount_call", "mount_db"}
           \/ SameHands(t) /\ r.pc = "relation" /\ q.pc = "next" /\ q.i = r.i + 1
           \/ GetsTask(t) /\ r.i = 1 /\ r.pc = "expand_call"
           \/ GetsMachines(t) /\ r.i = 1
           \/ /\ GetsNodes(t) /\ r.i \in {2, 3}
              /\ \/ q.i = r.i /\ q.pc \in {"relation", "finish"}
                 \/ q.i = 4 /\ r.i = 3 /\ q.pc = "next"

OtherMove(t) ==
    /\ run[t].pc # "idle" /\ task[t].kind # "Expand" /\ SameTask(t)
    /\ run'[t].pc \notin {"idle", "expand_poll"}
    /\ run'[t] = run[t] \/ SameHands(t) \/ GetsTask(t) \/ GetsCluster(t)

LEMMA IdleMoves ==
  ASSUME IInv, NEW t \in TaskId, Move(t), run[t].pc = "idle"
  PROVE  IdleMove(t)
<1>1. run[t].i = 1 /\ run[t].pc \notin Active /\ run[t] \in RunRec
  BY RunFacts DEF Consistent, Active, Calls
<1> QED
  BY <1>1 DEF Move, PlainMove, GetsTask, GetsMachines, GetsNodes, GetsCluster, MovesTo, Errs,
              LastCalls, CallPairs, SameHands, SameKeys, IdleMove

LEMMA ExpandMoves ==
  ASSUME IInv, TasksStay, NEW t \in TaskId, Move(t), run[t].pc # "idle", task[t].kind = "Expand"
  PROVE  ExpandMove(t)
<1>1. run[t] \in RunRec /\ SameTask(t)
  BY RunFacts DEF TasksStay
<1>2. /\ run[t].i \in 1..4
      /\ run[t].pc \in Calls => /\ run[t].i = 1 => run[t].pc \in {"expand_call", "expand_poll", "get_cluster"}
                                /\ run[t].i \in {2, 3} => run[t].pc \in {"store", "node_poll", "node_list"}
                                /\ run[t].i = 4 => run[t].pc \in {"mount_call", "mount_db"}
      /\ HasRelation(t) <=> run[t].i \in {1, 2}
      /\ run[t].i = 1 => FirstCall(Instr(t)) = "expand_call"
      /\ run[t].i \in {2, 3} => FirstCall(Instr(t)) = "store"
      /\ run[t].i = 4 => FirstCall(Instr(t)) = "mount_call"
      /\ GroupLen(task[t].kind) \in 1..4
  BY ExpandCalls, TemplateAssumption DEF HasRelation, FirstCall, GroupLen
<1>3. CASE run'[t] = run[t]
  BY <1>1, <1>3 DEF ExpandMove
<1>4. CASE run'[t] = [run[t] EXCEPT !.pc = "dead"]
  BY <1>1, <1>4 DEF ExpandMove, RunRec, SameHands, SameKeys
<1>5. CASE GetsTask(t) \/ GetsMachines(t) \/ GetsCluster(t)
  BY <1>1, <1>2, <1>5 DEF ExpandMove, GetsTask, GetsMachines, GetsCluster, Calls
<1>6. CASE GetsNodes(t)
  <2>1. run[t].i \in {2, 3} /\ Leaves(t)
    BY <1>2, <1>6 DEF GetsNodes, Calls
  <2>2. \/ run'[t].i = run[t].i /\ run'[t].pc \in {"relation", "finish"}
        \/ run'[t].i = 4 /\ run[t].i = 3 /\ run'[t].pc = "next"
    BY <1>2, <2>1 DEF Leaves, GoesOn, MovesTo
  <2> QED
    BY <1>1, <1>6, <2>1, <2>2 DEF ExpandMove
<1>7. CASE PlainMove(t)
  <2>1. SameHands(t)
    BY <1>7 DEF PlainMove
  <2>2. CASE \E c \in CallPairs : run[t].pc = c[1] /\ MovesTo(t, c[2], run[t].i)
    BY <1>1, <1>2, <2>1, <2>2 DEF ExpandMove, CallPairs, MovesTo, Calls
  <2>3. CASE run[t].pc \in LastCalls /\ Leaves(t)
    <3>1. run[t].pc \in {"get_cluster", "mount_db"}
      BY <1>2, <2>3 DEF LastCalls, Calls
    <3> QED
      BY <1>1, <1>2, <2>1, <2>3, <3>1 DEF ExpandMove, Leaves, GoesOn, MovesTo, Calls
  <2>4. CASE run[t].pc = "next" /\ MovesTo(t, FirstCall(Instr(t)), run[t].i)
    BY <1>1, <1>2, <2>1, <2>4 DEF ExpandMove, MovesTo
  <2>5. CASE \/ run[t].pc = "relation" /\ GoesOn(t)
             \/ run[t].pc = "finish" /\ MovesTo(t, "done", run[t].i)
             \/ Errs(t)
    BY <1>1, <2>1, <2>5 DEF ExpandMove, MovesTo, GoesOn, Errs
  <2> QED
    BY <1>7, <2>2, <2>3, <2>4, <2>5 DEF PlainMove
<1> QED
  BY <1>3, <1>4, <1>5, <1>6, <1>7 DEF Move

LEMMA OtherMoves ==
  ASSUME IInv, TasksStay, IInv', NEW t \in TaskId, Move(t), run[t].pc # "idle", task[t].kind # "Expand"
  PROVE  OtherMove(t)
<1>1. run[t] \in RunRec /\ SameTask(t)
  BY RunFacts DEF TasksStay
<1>2. run'[t].pc # "expand_poll"
  <2> SUFFICES ASSUME run'[t].pc = "expand_poll" PROVE FALSE
    OBVIOUS
  <2>1. run'[t] \in RunRec /\ Consistent(run'[t], task'[t].kind)
    BY TypeParts DEF IInv, TypeOK, RunsOK, RunRec, Control
  <2>2. InstrAt(task'[t].kind, run'[t].i) \in {"bridgx.expand"}
    <3>1. run'[t].pc \in CallsOf(InstrAt(task'[t].kind, run'[t].i))
      BY <2>1 DEF Consistent, Calls
    <3> QED
      BY <3>1 DEF CallsOf
  <2>3. task'[t].kind = "Expand"
    BY <2>1, <2>2, RelationIsExpand DEF RunRec
  <2> QED
    BY <1>1, <2>3 DEF SameTask
<1>3. ~GetsMachines(t) /\ ~GetsNodes(t)
  <2>1. run[t].pc \notin {"expand_poll", "node_list"}
    <3>1. ASSUME run[t].pc \in {"expand_poll", "node_list"} PROVE FALSE
      <4>1. Instr(t) \in {"bridgx.expand", "nodeact.initbase", "nodeact.initsvc"}
        BY <3>1, PcInstr
      <4>2. run[t].i \in 1..MaxInstr /\ run[t].i <= GroupLen(task[t].kind)
        BY RunFacts DEF Consistent, RunRec
      <4> QED
        BY <4>1, <4>2, RelationIsExpand, InitNodesIsExpand DEF Instr
    <3> QED
      BY <3>1
  <2> QED
    BY <2>1 DEF GetsMachines, GetsNodes
<1>4. run'[t].pc # "idle" /\ (run'[t] = run[t] \/ SameHands(t) \/ GetsTask(t) \/ GetsCluster(t))
  <2>1. CASE run'[t] = run[t] \/ run'[t] = [run[t] EXCEPT !.pc = "dead"]
    BY <1>1, <2>1 DEF RunRec, SameHands, SameKeys
  <2>2. FirstCall(Instr(t)) # "idle"
    BY DEF FirstCall
  <2>3. CASE PlainMove(t) \/ GetsTask(t) \/ GetsCluster(t)
    BY <1>1, <2>2, <2>3 DEF PlainMove, GetsTask, GetsCluster, MovesTo, Leaves, GoesOn, Errs, CallPairs
  <2> QED
    BY <1>3, <2>1, <2>3 DEF Move
<1> QED
  BY <1>1, <1>2, <1>4 DEF OtherMove

LEMMA EveryMove ==
  ASSUME IInv, [Next]_vars, NEW t \in TaskId
  PROVE  IdleMove(t) \/ ExpandMove(t) \/ OtherMove(t)
  BY EveryRunMoves, EveryTaskStays, NextIInv, IdleMoves, ExpandMoves, OtherMoves

-----------------------------------------------------------------------------
(* Which action a move was *)

LEMMA StepAt ==
  ASSUME IInv, [Next]_vars, NEW t \in TaskId,
         run'[t] # run[t], run'[t].pc # "dead", run[t].pc # "idle"
  PROVE  RunStep(t)
<1>1. run'[t] # Killed(run[t])
  BY RunFacts DEF Killed, RunRec
<1>2. PICK u \in TaskId : MovesAlone(u) /\ (run[u].pc = "idle" \/ RunStep(u))
  BY <1>1, EveryMoveIs DEF Dies
<1> QED
  BY <1>2 DEF MovesAlone

LEMMA CallMade ==
  ASSUME NEW t \in TaskId, RunStep(t)
  PROVE  /\ run[t].pc = "node_poll"   => NodePolled(t) \/ InstrFails(t)
         /\ run[t].pc = "deploy_wait" => DeployWaited(t)
         /\ run[t].pc = "expand_call" => ExpandCall(t) \/ InstrFails(t)
         /\ run[t].pc = "shrink_call" => ShrinkCall(t) \/ InstrFails(t)
<1>1. run[t].pc = "deploy_wait" => ~InstrFails(t)
  BY DEF InstrFails, CallRefused, PollGivesUp, ErrorReturn
<1> QED
  BY <1>1
     DEF RunStep, At, BeginInstr, BeginInstrFails, SaveRelation, SaveRelationFails, ExpandCall,
         ExpandPolled, GetCluster, StoreNodes, NodePolled, NodeListed, MountCall, MountDb, UmountQuery,
         UmountCall, UmountDb, ShrinkPick, ShrinkPickFails, ShrinkCall, ShrinkPolled, ShrinkDb,
         DeployInstances, DeployMark, DeployInsert, DeployQuery, DeployWaited, Finish

LEMMA FailsMeans ==
  ASSUME IInv, NEW t \in TaskId, InstrFails(t) \/ Fail(t)
  PROVE  run'[t].pc = "finish" /\ run'[t].bx = run[t].bx
  BY TypeParts DEF IInv, RunsOK, RunRec, InstrFails, Fail

\* The poll between base and service initialisation saw every row ready.
LEMMA PollPassed ==
  ASSUME IInv, [Next]_vars, NEW t \in TaskId, run[t].pc = "node_poll", run'[t].pc = "node_list"
  PROVE  InstsQueryByTaskId(run[t].key, Target(Instr(t))) = InstsOfTask(run[t].key)
<1>1. RunStep(t)
  BY StepAt
<1> QED
  BY <1>1, CallMade, FailsMeans DEF NodePolled, RatePass

\* wg.Wait saw every command return.
LEMMA WaitPassed ==
  ASSUME IInv, [Next]_vars, NEW t \in TaskId, run[t].pc = "deploy_wait",
         run'[t].pc \notin {"deploy_wait", "dead"}
  PROVE  DeployWaited(t) /\ InFlight(t) = {}
<1>1. RunStep(t)
  BY StepAt
<1> QED
  BY <1>1, CallMade DEF DeployWaited

\* A BridgX task is new, and an expand creates its machines in the task's cluster.
LEMMA TaskGiven ==
  ASSUME IInv, [Next]_vars, NEW t \in TaskId, run'[t].bx # run[t].bx
  PROVE  /\ MovesAlone(t) /\ UNCHANGED instance /\ GetsTask(t)
         /\ run'[t].bx \in NextBx /\ bx'[run'[t].bx].kind # None
         /\ run'[t].pc = "expand_poll" =>
              \A m \in bx'[run'[t].bx].machines :
                 m \in Machine /\ machine'[m].state # None /\ machine'[m].cluster = task[t].cluster
<1>1. GetsTask(t) /\ run[t].pc \in {"expand_call", "shrink_call"}
  <2>1. run'[t] # [run[t] EXCEPT !.pc = "dead"]
    BY RunFacts DEF RunRec
  <2>2. ~PlainMove(t) /\ ~GetsMachines(t) /\ ~GetsNodes(t) /\ ~GetsCluster(t)
    BY DEF PlainMove, GetsMachines, GetsNodes, GetsCluster, SameHands, SameKeys
  <2> QED
    BY <2>1, <2>2, EveryRunMoves DEF Move, GetsTask
<1>2. RunStep(t) /\ run'[t].bx \in NextBx /\ run'[t].bx \in BxTaskId
  BY <1>1, StepAt DEF GetsTask, MovesTo, NextBx
<1>3. (ExpandCall(t) \/ ShrinkCall(t)) /\ ~Fail(t)
  BY <1>1, <1>2, CallMade, FailsMeans
<1>4. CASE ExpandCall(t)
  <2>1. PICK b \in NextBx, ms \in SUBSET FreeMachines :
          /\ BxExpand(b, task[t].cluster, ms)
          /\ run' = [run EXCEPT ![t].pc = "expand_poll", ![t].bx = b]
    BY <1>3, <1>4 DEF ExpandCall
  <2>2. run'[t].bx = b /\ b \in BxTaskId
    BY <2>1, TypeParts DEF IInv, RunsOK, RunRec, NextBx
  <2>3. bx'[b].kind = "expand" /\ bx'[b].machines = ms
    BY <2>1, <2>2, TypeParts DEF IInv, CloudTypeOK, BxExpand
  <2>4. \A m \in ms : m \in Machine /\ machine'[m] = [state |-> "pending", cluster |-> task[t].cluster]
    BY <2>1 DEF BxExpand, FreeMachines
  <2> QED
    BY <1>1, <1>2, <1>4, <2>2, <2>3, <2>4, RunStepAlone DEF ExpandCall, None
<1>5. CASE ShrinkCall(t)
  <2>1. PICK b \in NextBx :
          /\ BxShrink(b, run[t].grp)
          /\ run' = [run EXCEPT ![t].pc = "shrink_poll", ![t].bx = b]
    BY <1>3, <1>5 DEF ShrinkCall
  <2>2. run'[t].bx = b /\ b \in BxTaskId /\ run'[t].pc = "shrink_poll"
    BY <2>1, TypeParts DEF IInv, RunsOK, RunRec, NextBx
  <2>3. bx'[b].kind = "shrink"
    BY <2>1, <2>2, TypeParts DEF IInv, CloudTypeOK, BxShrink
  <2> QED
    BY <1>1, <1>2, <1>5, <2>2, <2>3, RunStepAlone DEF ShrinkCall, None
<1> QED
  BY <1>3, <1>4, <1>5

-----------------------------------------------------------------------------
(* The inductive invariant *)

PlacedIn(m, sc) == machine[m].state # None /\ machine[m].cluster = sc

(* Before its BridgX task is done an expand has no key for its rows.          *)
Unkeyed(r) == r.pc \in {"idle", "expand_call", "expand_poll"} \/ (r.pc = "next" /\ r.i = 1)

Known(r, kind) ==
    /\ r.key \in {0, r.bx}
    /\ r.key # 0 => kind = "Expand" /\ ~Unkeyed(r)
    /\ r.bx # 0 => bx[r.bx].kind # None
    /\ IF r.pc = "idle" THEN r.grp = {} ELSE kind \in Kinds

(* No two tasks wait for the same BridgX task. *)
OwnBx == \A t, u \in TaskId : (t # u /\ run[t].bx # 0) => run[u].bx # run[t].bx

(* A row belongs to a machine of its cluster, and to a task that is known.    *)
RowOf(r) ==
    Exists(r) => /\ PlacedIn(r[2], instance[r].cluster)
                 /\ \/ r[1] \in BxTaskId /\ bx[r[1]].kind # None
                    \/ /\ r[1] \in TaskId /\ run[r[1]].pc # "idle" /\ task[r[1]].kind = "Deploy"
                       /\ PlacedIn(r[2], task[r[1]].cluster)

(* The machines a task works on, waits for or has rows of are its cluster's.  *)
Place(t) ==
    /\ \A m \in run[t].grp : PlacedIn(m, task[t].cluster)
    /\ run[t].pc = "expand_poll" => \A m \in bx[run[t].bx].machines : PlacedIn(m, task[t].cluster)
    /\ run[t].key # 0 => \A m \in InstsOfTask(run[t].key) : PlacedIn(m, task[t].cluster)

(* An expand stores its rows once, in the base initialisation.                *)
FreshRun(r) ==
    \/ r.i = 1 /\ r.pc \in {"get_cluster", "relation"}
    \/ r.i = 2 /\ r.pc \in {"next", "store"}

StoredRun(r) == r.i > 2 \/ (r.i = 2 /\ r.pc \in {"node_poll", "node_list", "relation"})

Stocked(t) ==
    /\ (run[t].bx # 0 /\ (run[t].key = 0 \/ (task[t].kind = "Expand" /\ FreshRun(run[t])))) =>
          InstsOfTask(run[t].bx) = {}
    /\ (task[t].kind = "Expand" /\ StoredRun(run[t])) => run[t].grp \subseteq InstsOfTask(run[t].key)

(* A command in flight belongs to the instruction its task is at, or gave up *)
(* at; the row of a base initialisation still under way does not say BASE.   *)
BaseSent(g) ==
    /\ run[g.task].i = 2 /\ run[g.task].pc \in {"node_poll", "finish", "done", "dead"}
    /\ g.target = "BASE" /\ instance[<<g.key, g.inst>>].status # "BASE"

SvcSent(g) ==
    /\ run[g.task].i > 3 \/ (run[g.task].i = 3 /\ run[g.task].pc \notin {"next", "store"})
    /\ g.target = "SVC"

Sent(g) ==
    /\ Exists(<<g.key, g.inst>>)
    /\ run[g.task].pc # "idle" /\ PlacedIn(g.inst, task[g.task].cluster)
    /\ \/ /\ task[g.task].kind = "Expand" /\ g.key = run[g.task].key /\ g.key # 0
          /\ BaseSent(g) \/ SvcSent(g)
       \/ /\ task[g.task].kind = "Deploy" /\ g.key = g.task
          /\ run[g.task].pc \in {"deploy_wait", "dead"} /\ g.target = Target(Instr(g.task))

AllKnown == \A t \in TaskId : Known(run[t], task[t].kind)
AllRows == \A r \in RowId : RowOf(r)
AllPlaced == \A t \in TaskId : Place(t)
AllStocked == \A t \in TaskId : Stocked(t)
AllSent == \A g \in node : Sent(g)

Barrier == IInv /\ AllKnown /\ OwnBx /\ AllRows /\ AllPlaced /\ AllStocked /\ AllSent

LEMMA KeysApart ==
  ASSUME AllKnown, OwnBx, NEW t \in TaskId, NEW u \in TaskId,
         run[t].key # 0, run[u].bx = run[t].key \/ run[u].key = run[t].key
  PROVE  t = u
  BY DEF AllKnown, Known, OwnBx

LEMMA KnownKeys ==
  ASSUME IInv, AllKnown, NEW t \in TaskId
  PROVE  /\ run[t].bx # 0 => run[t].bx \in BxTaskId
         /\ run[t].key # 0 => run[t].key \in BxTaskId /\ run[t].key = run[t].bx
  BY RunFacts DEF AllKnown, Known, RunRec

\* What is placed stays where it is.
LEMMA PlaceStays ==
  ASSUME MachinesStay, NEW m \in Machine, NEW sc, PlacedIn(m, sc)
  PROVE  machine'[m].state # None /\ machine'[m].cluster = sc
  BY DEF MachinesStay, PlacedIn

LEMMA NotIdle == ASSUME NEW t \in TaskId, RunStep(t) PROVE run[t].pc # "idle"
  BY DEF RunStep, At, BeginInstr, BeginInstrFails, SaveRelation, SaveRelationFails, ExpandCall,
         ExpandPolled, GetCluster, StoreNodes, NodePolled, NodeListed, MountCall, MountDb, UmountQuery,
         UmountCall, UmountDb, ShrinkPick, ShrinkPickFails, ShrinkCall, ShrinkPolled, ShrinkDb,
         DeployInstances, DeployMark, DeployInsert, DeployQuery, DeployWaited, InstrFails, Calls, Finish

\* A task that starts is of a kind.
LEMMA KindGiven ==
  ASSUME IInv, [Next]_vars, NEW t \in TaskId, run[t].pc = "idle", run'[t].pc # "idle"
  PROVE  task'[t].kind \in Kinds
<1>1. ASSUME NEW u \in TaskId, RunStep(u) PROVE FALSE
  BY <1>1, RunStepAlone, NotIdle DEF MovesAlone
<1>2. ~(\A u \in TaskId : run'[u] = Killed(run[u])) /\ ~UNCHANGED run
  BY DEF Killed, Active, Calls
<1>3. Request
  BY <1>1, <1>2 DEF Next, NodeStep, BxStep, Panic, TaskPanics, PollPanics, Crash, ProcessDies,
                    Restart, Idle, vars
<1>4. PICK u \in TaskId : \E kind, sc, cnt, isRollback : CreateAndRun(u, kind, sc, cnt, isRollback)
  BY <1>3 DEF Request, ExpandAction, ShrinkAction, DeployAction
<1>5. OthersKept(u) /\ Creates(u)
  BY <1>4, CreateSeen
<1> QED
  BY <1>5 DEF OthersKept, Creates

LEMMA KnownStays ==
  ASSUME Barrier, [Next]_vars
  PROVE  AllKnown'
<1> SUFFICES ASSUME NEW t \in TaskId PROVE Known(run[t], task[t].kind)'
  BY DEF AllKnown
<1>1. IInv /\ Known(run[t], task[t].kind) /\ BxTasksStay /\ run[t] \in RunRec
  BY CloudStays, RunFacts DEF Barrier, AllKnown
<1>2. run'[t].bx # 0 => bx'[run'[t].bx].kind # None
  <2>1. CASE run'[t].bx = run[t].bx
    BY <1>1, <2>1 DEF Known, BxTasksStay, RunRec
  <2>2. CASE run'[t].bx # run[t].bx
    BY <1>1, <2>2, TaskGiven
  <2> QED
    BY <2>1, <2>2
<1>3. CASE IdleMove(t)
  <2>1. run'[t].pc # "idle" => task'[t].kind \in Kinds
    BY <1>1, <1>3, KindGiven DEF IdleMove
  <2> QED
    BY <1>1, <1>2, <1>3, <2>1 DEF IdleMove, Known, SameHands, SameKeys, Unkeyed
<1>4. CASE ExpandMove(t)
  BY <1>1, <1>2, <1>4 DEF ExpandMove, Known, SameHands, SameKeys, Unkeyed, SameTask, GetsTask,
                          GetsMachines, GetsNodes, MovesTo, RunRec
<1>5. CASE OtherMove(t)
  BY <1>1, <1>2, <1>5 DEF OtherMove, Known, SameHands, SameKeys, Unkeyed, SameTask, GetsTask,
                          GetsCluster, MovesTo
<1> QED
  BY <1>1, <1>3, <1>4, <1>5, EveryMove

LEMMA OwnBxStays ==
  ASSUME Barrier, [Next]_vars
  PROVE  OwnBx'
<1>1. IInv
  BY DEF Barrier
<1>2. ASSUME NEW t \in TaskId, NEW u \in TaskId, t # u, run'[t].bx # run[t].bx
      PROVE  run'[u].bx # run'[t].bx /\ run'[t].bx # 0
  <2>1. run'[u].bx = run[u].bx /\ run'[t].bx \in BxTaskId /\ bx[run'[t].bx].kind = None
    BY <1>1, <1>2, TaskGiven DEF MovesAlone, NextBx
  <2>2. run[u].bx # 0 => bx[run[u].bx].kind # None
    BY DEF Barrier, AllKnown, Known
  <2>3. 0 \notin BxTaskId
    BY IdAssumption
  <2> QED
    BY <2>1, <2>2, <2>3
<1> SUFFICES ASSUME NEW t \in TaskId, NEW u \in TaskId, t # u, run'[t].bx # 0
             PROVE  run'[u].bx # run'[t].bx
  BY DEF OwnBx
<1>3. CASE run'[t].bx # run[t].bx
  BY <1>2, <1>3
<1>4. CASE run'[u].bx # run[u].bx
  BY <1>2, <1>4
<1>5. CASE run'[t].bx = run[t].bx /\ run'[u].bx = run[u].bx
  BY <1>5 DEF Barrier, OwnBx
<1> QED
  BY <1>3, <1>4, <1>5

LEMMA OnlyDeploys ==
  ASSUME IInv, AllKnown, NEW t \in TaskId, DeployInsert(t) \/ DeployQuery(t)
  PROVE  task[t].kind = "Deploy"
  BY DeployFacts DEF AllKnown, Known, Kinds

\* Only NodeUpdateStore adds rows with the id of a BridgX task, only a deploy others.
LEMMA AddedRow ==
  ASSUME IInv, AllKnown, NEW r \in RowId, ~Exists(r), Written(r), Exists(r)'
  PROVE  \E t \in TaskId :
            /\ r[2] \in run[t].grp
            /\ \/ /\ StoreNodes(t) /\ r[1] = run[t].key /\ r[1] \in BxTaskId
                  /\ instance'[r] = NewRow(StoredCluster(t))
               \/ /\ DeployInsert(t) /\ r[1] = t /\ task[t].kind = "Deploy"
                  /\ instance'[r] = NewRow(task[t].cluster)
<1>1. Added(r)
  BY DEF Written, Updated, Exists
<1> QED
  BY <1>1, StoreFacts, OnlyDeploys DEF Added

\* A task keeps its place in time: what was not idle is not idle again.
LEMMA NotIdleAgain ==
  ASSUME IInv, [Next]_vars, NEW t \in TaskId, run[t].pc # "idle"
  PROVE  run'[t].pc # "idle" /\ SameTask(t)
<1>1. ExpandMove(t) \/ OtherMove(t)
  BY EveryMove DEF IdleMove
<1> QED
  BY <1>1 DEF ExpandMove, OtherMove, GetsTask, GetsMachines, GetsNodes, MovesTo

LEMMA RowsStayPlaced ==
  ASSUME Barrier, [Next]_vars
  PROVE  AllRows'
<1> SUFFICES ASSUME NEW r \in RowId, Exists(r)' PROVE RowOf(r)'
  BY DEF AllRows, RowOf
<1>1. /\ IInv /\ RowOf(r) /\ Written(r) /\ RowsStay /\ MachinesStay /\ BxTasksStay /\ r[2] \in Machine
  BY EveryRowWritten, EveryRowStays, CloudStays DEF Barrier, AllRows, RowId
<1>2. CASE Exists(r)
  <2>1. instance'[r].cluster = instance[r].cluster
    BY <1>1, <1>2 DEF RowsStay
  <2>2. PlacedIn(r[2], instance[r].cluster)'
    BY <1>1, <1>2, <2>1, PlaceStays DEF RowOf, PlacedIn
  <2>3. CASE r[1] \in BxTaskId /\ bx[r[1]].kind # None
    BY <1>1, <2>2, <2>3 DEF RowOf, BxTasksStay
  <2>4. CASE /\ r[1] \in TaskId /\ run[r[1]].pc # "idle" /\ task[r[1]].kind = "Deploy"
             /\ PlacedIn(r[2], task[r[1]].cluster)
    <3>1. PICK t \in TaskId : t = r[1]
      BY <2>4
    <3>2. run'[t].pc # "idle" /\ SameTask(t)
      BY <1>1, <2>4, <3>1, NotIdleAgain
    <3>3. PlacedIn(r[2], task[t].cluster)'
      BY <1>1, <2>4, <3>1, <3>2, PlaceStays DEF PlacedIn, SameTask
    <3> QED
      BY <2>2, <2>4, <3>1, <3>2, <3>3 DEF RowOf, SameTask
  <2> QED
    BY <1>1, <1>2, <2>3, <2>4 DEF RowOf
<1>3. CASE ~Exists(r)
  <2>1. PICK t \in TaskId :
            /\ r[2] \in run[t].grp
            /\ \/ /\ StoreNodes(t) /\ r[1] = run[t].key /\ r[1] \in BxTaskId
                  /\ instance'[r] = NewRow(StoredCluster(t))
               \/ /\ DeployInsert(t) /\ r[1] = t /\ task[t].kind = "Deploy"
                  /\ instance'[r] = NewRow(task[t].cluster)
    BY <1>1, <1>3, AddedRow DEF Barrier
  <2>2. machine'[r[2]].state # None /\ machine'[r[2]].cluster = task[t].cluster
    BY <1>1, <2>1, PlaceStays DEF Barrier, AllPlaced, Place
  <2>3. CASE StoreNodes(t) /\ r[1] = run[t].key
    <3>0. /\ task[t].kind = "Expand" /\ run[t].i \in {2, 3} /\ run[t].pc = "store"
          /\ run[t].key \in BxTaskId /\ run[t].key # 0
      BY <1>1, <2>3, StoreFacts
    <3>1. run[t].i = 2
      <4> SUFFICES ASSUME run[t].i = 3 PROVE FALSE
        BY <3>0
      <4>1. run[t].grp \subseteq InstsOfTask(run[t].key)
        BY <3>0 DEF Barrier, AllStocked, Stocked, StoredRun
      <4>2. r = <<run[t].key, r[2]>>
        BY <2>3 DEF RowId
      <4> QED
        BY <1>3, <2>1, <4>1, <4>2 DEF InstsOfTask
    <3>2. StoredCluster(t) = task[t].cluster
      BY <1>1, <3>0, <3>1, ExpandCalls DEF StoredCluster
    <3>3. r[1] \in BxTaskId
      BY <2>3, <3>0
    <3>5. instance'[r].cluster = task[t].cluster
      BY <2>1, <3>2 DEF NewRow
    <3>4. bx'[r[1]].kind # None
      <4>1. bx[run[t].key].kind # None
        BY <3>0 DEF Barrier, AllKnown, Known
      <4> QED
        BY <1>1, <2>3, <3>0, <4>1 DEF BxTasksStay
    <3> QED
      BY <2>2, <3>3, <3>4, <3>5 DEF RowOf, PlacedIn
  <2>4. CASE DeployInsert(t) /\ r[1] = t
    <3>1. task[t].kind = "Deploy" /\ instance'[r].cluster = task[t].cluster
      <4>1. task[t].kind = "Deploy"
        BY <2>4, OnlyDeploys DEF Barrier
      <4>2. ~StoreNodes(t)
        BY <1>1, <4>1, StoreFacts
      <4> QED
        BY <2>1, <4>1, <4>2 DEF NewRow
    <3>2. run[t].pc # "idle"
      BY <1>1, <2>4, DeployFacts
    <3>3. run'[t].pc # "idle" /\ task'[t].cluster = task[t].cluster /\ task'[t].kind = task[t].kind
      BY <1>1, <3>2, NotIdleAgain DEF SameTask
    <3> QED
      BY <2>2, <2>4, <3>1, <3>3 DEF RowOf, PlacedIn
  <2> QED
    BY <2>1, <2>3, <2>4
<1> QED
  BY <1>2, <1>3

\* The rows of a BridgX task are those it had and those its own expand stores.
LEMMA RowsOfTask ==
  ASSUME IdsApart, Barrier, [Next]_vars, NEW t \in TaskId, NEW m \in Machine,
         NEW k \in BxTaskId, k = run[t].bx, Exists(<<k, m>>)'
  PROVE  m \in InstsOfTask(k) \/ (StoreNodes(t) /\ run[t].key = k /\ m \in run[t].grp)
<1> DEFINE r == <<k, m>>
<1>1. r \in RowId /\ r[1] = k /\ r[2] = m
  BY DEF RowId, Key
<1>2. IInv /\ AllKnown /\ OwnBx /\ Written(r)
  BY <1>1, EveryRowWritten DEF Barrier
<1>3. CASE Exists(r)
  BY <1>1, <1>3 DEF InstsOfTask
<1>4. CASE ~Exists(r)
  <2>1. Exists(r)'
    OBVIOUS
  <2>2. PICK u \in TaskId : StoreNodes(u) /\ r[1] = run[u].key /\ r[2] \in run[u].grp
    <3> HIDE DEF r
    <3>1. r[1] \in BxTaskId /\ bx[r[1]].kind # None
      BY <1>1, <1>2, IdAssumption DEF AllKnown, Known
    <3> QED
      BY <1>1, <1>2, <1>4, <2>1, <3>1, AddedRow DEF IdsApart
  <2>3. u = t
    BY <1>1, <1>2, <2>2, KeysApart, IdAssumption
  <2> QED
    BY <1>1, <2>2, <2>3
<1> QED
  BY <1>3, <1>4

LEMMA PlaceOfGroupStays ==
  ASSUME Barrier, [Next]_vars, NEW t \in TaskId, NEW m \in run'[t].grp
  PROVE  PlacedIn(m, task[t].cluster)' /\ m \in Machine
<1>1. /\ IInv /\ MachinesStay /\ Place(t) /\ run[t] \in RunRec /\ run'[t] \in RunRec
      /\ Known(run[t], task[t].kind)
  <2>1. IInv'
    BY NextIInv DEF Barrier
  <2>2. run'[t] \in RunRec
    BY <2>1 DEF IInv, TypeOK, RunRec
  <2> QED
    BY <2>2, CloudStays, RunFacts DEF Barrier, AllPlaced, AllKnown
<1>2. m \in Machine
  BY <1>1 DEF RunRec
<1>3. ASSUME PlacedIn(m, task[t].cluster), SameTask(t) PROVE PlacedIn(m, task[t].cluster)'
  BY <1>1, <1>2, <1>3, PlaceStays DEF PlacedIn, SameTask
<1>4. CASE run'[t].grp = run[t].grp
  <2>1. run[t].pc # "idle"
    BY <1>1, <1>4 DEF Known
  <2> QED
    BY <1>1, <1>2, <1>3, <1>4, <2>1, NotIdleAgain DEF Place
<1>5. CASE run'[t].grp # run[t].grp
  <2>1. run[t].pc # "idle"
    BY <1>1, <1>5, EveryMove DEF IdleMove, ExpandMove, OtherMove, SameHands
  <2>2. SameTask(t) /\ (GetsMachines(t) \/ GetsNodes(t) \/ GetsCluster(t))
    BY <1>1, <1>5, <2>1, EveryMove DEF IdleMove, ExpandMove, OtherMove, SameHands, GetsTask
  <2>3. CASE GetsMachines(t)
    <3>1. m \in bx[run[t].bx].machines /\ run[t].pc = "expand_poll"
      BY <2>3 DEF GetsMachines, TaskInstances
    <3> QED
      BY <1>1, <1>2, <1>3, <2>2, <3>1 DEF Place
  <2>4. CASE GetsNodes(t)
    <3>1. m \in InstsOfTask(run[t].key)
      BY <2>4 DEF GetsNodes, InstsQueryByTaskId
    <3>2. run[t].key # 0
      BY <3>1, IdAssumption DEF InstsOfTask, RowId, Key
    <3> QED
      BY <1>1, <1>2, <1>3, <2>2, <3>1, <3>2 DEF Place
  <2>5. CASE GetsCluster(t)
    <3>1. m \in run[t].grp \/ InCluster(m, task[t].cluster)
      BY <2>5 DEF GetsCluster
    <3>2. CASE m \in run[t].grp
      BY <1>1, <1>2, <1>3, <2>2, <3>2 DEF Place
    <3>3. CASE m \in RunningIn(task[t].cluster)
      BY <1>2, <1>3, <2>2, <3>3 DEF RunningIn, PlacedIn, None
    <3>4. CASE \E r \in RowsOfCluster(task[t].cluster) : r[2] = m
      <4>1. PICK r \in RowId : Exists(r) /\ instance[r].cluster = task[t].cluster /\ r[2] = m
        BY <3>4 DEF RowsOfCluster
      <4> QED
        BY <1>2, <1>3, <2>2, <4>1 DEF Barrier, AllRows, RowOf
    <3> QED
      BY <3>1, <3>2, <3>3, <3>4 DEF InCluster
  <2> QED
    BY <1>2, <2>2, <2>3, <2>4, <2>5
<1> QED
  BY <1>4, <1>5

LEMMA PlaceStaysInCluster ==
  ASSUME IdsApart, Barrier, [Next]_vars
  PROVE  AllPlaced'
<1> SUFFICES ASSUME NEW t \in TaskId PROVE Place(t)'
  BY DEF AllPlaced
<1>1. /\ IInv /\ AllKnown /\ OwnBx /\ MachinesStay /\ BxTasksStay /\ Place(t) /\ Stocked(t) /\ run[t] \in RunRec
      /\ Known(run[t], task[t].kind)
  BY CloudStays, RunFacts DEF Barrier, AllPlaced, AllKnown, AllStocked
<1>2. \A m \in run'[t].grp : PlacedIn(m, task[t].cluster)'
  BY PlaceOfGroupStays
<1>3. ASSUME run'[t].pc = "expand_poll", NEW m \in bx'[run'[t].bx].machines
      PROVE  PlacedIn(m, task[t].cluster)'
  <2>1. run[t].pc # "idle" /\ SameTask(t)
    BY <1>1, <1>3, EveryMove DEF IdleMove, ExpandMove, OtherMove
  <2>2. CASE run'[t].bx # run[t].bx
    BY <1>1, <1>3, <2>1, <2>2, TaskGiven DEF PlacedIn, SameTask
  <2>3. CASE run'[t].bx = run[t].bx
    <3>1. ~GetsTask(t)
      <4>1. run[t].bx # 0 => bx[run[t].bx].kind # None
        BY <1>1 DEF Known
      <4> QED
        BY <2>3, <4>1, IdAssumption DEF GetsTask, NextBx
    <3>2. run[t].pc = "expand_poll"
      BY <1>1, <1>3, <2>1, <3>1, EveryMove
         DEF IdleMove, ExpandMove, OtherMove, GetsMachines, GetsNodes, MovesTo
    <3>3. run[t].bx \in BxTaskId /\ bx[run[t].bx].kind # None
      BY <1>1, <3>2, IdAssumption DEF IInv, Control, Consistent, Known
    <3>4. m \in bx[run[t].bx].machines /\ m \in Machine
      BY <1>1, <1>3, <2>3, <3>3, TypeParts DEF BxTasksStay, IInv, CloudTypeOK
    <3> QED
      BY <1>1, <2>1, <3>2, <3>4, PlaceStays DEF Place, PlacedIn, SameTask
  <2> QED
    BY <2>2, <2>3
<1>4. ASSUME run'[t].key # 0, NEW m \in InstsOfTask(run[t].key)'
      PROVE  PlacedIn(m, task[t].cluster)'
  <2>0. PICK k : k = run'[t].key
    OBVIOUS
  <2>1. k = run[t].bx /\ k \in BxTaskId /\ run[t].pc # "idle" /\ SameTask(t) /\ (run[t].key \in {0, k})
    <3>1. CASE run'[t].key = run[t].key
      BY <1>1, <1>4, <2>0, <3>1, KnownKeys, NotIdleAgain DEF Known, Unkeyed
    <3>2. CASE run'[t].key # run[t].key
      <4>1. GetsMachines(t) /\ SameTask(t)
        BY <1>1, <3>2, EveryMove DEF IdleMove, ExpandMove, OtherMove, SameHands, SameKeys, GetsTask,
                                     GetsCluster, GetsNodes
      <4> QED
        BY <1>1, <1>4, <2>0, <4>1, KnownKeys DEF GetsMachines, Known, Unkeyed
    <3> QED
      BY <3>1, <3>2
  <2>2. m \in Machine /\ Exists(<<k, m>>)'
    BY <1>4, <2>0 DEF InstsOfTask, Exists
  <2>3. m \in InstsOfTask(k) \/ (StoreNodes(t) /\ m \in run[t].grp)
    BY <2>1, <2>2, RowsOfTask
  <2>4. CASE StoreNodes(t) /\ m \in run[t].grp
    BY <1>1, <2>1, <2>2, <2>4, PlaceStays DEF Place, PlacedIn, SameTask
  <2>5. CASE m \in InstsOfTask(k)
    <3>1. run[t].key = k
      BY <1>1, <2>1, <2>5, IdAssumption DEF Stocked
    <3> QED
      BY <1>1, <2>1, <2>2, <2>5, <3>1, IdAssumption, PlaceStays DEF Place, PlacedIn, SameTask
  <2> QED
    BY <2>3, <2>4, <2>5
<1> QED
  BY <1>2, <1>3, <1>4 DEF Place

\* As long as an expand has no rows, nobody else stores some for it.
LEMMA FreshStays ==
  ASSUME IdsApart, IdsApart', Barrier, [Next]_vars, NEW t \in TaskId, run'[t].bx # 0,
         run'[t].key = 0 \/ (task'[t].kind = "Expand" /\ FreshRun(run'[t]))
  PROVE  InstsOfTask(run[t].bx)' = {}
<1>1. /\ IInv /\ AllKnown /\ OwnBx /\ Stocked(t) /\ run[t] \in RunRec /\ Known(run[t], task[t].kind)
      /\ 0 \notin BxTaskId
  BY RunFacts, IdAssumption DEF Barrier, AllKnown, AllStocked
<1> SUFFICES ASSUME NEW m \in Machine, Exists(<<run[t].bx, m>>)' PROVE FALSE
  BY DEF InstsOfTask
<1>2. PICK b : b = run'[t].bx
  OBVIOUS
<1>3. Exists(<<b, m>>)' /\ (b \in BxTaskId => <<b, m>> \in RowId)
  BY <1>2 DEF Exists, RowId, Key
<1>4. CASE run'[t].bx # run[t].bx
  <2>1. b \in BxTaskId /\ bx[b].kind = None /\ UNCHANGED instance
    BY <1>1, <1>2, <1>4, TaskGiven DEF NextBx
  <2>2. Exists(<<b, m>>)
    BY <1>3, <2>1 DEF Exists
  <2>3. RowOf(<<b, m>>)
    BY <1>3, <2>1 DEF Barrier, AllRows
  <2>4. b \in TaskId /\ run[b].pc # "idle" /\ task[b].kind = "Deploy"
    BY <2>1, <2>2, <2>3 DEF RowOf
  <2>5. task'[b].kind = "Deploy" /\ bx'[b].kind # None
    BY <1>1, <1>2, <1>4, <2>4, TaskGiven, NotIdleAgain DEF SameTask
  <2> QED
    BY <2>1, <2>4, <2>5 DEF IdsApart
<1>5. CASE run'[t].bx = run[t].bx
  <2>1. b = run[t].bx /\ b \in BxTaskId /\ b # 0
    BY <1>1, <1>2, <1>5, KnownKeys
  <2>2. ~StoreNodes(t)
    <3> SUFFICES ASSUME StoreNodes(t) PROVE FALSE
      OBVIOUS
    <3>1. run'[t] = [run[t] EXCEPT !.pc = "node_poll"] /\ run[t].key # 0
      BY <1>1, StoreFacts
    <3> QED
      BY <1>1, <3>1 DEF RunRec, FreshRun
  <2>3. run[t].key = 0 \/ (task[t].kind = "Expand" /\ FreshRun(run[t]))
    <3>1. CASE IdleMove(t)
      BY <1>1, <3>1 DEF IdleMove, Known, Unkeyed
    <3>2. CASE ExpandMove(t)
      BY <1>1, <3>2 DEF ExpandMove, SameHands, SameKeys, SameTask, GetsTask, GetsMachines, GetsNodes,
                        MovesTo, Known, Unkeyed, FreshRun, RunRec
    <3>3. CASE OtherMove(t)
      BY <1>1, <3>3 DEF OtherMove, SameTask, Known
    <3> QED
      BY <1>1, <3>1, <3>2, <3>3, EveryMove
  <2>4. InstsOfTask(b) = {}
    BY <1>1, <2>1, <2>3 DEF Stocked
  <2> QED
    BY <1>3, <2>1, <2>2, <2>4, RowsOfTask
<1> QED
  BY <1>4, <1>5

LEMMA StoredStays ==
  ASSUME IdsApart, Barrier, [Next]_vars, NEW t \in TaskId,
         task'[t].kind = "Expand", StoredRun(run'[t])
  PROVE  run'[t].grp \subseteq InstsOfTask(run[t].key)'
<1>1. /\ IInv /\ Stocked(t) /\ run[t] \in RunRec /\ Known(run[t], task[t].kind) /\ RowsStay
  BY RunFacts, EveryRowWritten, EveryRowStays DEF Barrier, AllKnown, AllStocked
<1>2. CASE StoreNodes(t)
  <2>1. run[t].grp \subseteq InstsOfTask(run[t].key)' /\ run'[t].grp = run[t].grp
    BY <1>1, <1>2, StoreFacts DEF RunRec
  <2> QED
    BY <2>1
<1>3. CASE ~StoreNodes(t)
  <2>1. task[t].kind = "Expand" /\ ExpandMove(t)
    <3>1. ~IdleMove(t)
      BY DEF IdleMove, StoredRun
    <3> QED
      BY <1>1, <3>1, EveryMove DEF ExpandMove, OtherMove, SameTask
  <2>2. run'[t].pc = "node_poll" => run'[t] = run[t]
    BY <1>1, <1>3, PollFollowsStore
  <2>3. CASE GetsNodes(t)
    BY <1>1, <2>3 DEF GetsNodes, SameKeys, InstsQueryByTaskId, InstsOfTask, RowsStay
  <2>4. CASE ~GetsNodes(t)
    <3>1. StoredRun(run[t]) /\ run'[t].grp = run[t].grp /\ run'[t].key = run[t].key
      BY <1>1, <2>1, <2>2, <2>4
         DEF ExpandMove, SameHands, SameKeys, GetsTask, GetsMachines, MovesTo, StoredRun, RunRec
    <3>2. run[t].grp \subseteq InstsOfTask(run[t].key)
      BY <1>1, <2>1, <3>1 DEF Stocked
    <3> QED
      BY <1>1, <3>1, <3>2 DEF InstsOfTask, RowsStay
  <2> QED
    BY <2>3, <2>4
<1> QED
  BY <1>2, <1>3

LEMMA StockStays ==
  ASSUME IdsApart, IdsApart', Barrier, [Next]_vars
  PROVE  AllStocked'
  BY FreshStays, StoredStays DEF AllStocked, Stocked

LEMMA SentFacts ==
  ASSUME IInv, AllKnown, NEW g \in node, Sent(g)
  PROVE  /\ g \in Goroutine /\ g.task \in TaskId /\ g.inst \in Machine /\ g.key \in Key
         /\ <<g.key, g.inst>> \in RowId
         /\ task[g.task].kind = "Expand" => g.key \in BxTaskId
         /\ task[g.task].kind # "Expand" => g.key \in TaskId
<1>1. g \in Goroutine
  BY TypeParts DEF IInv, EnvTypeOK
<1> QED
  BY <1>1, KnownKeys DEF Goroutine, RowId, Sent

\* Two commands of one task for one machine are the same command.
LEMMA SameCommand ==
  ASSUME IInv, AllKnown, NEW g \in node, NEW h \in node, Sent(g), Sent(h), g.task = h.task
  PROVE  g.target = h.target /\ (g.inst = h.inst => g = h)
<1>1. g \in Goroutine /\ h \in Goroutine /\ g.key = h.key
  BY SentFacts DEF Sent
<1>2. g.target = h.target
  BY DEF Sent, BaseSent, SvcSent
<1> QED
  BY <1>1, <1>2 DEF Goroutine

\* Only the key of an expand's command is the id of a BridgX task.
LEMMA CommandKeys ==
  ASSUME IInv, AllKnown, NEW g \in node, Sent(g)
  PROVE  /\ task[g.task].kind = "Expand" => g.key \in BxTaskId /\ bx[g.key].kind # None
         /\ task[g.task].kind # "Expand" => g.key = g.task /\ task[g.key].kind = "Deploy"
<1>1. g.task \in TaskId /\ Known(run[g.task], task[g.task].kind)
  BY SentFacts DEF AllKnown
<1>2. CASE task[g.task].kind = "Expand"
  <2>1. g.key = run[g.task].key /\ g.key # 0
    BY <1>2, SentFacts, IdAssumption DEF Sent
  <2> QED
    BY <1>1, <1>2, <2>1, KnownKeys DEF Known
<1>3. CASE task[g.task].kind # "Expand"
  BY <1>3 DEF Sent
<1> QED
  BY <1>2, <1>3

\* The row of a command is written by the callback of no other one.
LEMMA OwnRow ==
  ASSUME IdsApart, Barrier, NEW g \in node, NEW h \in node, g.key = h.key, g.inst = h.inst
  PROVE  g = h
<1>1. /\ IInv /\ AllKnown /\ OwnBx /\ Sent(g) /\ Sent(h)
      /\ g.task \in TaskId /\ h.task \in TaskId
      /\ task[g.task].kind = "Expand" => g.key \in BxTaskId
      /\ task[g.task].kind # "Expand" => g.key \in TaskId
      /\ task[h.task].kind = "Expand" => h.key \in BxTaskId
      /\ task[h.task].kind # "Expand" => h.key \in TaskId
  BY SentFacts DEF Barrier, AllSent
<1>2. task[g.task].kind = "Expand" <=> task[h.task].kind = "Expand"
  BY <1>1, CommandKeys DEF IdsApart
<1>3. g.task = h.task
  BY <1>1, <1>2, KeysApart DEF Sent
<1> QED
  BY <1>1, <1>3, SameCommand

LEMMA BaseSentStays ==
  ASSUME IdsApart, Barrier, [Next]_vars, NEW g \in node, g \in node', task[g.task].kind = "Expand",
         Sent(g), BaseSent(g)
  PROVE  BaseSent(g)'
<1> DEFINE t == g.task
           r == <<g.key, g.inst>>
<1>1. /\ IInv /\ AllKnown /\ g \in Goroutine /\ t \in TaskId /\ r \in RowId /\ g.key = run[t].key
      /\ run[t] \in RunRec /\ run[t].i = 2 /\ run[t].pc \in {"node_poll", "finish", "done", "dead"}
      /\ Exists(r) /\ instance[r].status # "BASE" /\ g.target = "BASE" /\ instance[r] \in InstanceRow
  <2>1. g.task \in TaskId /\ r \in RowId /\ g \in Goroutine
    BY SentFacts DEF Barrier
  <2>2. g.key = run[g.task].key
    BY DEF Sent
  <2> QED
    BY <2>1, <2>2, RunFacts, TypeParts DEF Barrier, IInv, RowsOK, Sent, BaseSent
<1>2. run'[t].i = 2 /\ run'[t].pc \in {"node_poll", "finish", "done", "dead"}
  <2>1. ExpandMove(t)
    BY <1>1, EveryMove DEF IdleMove, OtherMove
  <2>2. ~(run[t].pc = "node_poll" /\ run'[t].pc = "node_list")
    <3> SUFFICES ASSUME run[t].pc = "node_poll", run'[t].pc = "node_list" PROVE FALSE
      OBVIOUS
    <3>1. Target(Instr(t)) = "BASE"
      BY <1>1, ExpandCalls DEF Target
    <3>2. InstsQueryByTaskId(run[t].key, "BASE") = InstsOfTask(run[t].key)
      BY <1>1, <3>1, PollPassed
    <3>3. g.inst \in InstsOfTask(run[t].key)
      BY <1>1 DEF InstsOfTask, Goroutine
    <3> QED
      BY <1>1, <3>2, <3>3 DEF InstsQueryByTaskId
  <2> QED
    BY <1>1, <2>1, <2>2 DEF ExpandMove, GetsTask, GetsMachines, GetsNodes, RunRec
<1>3. instance'[r].status # "BASE"
  <2>1. Written(r) /\ r[1] = g.key /\ r[2] = g.inst
    BY <1>1, EveryRowWritten
  <2> HIDE DEF r
  <2>2. ~Added(r)
    BY <1>1 DEF Added
  <2>3. \A status : Updated(r, status) => instance'[r].status = status
    BY <1>1 DEF Updated, InstanceRow
  <2>4. ASSUME NEW h \in node, node' = node \ {h}, r = <<h.key, h.inst>> PROVE FALSE
    <3>1. h.key = g.key /\ h.inst = g.inst
      BY <2>1, <2>4
    <3>2. h = g
      BY <3>1, OwnRow
    <3> QED
      BY <2>4, <3>2
  <2> QED
    BY <1>1, <2>1, <2>2, <2>3, <2>4 DEF Written
<1> QED
  BY <1>1, <1>2, <1>3 DEF BaseSent

LEMMA SvcSentStays ==
  ASSUME IInv, [Next]_vars, NEW g \in node, task[g.task].kind = "Expand", g.task \in TaskId,
         run[g.task].pc # "idle", SvcSent(g)
  PROVE  SvcSent(g)'
<1> DEFINE t == g.task
<1>1. run[t] \in RunRec /\ ExpandMove(t)
  BY RunFacts, EveryMove DEF IdleMove, OtherMove
<1>2. run'[t].i > 3 \/ (run'[t].i = 3 /\ run'[t].pc \notin {"next", "store"})
  BY <1>1 DEF ExpandMove, GetsTask, GetsMachines, GetsNodes, RunRec, SvcSent
<1> QED
  BY <1>2 DEF SvcSent

LEMMA OldSentStays ==
  ASSUME IdsApart, Barrier, [Next]_vars, NEW g \in node, g \in node'
  PROVE  Sent(g)'
<1> DEFINE t == g.task
           r == <<g.key, g.inst>>
<1>1. /\ IInv /\ AllKnown /\ Sent(g) /\ t \in TaskId /\ g.inst \in Machine /\ r \in RowId
      /\ RowsStay /\ MachinesStay /\ run[t] \in RunRec /\ run[t].pc # "idle"
  <2>1. IInv /\ AllKnown /\ Sent(g)
    BY DEF Barrier, AllSent
  <2> QED
    BY <2>1, SentFacts, RunFacts, CloudStays, EveryRowWritten, EveryRowStays DEF Sent
<1>2. run'[t].pc # "idle" /\ SameTask(t)
  BY <1>1, NotIdleAgain
<1>3. Exists(r)' /\ PlacedIn(g.inst, task[t].cluster)'
  BY <1>1, <1>2, PlaceStays DEF Sent, RowsStay, PlacedIn, SameTask
<1>4. CASE task[t].kind = "Expand"
  <2>1. BaseSent(g)' \/ SvcSent(g)'
    BY <1>1, <1>4, BaseSentStays, SvcSentStays DEF Sent
  <2>2. ExpandMove(t) /\ g.key = run[t].key /\ g.key # 0
    BY <1>1, <1>4, EveryMove DEF IdleMove, OtherMove, Sent
  <2>3. run'[t].key = run[t].key
    <3>1. ~GetsMachines(t)
      BY <1>1, <2>2 DEF GetsMachines, Barrier, AllKnown, Known, Unkeyed
    <3> QED
      BY <2>2, <3>1 DEF ExpandMove, SameHands, SameKeys, GetsTask, GetsNodes
  <2> QED
    BY <1>2, <1>3, <1>4, <2>1, <2>2, <2>3 DEF Sent, SameTask
<1>5. CASE task[t].kind # "Expand"
  <2>1. /\ g.key = t /\ task[t].kind = "Deploy"
        /\ run[t].pc \in {"deploy_wait", "dead"} /\ g.target = Target(Instr(t))
    BY <1>1, <1>5 DEF Sent
  <2>2. run'[t].pc \in {"deploy_wait", "dead"}
    <3>1. CASE run[t].pc = "deploy_wait"
      BY <1>1, <3>1, WaitPassed DEF InFlight
    <3>2. CASE run[t].pc = "dead"
      <4>1. ~RunStep(t)
        BY <3>2 DEF RunStep, At, BeginInstr, BeginInstrFails, SaveRelation, SaveRelationFails, ExpandCall,
         ExpandPolled, GetCluster, StoreNodes, NodePolled, NodeListed, MountCall, MountDb, UmountQuery,
         UmountCall, UmountDb, ShrinkPick, ShrinkPickFails, ShrinkCall, ShrinkPolled, ShrinkDb,
         DeployInstances, DeployMark, DeployInsert, DeployQuery, DeployWaited, Finish, InstrFails, Calls
      <4> QED
        BY <1>1, <3>2, <4>1, StepAt
    <3> QED
      BY <2>1, <3>1, <3>2
  <2>3. run'[t].i = run[t].i
    BY <1>1, <1>2, <2>1, <2>2, EveryRunMoves
       DEF Move, PlainMove, GetsTask, GetsMachines, GetsNodes, GetsCluster, MovesTo, Leaves, GoesOn, Errs,
           CallPairs, RunRec
  <2>4. Target(Instr(t))' = Target(Instr(t))
    BY <1>2, <2>3 DEF SameTask, Instr, Target
  <2> QED
    BY <1>2, <1>3, <1>5, <2>1, <2>2, <2>4 DEF Sent, SameTask
<1> QED
  BY <1>4, <1>5

\* The commands of an initialisation: the row of the first one is new.
LEMMA StoreSent ==
  ASSUME IdsApart, Barrier, [Next]_vars, NEW t \in TaskId, StoreNodes(t),
         NEW g \in node', g \notin node
  PROVE  Sent(g)'
<1>1. /\ IInv /\ run[t] \in RunRec /\ Known(run[t], task[t].kind) /\ Place(t) /\ Stocked(t)
      /\ MachinesStay /\ SameTask(t)
  <2>1. IInv /\ run[t].pc # "idle"
    BY StoreFacts DEF Barrier
  <2> QED
    BY <2>1, RunFacts, CloudStays, NotIdleAgain DEF Barrier, AllKnown, AllPlaced, AllStocked
<1>2. /\ run[t].pc = "store" /\ task[t].kind = "Expand" /\ run[t].i \in {2, 3}
      /\ run[t].key \in BxTaskId /\ run[t].key # 0 /\ run[t].key = run[t].bx
      /\ run'[t].pc = "node_poll" /\ run'[t].i = run[t].i /\ run'[t].key = run[t].key
      /\ run[t].grp \subseteq Machine
  <2>1. run'[t] = [run[t] EXCEPT !.pc = "node_poll"]
    BY <1>1, StoreFacts
  <2> QED
    BY <1>1, <2>1, StoreFacts DEF Known, RunRec
<1>3. g \in CommandsOf(t, run[t].key, run[t].grp)
  BY NewCommands
<1>4. PICK m \in run[t].grp : g = [task |-> t, key |-> run[t].key, inst |-> m, target |-> Target(Instr(t))]
  BY <1>3 DEF CommandsOf
<1>5. PICK k \in BxTaskId : k = run[t].key
  BY <1>2
<1>6. /\ g.task = t /\ g.key = k /\ g.inst = m /\ g.target = Target(Instr(t)) /\ m \in Machine
      /\ <<k, m>> \in RowId
  BY <1>2, <1>4, <1>5 DEF RowId, Key
<1>7. instance'[<<k, m>>] = IF ~Exists(<<k, m>>) THEN NewRow(StoredCluster(t)) ELSE instance[<<k, m>>]
  BY <1>5, <1>6 DEF StoreNodes, UpInsertInstanceBatch
<1>8. Exists(<<k, m>>)'
  BY <1>7 DEF Exists, NewRow, None
<1>9. PlacedIn(m, task[t].cluster)'
  BY <1>1, <1>6, PlaceStays DEF Place, PlacedIn, SameTask
<1>10. CASE run[t].i = 2
  <2>1. ~Exists(<<k, m>>)
    <3>1. InstsOfTask(run[t].bx) = {}
      BY <1>1, <1>2, <1>10 DEF Stocked, FreshRun
    <3> QED
      BY <1>2, <1>5, <1>6, <3>1 DEF InstsOfTask
  <2>2. instance'[<<k, m>>].status # "BASE"
    BY <1>7, <2>1 DEF NewRow
  <2>3. g.target = "BASE"
    BY <1>1, <1>2, <1>6, <1>10, ExpandCalls DEF Target
  <2>4. BaseSent(g)'
    BY <1>2, <1>6, <1>10, <2>2, <2>3 DEF BaseSent
  <2> QED
    BY <1>1, <1>2, <1>5, <1>6, <1>8, <1>9, <2>4 DEF Sent, SameTask
<1>11. CASE run[t].i = 3
  <2>1. g.target = "SVC"
    BY <1>1, <1>2, <1>6, <1>11, ExpandCalls DEF Target
  <2>2. SvcSent(g)'
    BY <1>2, <1>6, <1>11, <2>1 DEF SvcSent
  <2> QED
    BY <1>1, <1>2, <1>5, <1>6, <1>8, <1>9, <2>2 DEF Sent, SameTask
<1> QED
  BY <1>2, <1>10, <1>11

\* The commands of a deploy instruction.
LEMMA DeploySent ==
  ASSUME IdsApart, Barrier, [Next]_vars, NEW t \in TaskId, DeployInsert(t) \/ DeployQuery(t),
         NEW g \in node', g \notin node
  PROVE  Sent(g)'
<1>1. /\ IInv /\ run[t] \in RunRec /\ Place(t) /\ MachinesStay /\ SameTask(t)
      /\ run[t].pc \in {"deploy_insert", "deploy_query"} /\ task[t].kind = "Deploy"
      /\ run'[t] = [run[t] EXCEPT !.pc = "deploy_wait"]
  <2>1. IInv /\ AllKnown
    BY DEF Barrier
  <2> QED
    BY <2>1, RunFacts, CloudStays, NotIdleAgain, DeployFacts, OnlyDeploys DEF Barrier, AllPlaced
<1>2. run'[t].pc = "deploy_wait" /\ run'[t].i = run[t].i
  BY <1>1 DEF RunRec
<1>3. Target(Instr(t))' = Target(Instr(t))
  BY <1>1, <1>2 DEF SameTask, Instr, Target
<1> DEFINE ms == IF DeployInsert(t) THEN run[t].grp ELSE InstsQueryByTaskId(t, Previous(Instr(t)))
<1>4. g \in CommandsOf(t, t, ms)
  BY NewCommands
<1>5. PICK m \in ms : g = [task |-> t, key |-> t, inst |-> m, target |-> Target(Instr(t))]
  BY <1>4 DEF CommandsOf
<1>6. g.task = t /\ g.key = t /\ g.inst = m /\ g.target = Target(Instr(t))
  BY <1>5
<1>7. Exists(<<t, m>>)' /\ PlacedIn(m, task[t].cluster)'
  <2>1. CASE DeployInsert(t)
    <3>1. m \in run[t].grp /\ <<t, m>> \in RowId
      BY <1>1, <1>5, <2>1 DEF RunRec, RowId, Key
    <3>2. instance'[<<t, m>>] = NewRow(task[t].cluster)
      BY <2>1, <3>1 DEF DeployInsert, BatchCreate
    <3>3. Exists(<<t, m>>)'
      BY <3>2 DEF Exists, NewRow, None
    <3>4. m \in Machine /\ PlacedIn(m, task[t].cluster)
      BY <1>1, <3>1 DEF Place, RunRec
    <3> QED
      BY <1>1, <3>3, <3>4, PlaceStays DEF PlacedIn, SameTask
  <2>2. CASE ~DeployInsert(t)
    <3>1. m \in InstsOfTask(t) /\ UNCHANGED instance
      BY <1>5, <2>2 DEF InstsQueryByTaskId, DeployQuery
    <3>2. m \in Machine /\ <<t, m>> \in RowId /\ Exists(<<t, m>>)
      BY <3>1 DEF InstsOfTask
    <3>3. Exists(<<t, m>>)'
      BY <3>1, <3>2 DEF Exists
    <3>4. RowOf(<<t, m>>)
      BY <3>2 DEF Barrier, AllRows
    <3>5. PlacedIn(m, task[t].cluster)
      BY <1>1, <3>2, <3>4 DEF RowOf, IdsApart
    <3> QED
      BY <1>1, <3>2, <3>3, <3>5, PlaceStays DEF PlacedIn, SameTask
  <2> QED
    BY <2>1, <2>2
<1> QED
  BY <1>1, <1>2, <1>3, <1>6, <1>7 DEF Sent, SameTask

LEMMA SentStays ==
  ASSUME IdsApart, Barrier, [Next]_vars
  PROVE  AllSent'
<1>1. ASSUME NEW g \in node', g \notin node PROVE Sent(g)'
  BY <1>1, CommandsStart, StoreSent, DeploySent DEF Starts
<1> QED
  BY <1>1, OldSentStays DEF AllSent

-----------------------------------------------------------------------------
(* The invariant holds at first and is kept. *)

LEMMA NextBarrier ==
  ASSUME IdsApart, IdsApart', Barrier, [Next]_vars
  PROVE  Barrier'
<1>1. IInv'
  BY NextIInv DEF Barrier
<1> QED
  BY <1>1, KnownStays, OwnBxStays, RowsStayPlaced, PlaceStaysInCluster, StockStays, SentStays DEF Barrier

\* The choice of Init is the least id of a BridgX task.
LEMMA LeastId ==
  ASSUME NEW S, S \subseteq Nat, S # {}
  PROVE  \E b \in S : \A c \in S : b <= c
<1>1. IsWellFoundedOn(OpToRel(<, Nat), Nat)
  BY NatLessThanWellFounded
<1>2. PICK b \in S : \A c \in S : ~ (<<c, b>> \in OpToRel(<, Nat))
  BY <1>1, WFMin, Zenon
<1>3. \A c \in S : ~ (c < b)
  BY <1>2 DEF OpToRel
<1> QED
  BY <1>3

LEMMA InitBarrier ==
  ASSUME Init
  PROVE  Barrier
<1> DEFINE b0 == CHOOSE b \in BxTaskId : \A c \in BxTaskId : b <= c
           c0 == CHOOSE c \in Cluster : TRUE
<1>1. /\ IInv /\ run = [t \in TaskId |-> NewRun] /\ task = [t \in TaskId |-> NoTask] /\ node = {}
      /\ instance = [r \in RowId |-> IF r[2] \in Mounted /\ r[1] = b0
                                     THEN [status |-> "ALB", cluster |-> c0] ELSE NoRow]
      /\ bx = [b \in BxTaskId |-> IF Mounted # {} /\ b = b0
                 THEN [kind |-> "expand", state |-> "done", machines |-> Mounted] ELSE NoBxTask]
      /\ machine = [m \in Machine |-> IF m \in Mounted
                      THEN [state |-> "running", cluster |-> c0] ELSE [state |-> None, cluster |-> 0]]
  BY InitIInv DEF Init
<1>2. Mounted # {} => b0 \in BxTaskId
  <2> SUFFICES ASSUME Mounted # {} PROVE b0 \in BxTaskId
    OBVIOUS
  <2>1. BxTaskId \subseteq Nat /\ BxTaskId # {}
    BY IdAssumption, TemplateAssumption
  <2>2. \E b \in BxTaskId : \A c \in BxTaskId : b <= c
    BY <2>1, LeastId
  <2> QED
    BY <2>2
<1> HIDE DEF b0, c0
<1>3. \A t \in TaskId : run[t].pc = "idle" /\ run[t].i = 1 /\ run[t].grp = {} /\ run[t].key = 0 /\ run[t].bx = 0
  BY <1>1 DEF NewRun
<1>4. AllKnown /\ OwnBx
  BY <1>3 DEF AllKnown, Known, OwnBx
<1>5. AllPlaced /\ AllStocked
  BY <1>3 DEF AllPlaced, Place, AllStocked, Stocked, FreshRun, StoredRun
<1>6. AllSent
  BY <1>1 DEF AllSent
<1>7. AllRows
  <2> SUFFICES ASSUME NEW r \in RowId, Exists(r) PROVE RowOf(r)
    BY DEF AllRows, RowOf
  <2>1. r[2] \in Mounted /\ r[1] = b0 /\ instance[r].cluster = c0
    BY <1>1 DEF Exists, NoRow
  <2>2. b0 \in BxTaskId
    BY <1>2, <2>1
  <2>3. PlacedIn(r[2], c0)
    BY <1>1, <2>1, TemplateAssumption DEF PlacedIn, None
  <2>4. bx[b0].kind = "expand"
    BY <1>1, <2>1, <2>2
  <2> QED
    BY <2>1, <2>2, <2>3, <2>4 DEF RowOf, None
<1> QED
  BY <1>1, <1>4, <1>5, <1>6, <1>7 DEF Barrier

LEMMA AlwaysBarrier == Spec /\ []IdsApart => []Barrier
<1>1. Init => Barrier
  BY InitBarrier
<1>2. Barrier /\ [Next]_vars /\ IdsApart /\ IdsApart' => Barrier'
  BY NextBarrier
<1> QED
  BY <1>1, <1>2, PTL DEF Spec

-----------------------------------------------------------------------------
(* The poll between base and service initialisation, and wg.Wait between the  *)
(* instructions of a deploy, are barriers: no two commands a task has in      *)
(* flight belong to different instructions, and none runs twice on a machine. *)
THEOREM PhasesAreBarriers == Spec /\ []IdsApart => []PhaseBarrier
<1>1. Barrier => PhaseBarrier
  BY SameCommand DEF PhaseBarrier, Barrier, AllSent
<1> QED
  BY <1>1, AlwaysBarrier, PTL

(* A task handles machines of its own service cluster only, and a row carries *)
(* the cluster of its machine although ServiceEnvInitAsync passes cluster 0:  *)
(* its NodeUpdateStore finds the rows of the base initialisation, adds none.  *)
THEOREM ClustersAreApart == Spec /\ []IdsApart => []WorksInOwnCluster
<1>1. Barrier => WorksInOwnCluster
  BY DEF WorksInOwnCluster, Barrier, AllPlaced, Place, AllRows, RowOf, AllSent, Sent, PlacedIn
<1> QED
  BY <1>1, AlwaysBarrier, PTL

-----------------------------------------------------------------------------
(* The stages of a deploy *)

DeployCalls == {"deploy_instances", "deploy_mark", "deploy_insert", "deploy_wait", "deploy_query"}

LEMMA DeployGroup ==
  ASSUME IInv, NEW t \in TaskId, task[t].kind = "Deploy"
  PROVE  /\ run[t].i \in 1..5 /\ GroupLen(task[t].kind) = 5
         /\ run[t].pc \in Calls => run[t].pc \in DeployCalls
         /\ run[t].pc # "relation" /\ ~HasRelation(t)
         /\ run[t].i = 1 => FirstCall(Instr(t)) = "deploy_instances"
         /\ run[t].i > 1 => FirstCall(Instr(t)) = "deploy_query"
         /\ run[t].pc = "deploy_query" => run[t].i > 1
<1>1. run[t].i \in 1..5 /\ Consistent(run[t], task[t].kind)
  BY RunFacts DEF RunRec, MaxInstr
<1>2. Instr(t) = InstanceDeployStep[run[t].i]
  BY DEF Instr, InstrAt
<1>3. /\ Instr(t) \in DeployActions
      /\ run[t].i = 1 <=> Instr(t) = "nodeact.before_download"
  BY <1>1, <1>2 DEF InstanceDeployStep, DeployActions
<1>4. run[t].pc \in Calls => run[t].pc \in CallsOf(Instr(t))
  BY <1>1 DEF Consistent, Instr
<1>5. /\ run[t].pc \in Calls => run[t].pc \in DeployCalls
      /\ run[t].pc = "deploy_query" => run[t].i # 1
  BY <1>3, <1>4 DEF DeployActions, CallsOf, DeployCalls, Calls
<1>6. /\ ~HasRelation(t)
      /\ FirstCall(Instr(t)) = IF run[t].i = 1 THEN "deploy_instances" ELSE "deploy_query"
  BY <1>3 DEF DeployActions, HasRelation, FirstCall
<1>7. run[t].pc # "relation" /\ GroupLen(task[t].kind) = 5
  BY <1>1 DEF Consistent, GroupLen
<1> QED
  BY <1>1, <1>5, <1>6, <1>7

\* What one instruction leaves behind is what the next one looks for.
LEMMA StagesFit ==
  ASSUME NEW i \in 1..5
  PROVE  /\ i < 5 => Target(InstrAt("Deploy", i)) = Previous(InstrAt("Deploy", i + 1))
         /\ i = 5 => Target(InstrAt("Deploy", i)) = "AFTER_DEPLOY"
  BY DEF Target, Previous, InstrAt, InstanceDeployStep

LEMMA DeploySteps ==
  ASSUME IInv, NEW t \in TaskId, task[t].kind = "Deploy", RunStep(t)
  PROVE  \/ BeginInstr(t) \/ BeginInstrFails(t) \/ DeployInstances(t) \/ DeployMark(t)
         \/ DeployInsert(t) \/ DeployQuery(t) \/ DeployWaited(t) \/ InstrFails(t) \/ Finish(t)
<1>1. run[t].pc # "relation" /\ (run[t].pc \in Calls => run[t].pc \in DeployCalls)
  BY DeployGroup
<1> QED
  BY <1>1 DEF RunStep, At, SaveRelation, SaveRelationFails, ExpandCall,
         ExpandPolled, GetCluster, StoreNodes, NodePolled, NodeListed, MountCall, MountDb, UmountQuery,
         UmountCall, UmountDb, ShrinkPick, ShrinkPickFails, ShrinkCall, ShrinkPolled, ShrinkDb,
         Calls, DeployCalls

\* Who writes the status of a task: the request, the end of the task, a panic of an expand.
LEMMA WhoWritesStatus ==
  ASSUME IInv, [Next]_vars, NEW t \in TaskId
  PROVE  \/ SameRow(t)
         \/ Finish(t) /\ task'[t].kind = task[t].kind /\ task'[t].status \in {task[t].status, FinalStatus(run[t])}
         \/ Creates(t)
         \/ TaskPanics(t) /\ task[t].kind = "Expand" /\ task'[t].kind = "Expand" /\ Dies
<1>1. task \in [TaskId -> TaskRow]
  BY TypeParts DEF IInv, TasksOK
<1>2. CASE Request
  <2>1. PICK u \in TaskId : \E kind, sc, cnt, isRollback : CreateAndRun(u, kind, sc, cnt, isRollback)
    BY <1>2 DEF Request, ExpandAction, ShrinkAction, DeployAction
  <2>2. OthersKept(u) /\ Creates(u)
    BY <2>1, CreateSeen
  <2> QED
    BY <2>2 DEF OthersKept
<1>3. ASSUME NEW u \in TaskId, Finish(u)
      PROVE  SameRow(t) \/ (Finish(t) /\ task'[t].kind = task[t].kind
                              /\ task'[t].status \in {task[t].status, FinalStatus(run[t])})
  <2>1. \/ UNCHANGED task
        \/ task' = [task EXCEPT ![u].status = FinalStatus(run[u])]
    BY <1>3 DEF Finish, UpdateTaskStatus
  <2> QED
    BY <1>1, <1>3, <2>1 DEF SameRow, TaskRow
<1>4. ASSUME NEW u \in TaskId, RunStep(u), ~Finish(u) PROVE SameRow(t)
  <2>1. CASE SaveRelation(u)
    BY <1>1, <2>1 DEF SaveRelation, UpdateTaskRelationTaskId, TaskRow, SameRow
  <2>2. CASE ~SaveRelation(u)
    <3>1. (\E phase : WriteStep(u, phase)) \/ UNCHANGED task
      BY <1>4, <2>2 DEF RunStep, BeginInstr, BeginInstrFails, SaveRelationFails, ExpandCall,
         ExpandPolled, GetCluster, StoreNodes, NodePolled, NodeListed, MountCall, MountDb, UmountQuery,
         UmountCall, UmountDb, ShrinkPick, ShrinkPickFails, ShrinkCall, ShrinkPolled, ShrinkDb,
         DeployInstances, DeployMark, DeployInsert, DeployQuery, DeployWaited, InstrFails, Succeed, Fail
    <3> QED
      BY <3>1, StepKeepsRows
  <2> QED
    BY <2>1, <2>2
<1>5. ASSUME NEW u \in TaskId, TaskPanics(u)
      PROVE  SameRow(t) \/ (TaskPanics(t) /\ task[t].kind = "Expand" /\ task'[t].kind = "Expand" /\ Dies)
  <2>0. Dies
    BY <1>5 DEF TaskPanics, ProcessDies, Dies
  <2>1. run[u].pc \in {"get_cluster", "node_list"} /\ run[u].i \in 1..MaxInstr
    BY <1>5, RunFacts DEF TaskPanics, At, RunRec
  <2>2. task[u].kind = "Expand" /\ task'[u].kind = task[u].kind
    BY <2>1, PcInstr, RelationIsExpand, InitNodesIsExpand, RunFacts, EveryTaskStays
       DEF Instr, Consistent, TasksStay, SameTask
  <2>3. PICK done \in {task, UpdateTaskStep(task, u, InstrStep(u, "SUCC"))} :
          task' = UpdateTaskStatus(done, u, "SUCC") \/ task' = done
    BY <1>5 DEF TaskPanics
  <2>4. t # u => task'[t] = task[t]
    BY <1>1, <2>3 DEF UpdateTaskStep, UpdateTaskStatus
  <2> QED
    BY <1>5, <2>0, <2>2, <2>4 DEF SameRow
<1>6. CASE \/ \E u \in TaskId : PollPanics(u)
           \/ Crash \/ Restart \/ Idle \/ UNCHANGED vars
           \/ (\E g \in node : NodeStep(g)) \/ \E b \in BxTaskId : BxStep(b)
  <2>1. UNCHANGED task
    BY <1>6 DEF PollPanics, Crash, Restart, Idle, vars, NodeStep, NodeReturns, BxStep
  <2> QED
    BY <2>1 DEF SameRow
<1> QED
  BY <1>2, <1>3, <1>4, <1>5, <1>6 DEF Next, Panic

Commanded(t, m) == \E g \in InFlight(t) : g.inst = m

Says(t, status) ==
    \A m \in run[t].grp : instance[<<t, m>>].status \in {status, "FAIL", "DELETED"}

Final(t) == Says(t, "AFTER_DEPLOY") /\ t \notin deploy_err

(* Before an instruction the rows of a deploy say what its predecessor left; *)
(* while it is waited for, a row says what it leaves or has its command; and *)
(* what the last one left is still there when the task is reported SUCC.     *)
Staged(t) ==
    task[t].kind = "Deploy" =>
        /\ (run[t].i > 1 /\ run[t].pc \in {"next", "deploy_query"}) => Says(t, Previous(Instr(t)))
        /\ run[t].pc = "deploy_wait" =>
              \A m \in run[t].grp :
                 \/ instance[<<t, m>>].status \in {Target(Instr(t)), "FAIL", "DELETED"}
                 \/ Commanded(t, m)
        /\ (run[t].pc = "finish" /\ ~run[t].err) => Final(t)
        /\ task[t].status = "SUCC" => run[t].pc = "done" /\ Final(t)

AllStaged == \A t \in TaskId : Staged(t)

LEMMA InitStaged == Init => AllStaged
  BY DEF Init, AllStaged, Staged, NoTask, None

\* Only its own commands and the marks of others write to the rows of a deploy.
LEMMA DeployRow ==
  ASSUME IdsApart, Barrier, [Next]_vars, NEW t \in TaskId, NEW m \in Machine,
         task[t].kind = "Deploy", run'[t] = run[t]
  PROVE  \/ instance'[<<t, m>>].status \in {instance[<<t, m>>].status, "DELETED"}
         \/ \E g \in InFlight(t) :
               /\ g.inst = m /\ node' = node \ {g}
               /\ instance'[<<t, m>>].status \in {g.target, "FAIL"}
<1>1. PICK r : r = <<t, m>>
  OBVIOUS
<1>2. r \in RowId /\ r[1] = t /\ r[2] = m
  BY <1>1 DEF RowId, Key
<1>3. IInv /\ AllKnown /\ AllSent /\ Written(r) /\ instance[r] \in InstanceRow
  BY <1>2, EveryRowWritten, TypeParts DEF Barrier, IInv, RowsOK
<1>4. \A status : Updated(r, status) => instance'[r].status = status
  BY <1>3 DEF Updated, InstanceRow
<1>5. ASSUME NEW u \in TaskId, run[u].key = t, run[u].key # 0 PROVE FALSE
  BY <1>3, <1>5, KnownKeys DEF AllKnown, Known, IdsApart
<1>6. ~Added(r)
  <2>1. ~DeployInsert(t)
    <3> SUFFICES ASSUME DeployInsert(t) PROVE FALSE
      OBVIOUS
    <3>1. run'[t].pc = "deploy_wait" /\ run[t].pc # "deploy_wait"
      BY <1>3, DeployFacts, RunFacts DEF RunRec
    <3> QED
      BY <3>1
  <2>2. ASSUME NEW u \in TaskId, StoreNodes(u), run[u].key = t PROVE FALSE
    BY <1>3, <1>5, <2>2, StoreFacts
  <2> QED
    BY <1>2, <2>1, <2>2 DEF Added
<1>7. ASSUME NEW g \in node, r = <<g.key, g.inst>>
      PROVE  g \in InFlight(t) /\ g.inst = m
  <2>1. g.key = t /\ g.inst = m
    BY <1>1, <1>7
  <2>2. g.task = t
    BY <1>3, <2>1, CommandKeys DEF AllSent, IdsApart
  <2> QED
    BY <2>1, <2>2 DEF InFlight
<1>8. \/ instance'[r].status \in {instance[r].status, "DELETED"}
      \/ \E g \in InFlight(t) : /\ g.inst = m /\ node' = node \ {g}
                                /\ instance'[r].status \in {g.target, "FAIL"}
  <2>1. CASE instance'[r] = instance[r] \/ Updated(r, "DELETED")
    BY <1>4, <2>1
  <2>2. CASE \E u \in TaskId : run[u].pc = "mount_db" /\ r[1] = run[u].key /\ run[u].key # 0
    BY <1>2, <1>5, <2>2
  <2>3. CASE \E g \in node : /\ node' = node \ {g} /\ UNCHANGED run /\ r = <<g.key, g.inst>>
                             /\ \E status \in {g.target, "FAIL"} : Updated(r, status)
    BY <1>4, <1>7, <2>3
  <2> QED
    BY <1>3, <1>6, <2>1, <2>2, <2>3 DEF Written
<1> QED
  BY <1>1, <1>8

\* A command that is gone has returned, or died with its task.
LEMMA CommandEnds ==
  ASSUME [Next]_vars, NEW g \in node, g \notin node'
  PROVE  NodeStep(g) \/ Dies
<1>1. ASSUME NEW t \in TaskId, RunStep(t) PROVE FALSE
  <2>1. CASE Starts
    BY <2>1 DEF Starts, StoreNodes, DeployInsert, DeployQuery, Spawn
  <2>2. CASE ~Starts
    <3>1. UNCHANGED node
      BY <1>1, <2>2
         DEF RunStep, Starts, BeginInstr, BeginInstrFails, SaveRelation, SaveRelationFails, ExpandCall,
         ExpandPolled, GetCluster, NodePolled, NodeListed, MountCall, MountDb, UmountQuery,
         UmountCall, UmountDb, ShrinkPick, ShrinkPickFails, ShrinkCall, ShrinkPolled, ShrinkDb,
         DeployInstances, DeployMark, DeployWaited, InstrFails, Finish, envVars
    <3> QED
      BY <3>1
  <2> QED
    BY <2>1, <2>2
<1>2. CASE Request \/ Restart \/ Idle \/ UNCHANGED vars \/ \E b \in BxTaskId : BxStep(b)
  BY <1>2 DEF Request, ExpandAction, ShrinkAction, DeployAction, CreateAndRun, Restart, Idle, vars,
              BxStep, envVars
<1>3. CASE Panic \/ Crash
  BY <1>3 DEF Panic, TaskPanics, PollPanics, Crash, ProcessDies, Dies
<1>4. CASE \E h \in node : NodeStep(h)
  BY <1>4 DEF NodeStep, NodeReturns
<1> QED
  BY <1>1, <1>2, <1>3, <1>4 DEF Next

LEMMA CommandWrites ==
  ASSUME Stores, IInv, NEW g \in node, NodeStep(g), <<g.key, g.inst>> \in RowId, Exists(<<g.key, g.inst>>)
  PROVE  instance'[<<g.key, g.inst>>].status \in {g.target, "FAIL"}
<1>1. PICK r : r = <<g.key, g.inst>>
  OBVIOUS
<1>2. r \in RowId /\ Exists(r) /\ instance[r] \in InstanceRow
  BY <1>1, TypeParts DEF IInv, RowsOK
<1>3. PICK ok \in Outcomes("ssh") : instance' = UpdateInst(g.key, g.inst, Reported(g, ok))
  BY StoresAlways DEF NodeStep, NodeReturns
<1>4. instance'[r] = [instance[r] EXCEPT !.status = Reported(g, ok)]
  BY <1>1, <1>2, <1>3 DEF UpdateInst
<1>5. instance'[r].status \in {g.target, "FAIL"}
  BY <1>2, <1>4 DEF Reported, InstanceRow
<1> QED
  BY <1>1, <1>5

\* A deploy with no command in flight gets no error.
LEMMA ErrStays ==
  ASSUME [Next]_vars, NEW t \in TaskId, t \notin deploy_err, InFlight(t) = {}
  PROVE  t \notin deploy_err'
<1>1. ASSUME NEW u \in TaskId, RunStep(u) PROVE deploy_err' \subseteq deploy_err
  <2>1. CASE Starts
    <3>1. PICK v \in TaskId : StoreNodes(v) \/ DeployInsert(v) \/ DeployQuery(v)
      BY <2>1 DEF Starts
    <3> QED
      BY <3>1 DEF StoreNodes, DeployInsert, DeployQuery, Spawn
  <2>2. CASE ~Starts
    BY <1>1, <2>2
       DEF RunStep, Starts, BeginInstr, BeginInstrFails, SaveRelation, SaveRelationFails, ExpandCall,
         ExpandPolled, GetCluster, NodePolled, NodeListed, MountCall, MountDb, UmountQuery,
         UmountCall, UmountDb, ShrinkPick, ShrinkPickFails, ShrinkCall, ShrinkPolled, ShrinkDb,
         DeployInstances, DeployMark, DeployWaited, InstrFails, Finish, envVars
  <2> QED
    BY <2>1, <2>2
<1>2. CASE \/ Request \/ Restart \/ Idle \/ UNCHANGED vars \/ Panic \/ Crash
           \/ \E b \in BxTaskId : BxStep(b)
  BY <1>2 DEF Request, ExpandAction, ShrinkAction, DeployAction, CreateAndRun, Restart, Idle, vars,
              Panic, TaskPanics, PollPanics, Crash, ProcessDies, BxStep, envVars
<1>3. ASSUME NEW g \in node, NodeStep(g) PROVE t \notin deploy_err'
  <2>1. g.task # t
    BY DEF InFlight
  <2> QED
    BY <1>3, <2>1 DEF NodeStep, NodeReturns
<1> QED
  BY <1>1, <1>2, <1>3 DEF Next

LEMMA NoCommand ==
  ASSUME Barrier, NEW t \in TaskId, task[t].kind = "Deploy", run[t].pc \notin {"deploy_wait", "dead"}
  PROVE  InFlight(t) = {}
  BY DEF Barrier, AllSent, Sent, InFlight

\* What the rows of a deploy say stays said.
LEMMA SaysStays ==
  ASSUME IdsApart, Barrier, [Next]_vars, NEW t \in TaskId, NEW status, task[t].kind = "Deploy",
         run'[t] = run[t], InFlight(t) = {}, Says(t, status)
  PROVE  \A m \in run'[t].grp : instance'[<<t, m>>].status \in {status, "FAIL", "DELETED"}
<1> TAKE m \in run'[t].grp
<1>1. m \in run[t].grp /\ m \in Machine
  BY RunFacts DEF Barrier, RunRec
<1> QED
  BY <1>1, DeployRow DEF Says

\* While a deploy waits, a row says what it should or its command goes on.
LEMMA WaitStays ==
  ASSUME Stores, IdsApart, Barrier, [Next]_vars, NEW t \in TaskId, task[t].kind = "Deploy",
         run'[t] = run[t], run[t].pc = "deploy_wait", NEW m \in Machine,
         \/ instance[<<t, m>>].status \in {Target(Instr(t)), "FAIL", "DELETED"}
         \/ Commanded(t, m)
  PROVE  \/ instance'[<<t, m>>].status \in {Target(Instr(t)), "FAIL", "DELETED"}
         \/ Commanded(t, m)'
<1>1. \A g \in InFlight(t) : /\ g \in node /\ Sent(g) /\ g.target = Target(Instr(t)) /\ g.key = t
                             /\ g.task = t
  BY DEF InFlight, Barrier, AllSent, Sent
<1>2. CASE instance[<<t, m>>].status \in {Target(Instr(t)), "FAIL", "DELETED"}
  BY <1>1, <1>2, DeployRow
<1>3. ASSUME NEW g \in InFlight(t), g.inst = m
      PROVE  \/ instance'[<<t, m>>].status \in {Target(Instr(t)), "FAIL", "DELETED"}
             \/ Commanded(t, m)'
  <2>1. g \in node /\ g.target = Target(Instr(t)) /\ g.key = t /\ g.task = t /\ Exists(<<t, m>>)
    BY <1>1, <1>3 DEF Sent
  <2>2. CASE g \in node'
    BY <1>3, <2>1, <2>2 DEF Commanded, InFlight
  <2>3. CASE g \notin node'
    <3>1. ~Dies
      <4> SUFFICES ASSUME Dies PROVE FALSE
        OBVIOUS
      <4>1. run'[t].pc = "dead"
        BY RunFacts DEF Barrier, Dies, Killed, RunRec, Active, Calls
      <4> QED
        BY <4>1
    <3>2. NodeStep(g)
      BY <2>1, <2>3, <3>1, CommandEnds
    <3>3. <<t, m>> \in RowId
      BY DEF RowId, Key
    <3>4. instance'[<<g.key, g.inst>>].status \in {g.target, "FAIL"}
      BY <1>3, <2>1, <3>2, <3>3, CommandWrites DEF Barrier
    <3> QED
      BY <1>3, <2>1, <3>4
  <2> QED
    BY <2>2, <2>3
<1> QED
  BY <1>2, <1>3 DEF Commanded

\* A goroutine that does not move.
LEMMA StagedRests ==
  ASSUME Stores, IdsApart, Barrier, [Next]_vars, NEW t \in TaskId, Staged(t),
         run'[t] = run[t], SameRow(t)
  PROVE  Staged(t)'
<1> SUFFICES ASSUME task[t].kind = "Deploy" PROVE Staged(t)'
  BY DEF Staged, SameRow
<1>1. Instr(t)' = Instr(t)
  BY DEF Instr, SameRow
<1>2. ASSUME run[t].pc \notin {"deploy_wait", "dead"}, NEW status, Says(t, status)
      PROVE  \A m \in run'[t].grp : instance'[<<t, m>>].status \in {status, "FAIL", "DELETED"}
  BY <1>2, NoCommand, SaysStays
<1>3. ASSUME run[t].pc \in {"finish", "done"}, Final(t) PROVE Final(t)'
  <2>1. t \notin deploy_err'
    BY <1>3, NoCommand, ErrStays DEF Final
  <2>2. \A m \in run'[t].grp : instance'[<<t, m>>].status \in {"AFTER_DEPLOY", "FAIL", "DELETED"}
    BY <1>2, <1>3 DEF Final
  <2> QED
    BY <2>1, <2>2 DEF Final, Says
<1>4. ASSUME run[t].i > 1, run[t].pc \in {"next", "deploy_query"} PROVE Says(t, Previous(Instr(t)))'
  <2>1. \A m \in run'[t].grp : instance'[<<t, m>>].status \in {Previous(Instr(t)), "FAIL", "DELETED"}
    BY <1>2, <1>4 DEF Staged
  <2>2. Previous(Instr(t))' = Previous(Instr(t))
    BY <1>1 DEF Previous
  <2> QED
    BY <2>1, <2>2 DEF Says
<1>5. ASSUME run[t].pc = "deploy_wait", NEW m \in run'[t].grp
      PROVE  \/ instance'[<<t, m>>].status \in {Target(Instr(t))', "FAIL", "DELETED"}
             \/ Commanded(t, m)'
  <2>1. m \in run[t].grp /\ m \in Machine
    BY RunFacts DEF Barrier, RunRec
  <2>2. Target(Instr(t))' = Target(Instr(t))
    BY <1>1 DEF Target
  <2> QED
    BY <1>5, <2>1, <2>2, WaitStays DEF Staged
<1>6. task'[t].status = "SUCC" => run'[t].pc = "done" /\ Final(t)'
  BY <1>3 DEF Staged, SameRow
<1>7. (run'[t].pc = "finish" /\ ~run'[t].err) => Final(t)'
  BY <1>3 DEF Staged
<1> QED
  BY <1>4, <1>5, <1>6, <1>7 DEF Staged

\* wg.Wait returned: every row says what the instruction leaves, or its machine is lost.
LEMMA StagedWaited ==
  ASSUME Barrier, NEW t \in TaskId, task[t].kind = "Deploy", Staged(t), DeployWaited(t), SameRow(t)
  PROVE  Staged(t)'
<1>1. /\ run[t] \in RunRec /\ run[t].i \in 1..5 /\ run[t].pc = "deploy_wait" /\ InFlight(t) = {}
      /\ UNCHANGED <<instance, deploy_err>> /\ task[t].status # "SUCC" /\ task'[t].status # "SUCC"
      /\ task'[t].kind = "Deploy" /\ IInv
  BY RunFacts, DeployGroup DEF Barrier, DeployWaited, At, envVars, Staged, SameRow
<1>2. Says(t, Target(Instr(t)))
  BY <1>1 DEF Staged, Commanded, Says
<1>3. CASE t \in deploy_err
  <2>1. run'[t].pc = "finish" /\ run'[t].err
    BY <1>1, <1>3, TypeParts DEF DeployWaited, Fail, IInv, RunsOK, RunRec
  <2> QED
    BY <1>1, <2>1 DEF Staged
<1>4. CASE t \notin deploy_err
  <2>1. run'[t] = Advance(t, run[t]) /\ GroupLen(task[t].kind) = 5
    BY <1>1, <1>4, DeployGroup, TypeParts DEF DeployWaited, Succeed, IInv, RunsOK
  <2>2. CASE run[t].i = 5
    <3>1. run'[t].pc = "finish" /\ run'[t].grp = run[t].grp
      BY <1>1, <2>1, <2>2 DEF Advance, RunRec
    <3>2. Target(Instr(t)) = "AFTER_DEPLOY"
      BY <2>2, StagesFit DEF Instr
    <3>3. Final(t)'
      BY <1>1, <1>2, <1>4, <3>1, <3>2 DEF Final, Says
    <3> QED
      BY <1>1, <3>1, <3>3 DEF Staged
  <2>3. CASE run[t].i < 5
    <3>1. run'[t].pc = "next" /\ run'[t].grp = run[t].grp /\ run'[t].i = run[t].i + 1
      BY <1>1, <2>1, <2>3 DEF Advance, RunRec
    <3>2. Target(Instr(t)) = Previous(InstrAt("Deploy", run[t].i + 1))
      BY <1>1, <2>3, StagesFit DEF Instr
    <3>3. Previous(Instr(t))' = Target(Instr(t))
      BY <1>1, <3>1, <3>2 DEF Instr, Previous
    <3>4. Says(t, Previous(Instr(t)))'
      BY <1>1, <1>2, <3>1, <3>3 DEF Says
    <3> QED
      BY <1>1, <3>1, <3>4 DEF Staged
  <2> QED
    BY <1>1, <2>2, <2>3
<1> QED
  BY <1>3, <1>4

\* The commands of an instruction start: one for every machine that is not lost.
LEMMA StagedSent ==
  ASSUME Barrier, NEW t \in TaskId, task[t].kind = "Deploy", Staged(t), SameRow(t),
         DeployInsert(t) \/ DeployQuery(t)
  PROVE  Staged(t)'
<1>1. /\ IInv /\ run[t] \in RunRec /\ run[t].pc \in {"deploy_insert", "deploy_query"}
      /\ run'[t] = [run[t] EXCEPT !.pc = "deploy_wait"]
      /\ task[t].status # "SUCC" /\ task'[t].status # "SUCC" /\ task'[t].kind = "Deploy"
  BY RunFacts, DeployFacts DEF Barrier, Staged, SameRow
<1>2. run'[t].pc = "deploy_wait" /\ run'[t].i = run[t].i /\ run'[t].grp = run[t].grp
      /\ run[t].grp \subseteq Machine
  BY <1>1 DEF RunRec
<1>3. Target(Instr(t))' = Target(Instr(t))
  BY <1>1, <1>2 DEF Instr, Target
<1>4. ASSUME NEW ms, node' = node \cup CommandsOf(t, t, ms), NEW m \in ms PROVE Commanded(t, m)'
  <2>1. PICK g : g = [task |-> t, key |-> t, inst |-> m, target |-> Target(Instr(t))]
    OBVIOUS
  <2>2. g \in node' /\ g.task = t /\ g.inst = m
    BY <1>4, <2>1 DEF CommandsOf
  <2> QED
    BY <2>2 DEF Commanded, InFlight
<1>5. ASSUME NEW m \in run[t].grp
      PROVE  \/ instance'[<<t, m>>].status \in {Target(Instr(t)), "FAIL", "DELETED"}
             \/ Commanded(t, m)'
  <2>1. CASE DeployInsert(t)
    BY <1>4, <1>5, <2>1, NewCommands
  <2>2. CASE DeployQuery(t)
    <3>1. run[t].i > 1 /\ run[t].pc = "deploy_query" /\ UNCHANGED instance
      BY <1>1, <2>2, DeployGroup DEF DeployQuery, At
    <3>2. instance[<<t, m>>].status \in {Previous(Instr(t)), "FAIL", "DELETED"}
      BY <1>5, <3>1 DEF Staged, Says
    <3>3. CASE instance[<<t, m>>].status = Previous(Instr(t))
      <4>1. Previous(Instr(t)) # None
        BY DEF Previous, None
      <4>2. m \in InstsQueryByTaskId(t, Previous(Instr(t)))
        BY <1>2, <1>5, <3>3, <4>1 DEF InstsQueryByTaskId, InstsOfTask, Exists, RowId, Key
      <4> QED
        BY <1>4, <2>2, <4>2, NewCommands
    <3> QED
      BY <3>1, <3>2, <3>3
  <2> QED
    BY <2>1, <2>2
<1> QED
  BY <1>1, <1>2, <1>3, <1>5 DEF Staged

\* The other steps of a deploy.
LEMMA StagedMoves ==
  ASSUME Barrier, NEW t \in TaskId, task[t].kind = "Deploy", Staged(t), SameRow(t), RunStep(t),
         ~DeployWaited(t), ~DeployInsert(t), ~DeployQuery(t), ~Finish(t)
  PROVE  Staged(t)'
<1>1. /\ IInv /\ run[t] \in RunRec /\ run \in [TaskId -> RunRec] /\ task'[t].kind = "Deploy"
      /\ run[t].i > 1 => FirstCall(Instr(t)) = "deploy_query"
      /\ run[t].i = 1 => FirstCall(Instr(t)) = "deploy_instances"
      /\ run[t].pc \in Calls => run[t].pc \in DeployCalls
  BY RunFacts, DeployGroup, TypeParts DEF Barrier, SameRow, IInv, RunsOK
<1>2. \/ BeginInstr(t) \/ BeginInstrFails(t) \/ DeployInstances(t) \/ DeployMark(t) \/ InstrFails(t)
  BY <1>1, DeploySteps
<1>3. run[t].pc # "done"
  BY <1>2 DEF BeginInstr, BeginInstrFails, DeployInstances, DeployMark, InstrFails, At, Calls
<1>4. task'[t].status # "SUCC"
  BY <1>3 DEF Staged, SameRow
<1>5. CASE BeginInstrFails(t) \/ InstrFails(t)
  <2>1. run'[t].pc = "finish" /\ run'[t].err
    BY <1>1, <1>5 DEF BeginInstrFails, InstrFails, Fail, RunRec
  <2> QED
    BY <1>4, <2>1 DEF Staged
<1>6. CASE DeployInstances(t) \/ DeployMark(t)
  <2>1. run'[t].pc \in {"deploy_mark", "deploy_insert"}
    BY <1>1, <1>6 DEF DeployInstances, DeployMark, Goto, RunRec
  <2> QED
    BY <1>4, <2>1 DEF Staged
<1>7. CASE BeginInstr(t)
  <2>1. /\ run[t].pc = "next" /\ run'[t] = [run[t] EXCEPT !.pc = FirstCall(Instr(t))]
        /\ UNCHANGED instance
    BY <1>1, <1>7 DEF BeginInstr, At, Goto
  <2>2. run'[t].i = run[t].i /\ run'[t].grp = run[t].grp /\ run'[t].pc = FirstCall(Instr(t))
        /\ run[t].i \in Nat
    BY <1>1, <2>1 DEF RunRec, MaxInstr
  <2>3. Previous(Instr(t))' = Previous(Instr(t))
    BY <1>1, <2>2 DEF Instr, Previous
  <2>4. CASE run[t].i = 1
    BY <1>1, <1>4, <2>2, <2>4 DEF Staged
  <2>5. CASE run[t].i > 1
    <3>1. Says(t, Previous(Instr(t)))'
      BY <2>1, <2>2, <2>3, <2>5 DEF Staged, Says
    <3> QED
      BY <1>1, <1>4, <2>2, <2>5, <3>1 DEF Staged
  <2> QED
    BY <1>1, <2>2, <2>4, <2>5 DEF RunRec
<1> QED
  BY <1>2, <1>5, <1>6, <1>7

LEMMA StagedEnds ==
  ASSUME Barrier, NEW t \in TaskId, Staged(t), Finish(t), task'[t].kind = task[t].kind,
         task'[t].status \in {task[t].status, FinalStatus(run[t])}
  PROVE  Staged(t)'
<1> SUFFICES ASSUME task[t].kind = "Deploy" PROVE Staged(t)'
  BY DEF Staged
<1>1. /\ run[t].pc = "finish" /\ run'[t] = [run[t] EXCEPT !.pc = "done"] /\ run[t] \in RunRec
      /\ UNCHANGED <<instance, deploy_err>> /\ task[t].status # "SUCC"
  BY RunFacts, TypeParts DEF Barrier, IInv, RunsOK, Finish, At, Goto, envVars, Staged
<1>2. run'[t].pc = "done" /\ run'[t].grp = run[t].grp
  BY <1>1 DEF RunRec
<1>3. task'[t].status = "SUCC" => Final(t)
  BY <1>1 DEF FinalStatus, Staged
<1>4. Final(t) => Final(t)'
  BY <1>1, <1>2 DEF Final, Says
<1> QED
  BY <1>2, <1>3, <1>4 DEF Staged

LEMMA NextStaged ==
  ASSUME Stores, IdsApart, Barrier, AllStaged, [Next]_vars
  PROVE  AllStaged'
<1> SUFFICES ASSUME NEW t \in TaskId PROVE Staged(t)'
  BY DEF AllStaged
<1>1. IInv /\ Staged(t) /\ Move(t) /\ run[t] \in RunRec
  BY EveryRunMoves, RunFacts DEF AllStaged, Barrier
<1>2. CASE Creates(t)
  <2>1. run'[t].i = 1 /\ run'[t].pc \in {"next", "done"} /\ task'[t].status # "SUCC"
    BY <1>1, <1>2, IdleMoves DEF Creates, MovesTo, IdleMove, Unfinished
  <2> QED
    BY <2>1 DEF Staged
<1>3. CASE task'[t].kind = "Expand"
  BY <1>3 DEF Staged
<1>4. CASE Finish(t) /\ task'[t].kind = task[t].kind
           /\ task'[t].status \in {task[t].status, FinalStatus(run[t])}
  BY <1>1, <1>4, StagedEnds
<1>5. CASE SameRow(t) /\ ~Finish(t) /\ task[t].kind = "Deploy"
  <2>1. CASE run'[t] = run[t]
    BY <1>1, <1>5, <2>1, StagedRests
  <2>2. CASE run[t].pc = "idle"
    <3>1. run'[t].pc \in {"idle", "next", "done"} /\ run'[t].i = 1
      BY <1>1, <2>2, IdleMoves DEF IdleMove
    <3>2. task'[t].status # "SUCC"
      BY <1>1, <1>5, <2>2 DEF Staged, SameRow
    <3> QED
      BY <3>1, <3>2 DEF Staged
  <2>3. CASE run'[t].pc = "dead" /\ run'[t] # run[t]
    <3>1. run[t].pc # "done"
      BY <1>1, <2>3
         DEF Move, PlainMove, GetsTask, GetsMachines, GetsNodes, GetsCluster, MovesTo, Leaves, GoesOn, Errs,
             CallPairs, LastCalls, Active, Calls
    <3>2. task'[t].status # "SUCC"
      BY <1>1, <1>5, <3>1 DEF Staged, SameRow
    <3> QED
      BY <2>3, <3>2 DEF Staged
  <2>4. CASE run'[t] # run[t] /\ run'[t].pc # "dead" /\ run[t].pc # "idle"
    <3>1. RunStep(t)
      BY <1>1, <2>4, StepAt
    <3> QED
      BY <1>1, <1>5, <3>1, StagedWaited, StagedSent, StagedMoves
  <2> QED
    BY <2>1, <2>2, <2>3, <2>4
<1>6. CASE SameRow(t) /\ task[t].kind # "Deploy"
  BY <1>6 DEF SameRow, Staged
<1>7. CASE SameRow(t) /\ Finish(t)
  BY <1>4, <1>7 DEF SameRow
<1> QED
  BY <1>1, <1>2, <1>3, <1>4, <1>5, <1>6, <1>7, WhoWritesStatus

(* A deploy reported SUCC took every machine it began with through all five   *)
(* stages or lost it in the first one, and none of the commands of its later  *)
(* stages failed.  A callback whose write is lost leaves its row behind while *)
(* its machine went on, hence Stores.                                         *)
THEOREM DeploysAreComplete ==
  ASSUME Stores
  PROVE  Spec /\ []IdsApart => []DeploySuccessIsComplete
<1>1. Init => AllStaged
  BY InitStaged
<1>2. Barrier /\ IdsApart /\ AllStaged /\ [Next]_vars => AllStaged'
  BY NextStaged
<1>3. AllStaged => DeploySuccessIsComplete
  BY DEF AllStaged, Staged, Final, Says, DeploySuccessIsComplete
<1> QED
  BY <1>1, <1>2, <1>3, AlwaysBarrier, PTL DEF Spec
=============================================================================
