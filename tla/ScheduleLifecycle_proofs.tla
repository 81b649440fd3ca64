---------------------- MODULE ScheduleLifecycle_proofs ------------------------
(***************************************************************************)
(* The life of a task.  First its records, which tell how far it came as   *)
(* long as the database stores what it is given; then the refinement: the  *)
(* scheduler implements TaskLifecycle, if BridgX also answers the query    *)
(* for a cluster.  Without these two a task that panics is recorded as a   *)
(* success.                                                                *)
(***************************************************************************)
EXTENDS ScheduleSvc_proofs

-----------------------------------------------------------------------------
(* Records *)

(* The records of the instructions before the current one say SUCC, there    *)
(* are none after it, and its own follows the goroutine.                     *)
Told(r, rec) ==
    /\ \A j \in 1..MaxInstr : j < r.i => rec[j] = "SUCC"
    /\ \A j \in 1..MaxInstr : j > r.i => rec[j] = None
    /\ r.pc \in {"idle", "next"} => rec[r.i] = None
    /\ r.pc = "relation" => rec[r.i] = "SUCC"
    /\ r.pc \in {"finish", "done"} => rec[r.i] # "RUNNING"

Progress == \A t \in TaskId : Told(run[t], instr_record[t])

\* No statement of the database fails.
Stores == "db" \notin Faults

LEMMA StoresAlways == Stores => \A stored \in Outcomes("db") : stored
  BY DEF Stores, Outcomes

LEMMA InitProgress == Init => Progress
<1> SUFFICES ASSUME Init, NEW t \in TaskId PROVE Told(run[t], instr_record[t])
  BY DEF Progress
<1>1. run[t] = NewRun /\ instr_record[t] = NoRecords
  BY DEF Init
<1>2. \A j \in 1..MaxInstr : NoRecords[j] = None
  BY DEF NoRecords
<1>3. NewRun.i = 1 /\ NewRun.pc = "idle" /\ 1 \in 1..MaxInstr
  BY DEF NewRun, MaxInstr
<1> QED
  BY <1>1, <1>2, <1>3 DEF Told, MaxInstr

-----------------------------------------------------------------------------
(* What may change without the records *)

LEMMA SilentStep ==
  ASSUME IInv, Progress, UNCHANGED instr_record,
         \A u \in TaskId : /\ run'[u].i = run[u].i
                           /\ run'[u].pc = run[u].pc \/ run'[u].pc \in Calls \cup {"dead"}
  PROVE  Progress'
<1>1. \A u \in TaskId : Told(run'[u], instr_record'[u])
  <2> TAKE u \in TaskId
  <2>1. Told(run[u], instr_record[u])
    BY DEF Progress
  <2> QED
    BY <2>1 DEF Told, Calls
<1> QED
  BY <1>1 DEF Progress

LEMMA OneStep ==
  ASSUME IInv, Progress, NEW t \in TaskId, NEW r,
         run' = [run EXCEPT ![t] = r], Told(r, instr_record'[t]),
         \A u \in TaskId \ {t} : instr_record'[u] = instr_record[u]
  PROVE  Progress'
<1>1. run \in [TaskId -> RunRec]
  BY TypeParts DEF IInv, RunsOK
<1>2. \A u \in TaskId : Told(run'[u], instr_record'[u])
  BY <1>1 DEF Progress
<1> QED
  BY <1>2 DEF Progress

\* What WriteRecord does to the record of the current instruction, and to others.
LEMMA RecordStored ==
  ASSUME IInv, Progress, Stores, NEW t \in TaskId, NEW status, WriteRecord(t, status)
  PROVE  /\ \A u \in TaskId \ {t} : instr_record'[u] = instr_record[u]
         /\ instr_record'[t][run[t].i] = status
         /\ \A j \in 1..MaxInstr : j < run[t].i => instr_record'[t][j] = "SUCC"
         /\ \A j \in 1..MaxInstr : j > run[t].i => instr_record'[t][j] = None
<1>1. /\ instr_record \in [TaskId -> [1..MaxInstr -> InstrRecStatus \cup {None}]]
      /\ run[t].i \in 1..MaxInstr
  BY TypeParts DEF IInv, RecordsOK, RunsOK, RunRec
<1>2. PICK stored \in Outcomes("db") :
        instr_record' = IF stored THEN UpdateInstrRecord(instr_record, t, run[t].i, status)
                                  ELSE instr_record
  BY DEF WriteRecord
<1>3. instr_record' = UpdateInstrRecord(instr_record, t, run[t].i, status)
  <2>1. stored
    BY StoresAlways, Zenon
  <2> QED
    BY <1>2, <2>1, Zenon
<1>4. /\ \A u \in TaskId \ {t} : instr_record'[u] = instr_record[u]
      /\ instr_record'[t][run[t].i] = status
      /\ \A j \in (1..MaxInstr) \ {run[t].i} : instr_record'[t][j] = instr_record[t][j]
  BY <1>1, <1>3 DEF UpdateInstrRecord
<1> QED
  BY <1>1, <1>4 DEF Progress, Told, MaxInstr

LEMMA AdvanceTold ==
  ASSUME NEW t, NEW r \in RunRec, NEW rec, rec[r.i] = "SUCC",
         \A j \in 1..MaxInstr : j < r.i => rec[j] = "SUCC",
         \A j \in 1..MaxInstr : j > r.i => rec[j] = None,
         r.i <= GroupLen(task[t].kind)
  PROVE  Told(Advance(t, r), rec)
<1>1. GroupLen(task[t].kind) \in 1..MaxInstr /\ r.i \in 1..MaxInstr
  BY GroupLenType DEF RunRec
<1>2. CASE r.i = GroupLen(task[t].kind)
  <2>1. Advance(t, r).pc = "finish" /\ Advance(t, r).i = r.i
    BY <1>2 DEF Advance, RunRec
  <2> QED
    BY <2>1 DEF Told
<1>3. CASE r.i # GroupLen(task[t].kind)
  <2>1. Advance(t, r).pc = "next" /\ Advance(t, r).i = r.i + 1 /\ r.i + 1 \in 1..MaxInstr
    BY <1>1, <1>3 DEF Advance, RunRec, MaxInstr
  <2>2. rec[r.i + 1] = None
    BY <1>1, <2>1 DEF MaxInstr
  <2>3. \A j \in 1..MaxInstr : j < r.i + 1 => rec[j] = "SUCC"
    BY <1>1 DEF MaxInstr
  <2>4. \A j \in 1..MaxInstr : j > r.i + 1 => rec[j] = None
    BY <1>1 DEF MaxInstr
  <2> QED
    BY <2>1, <2>2, <2>3, <2>4 DEF Told
<1> QED
  BY <1>2, <1>3

LEMMA SucceedTold ==
  ASSUME IInv, Progress, Stores, NEW t \in TaskId, NEW r \in RunRec, r.i = run[t].i, Succeed(t, r)
  PROVE  Progress'
<1> DEFINE rec == instr_record'[t]
<1>1. \A u \in TaskId \ {t} : instr_record'[u] = instr_record[u]
  BY RecordStored DEF Succeed
<1>2. /\ rec[r.i] = "SUCC"
      /\ \A j \in 1..MaxInstr : j < r.i => rec[j] = "SUCC"
      /\ \A j \in 1..MaxInstr : j > r.i => rec[j] = None
  BY RecordStored DEF Succeed
<1>3. r.i <= GroupLen(task[t].kind)
  BY DEF IInv, Control, Consistent
<1>4. Told(Advance(t, r), rec)
  BY <1>2, <1>3, AdvanceTold
<1>5. Told([r EXCEPT !.pc = "relation"], rec)
  BY <1>2 DEF Told, RunRec
<1> QED
  BY <1>1, <1>4, <1>5, OneStep DEF Succeed

\* The goroutine of t gives up.
GaveUp(t) == [run[t] EXCEPT !.pc = "finish", !.err = TRUE]

LEMMA GaveUpFacts ==
  ASSUME IInv, NEW t \in TaskId, run' = [run EXCEPT ![t].pc = "finish", ![t].err = TRUE]
  PROVE  /\ run' = [run EXCEPT ![t] = GaveUp(t)]
         /\ GaveUp(t).pc = "finish"
         /\ GaveUp(t).i = run[t].i
<1>1. run[t] \in RunRec
  BY RunFacts
<1> QED
  BY <1>1, TypeParts DEF IInv, RunsOK, RunRec, GaveUp

LEMMA FailTold ==
  ASSUME IInv, Progress, Stores, NEW t \in TaskId, WriteRecord(t, "FAIL"),
         run' = [run EXCEPT ![t].pc = "finish", ![t].err = TRUE]
  PROVE  Progress'
<1>1. \A u \in TaskId \ {t} : instr_record'[u] = instr_record[u]
  BY RecordStored
<1> DEFINE rec == instr_record'[t]
<1>2. /\ rec[run[t].i] = "FAIL"
      /\ \A j \in 1..MaxInstr : j < run[t].i => rec[j] = "SUCC"
      /\ \A j \in 1..MaxInstr : j > run[t].i => rec[j] = None
  BY RecordStored
<1> HIDE DEF rec
<1>3. Told(GaveUp(t), rec)
  BY <1>2, GaveUpFacts DEF Told
<1> QED
  BY <1>1, <1>3, GaveUpFacts, OneStep DEF rec

-----------------------------------------------------------------------------
(* Steps of a goroutine *)

LEMMA CreateTold ==
  ASSUME IInv, Progress, NEW t \in TaskId, NEW kind, NEW sc, NEW cnt, NEW isRollback,
         CreateAndRun(t, kind, sc, cnt, isRollback)
  PROVE  Progress'
<1>0. PICK pc \in {"next", "done"} : Goto(t, pc)
  BY DEF CreateAndRun
<1> DEFINE r == [run[t] EXCEPT !.pc = pc]
<1>1. run[t] \in RunRec /\ run[t].pc = "idle" /\ Told(run[t], instr_record[t])
  BY RunFacts DEF CreateAndRun, Progress
<1>2. run' = [run EXCEPT ![t] = r]
  BY <1>0, TypeParts DEF IInv, RunsOK, RunRec, Goto
<1>3. UNCHANGED instr_record
  BY DEF CreateAndRun
<1>4. r.i = run[t].i /\ r.pc \in {"done", "next"}
  BY <1>1 DEF RunRec
<1>5. Told(r, instr_record[t])
  BY <1>1, <1>4 DEF Told, None
<1> QED
  BY <1>2, <1>3, <1>5, OneStep

LEMMA BeginTold ==
  ASSUME IInv, Progress, NEW t \in TaskId, BeginInstr(t)
  PROVE  Progress'
<1> DEFINE i == run[t].i
           r == [run[t] EXCEPT !.pc = FirstCall(Instr(t))]
<1>1. run[t] \in RunRec /\ Told(run[t], instr_record[t]) /\ i \in 1..MaxInstr
  BY RunFacts DEF Progress, RunRec
<1>2. run' = [run EXCEPT ![t] = r]
  BY TypeParts DEF IInv, RunsOK, RunRec, BeginInstr, Goto
<1>3. /\ \A u \in TaskId \ {t} : instr_record'[u] = instr_record[u]
      /\ \A j \in (1..MaxInstr) \ {i} : instr_record'[t][j] = instr_record[t][j]
  BY <1>1, TypeParts DEF IInv, RecordsOK, BeginInstr, CreateInstrRecord
<1>4. r.i = i /\ r.pc \in Calls
  BY <1>1, InstrType, FirstCallOfInstr DEF RunRec
<1> DEFINE rec == instr_record'[t]
<1>5. /\ \A j \in 1..MaxInstr : j < i => rec[j] = "SUCC"
      /\ \A j \in 1..MaxInstr : j > i => rec[j] = None
  BY <1>1, <1>3 DEF Told, MaxInstr
<1> HIDE DEF rec, r
<1>6. Told(r, rec)
  BY <1>4, <1>5 DEF Told, Calls
<1> QED
  BY <1>2, <1>3, <1>6, OneStep DEF rec

\* No record is written: the goroutine gives up before it, ends or goes on after it.
LEMMA BetweenTold ==
  ASSUME IInv, Progress, NEW t \in TaskId,
         BeginInstrFails(t) \/ SaveRelation(t) \/ SaveRelationFails(t) \/ Finish(t)
  PROVE  Progress'
<1>1. UNCHANGED instr_record /\ Told(run[t], instr_record[t]) /\ run[t] \in RunRec
  BY RunFacts DEF BeginInstrFails, SaveRelation, SaveRelationFails, Finish, Progress
<1>2. CASE BeginInstrFails(t) \/ SaveRelationFails(t)
  <2>1. run' = [run EXCEPT ![t] = GaveUp(t)] /\ GaveUp(t).pc = "finish" /\ GaveUp(t).i = run[t].i
    BY <1>2, GaveUpFacts DEF BeginInstrFails, SaveRelationFails
  <2>2. run[t].pc \in {"next", "relation"}
    BY <1>2 DEF BeginInstrFails, SaveRelationFails, At
  <2>3. Told(GaveUp(t), instr_record[t])
    BY <1>1, <2>1, <2>2 DEF Told, None
  <2> QED
    BY <1>1, <2>1, <2>3, OneStep
<1>3. CASE SaveRelation(t)
  <2>1. run' = [run EXCEPT ![t] = Advance(t, run[t])] /\ run[t].pc = "relation"
    BY <1>3, TypeParts DEF IInv, RunsOK, SaveRelation, At
  <2>2. run[t].i <= GroupLen(task[t].kind)
    BY DEF IInv, Control, Consistent
  <2>3. Told(Advance(t, run[t]), instr_record[t])
    BY <1>1, <2>1, <2>2, AdvanceTold DEF Told
  <2> QED
    BY <1>1, <2>1, <2>3, OneStep
<1>4. CASE Finish(t)
  <2> DEFINE r == [run[t] EXCEPT !.pc = "done"]
  <2>1. run' = [run EXCEPT ![t] = r]
    BY <1>4, TypeParts DEF IInv, RunsOK, RunRec, Finish, Goto
  <2>2. Told(r, instr_record[t])
    BY <1>1, <1>4 DEF Told, RunRec, Finish, At
  <2> QED
    BY <1>1, <2>1, <2>2, OneStep
<1> QED
  BY <1>2, <1>3, <1>4

\* A call that leaves its instruction unfinished.
LEMMA CallTold ==
  ASSUME IInv, Progress, UNCHANGED instr_record, NEW t \in TaskId, NEW r \in RunRec,
         r.i = run[t].i, r.pc \in Calls, run' = [run EXCEPT ![t] = r]
  PROVE  Progress'
<1>1. Told(r, instr_record[t])
  BY DEF Progress, Told, Calls
<1> QED
  BY <1>1, OneStep

LEMMA GotoTold ==
  ASSUME IInv, Progress, UNCHANGED instr_record, NEW t \in TaskId, NEW pc \in Calls, Goto(t, pc)
  PROVE  Progress'
<1> DEFINE r == [run[t] EXCEPT !.pc = pc]
<1>1. r \in RunRec /\ r.i = run[t].i /\ r.pc = pc
  BY RunFacts DEF RunRec, PC, Active
<1>2. run' = [run EXCEPT ![t] = r]
  BY TypeParts DEF IInv, RunsOK, RunRec, Goto
<1> QED
  BY <1>1, <1>2, CallTold

LEMMA FailsTold ==
  ASSUME IInv, Progress, Stores, NEW t \in TaskId, Fail(t)
  PROVE  Progress'
  BY FailTold DEF Fail

\* A goroutine makes one call after another, whatever it keeps of the answers.
LEMMA CallsTold ==
  ASSUME IInv, Progress, Stores, NEW t \in TaskId,
         \/ ExpandCall(t) \/ ExpandPolled(t) \/ StoreNodes(t) \/ NodePolled(t)
         \/ MountCall(t) \/ UmountCall(t) \/ ShrinkPick(t) \/ ShrinkCall(t) \/ ShrinkPolled(t)
         \/ DeployInstances(t) \/ DeployMark(t) \/ DeployInsert(t) \/ DeployQuery(t)
  PROVE  Progress'
<1>1. run \in [TaskId -> RunRec]
  BY TypeParts DEF IInv, RunsOK
<1>2. CASE ExpandCall(t) \/ ShrinkCall(t)
  <2>1. CASE Fail(t)
    BY <2>1, FailsTold
  <2>2. CASE ~Fail(t)
    <3>1. UNCHANGED instr_record
      BY <1>2, <2>2 DEF ExpandCall, ShrinkCall
    <3>2. PICK pc \in {"expand_poll", "shrink_poll"} :
            \E b \in NextBx : run' = [run EXCEPT ![t].pc = pc, ![t].bx = b]
      BY <1>2, <2>2 DEF ExpandCall, ShrinkCall
    <3>3. \A u \in TaskId : /\ run'[u].i = run[u].i
                            /\ run'[u].pc = run[u].pc \/ run'[u].pc \in Calls
      BY <1>1, <3>2 DEF RunRec, Calls
    <3> QED
      BY <3>1, <3>3, SilentStep
  <2> QED
    BY <2>1, <2>2
<1>3. CASE MountCall(t) \/ UmountCall(t)
  <2>1. CASE Fail(t)
    BY <2>1, FailsTold
  <2>2. CASE ~Fail(t)
    <3>1. UNCHANGED instr_record /\ (Goto(t, "mount_db") \/ Goto(t, "umount_db"))
      BY <1>3, <2>2 DEF MountCall, UmountCall
    <3> QED
      BY <3>1, GotoTold DEF Calls
  <2> QED
    BY <2>1, <2>2
<1>4. CASE StoreNodes(t) \/ NodePolled(t) \/ ShrinkPolled(t) \/ DeployMark(t)
           \/ DeployInsert(t) \/ DeployQuery(t)
  <2>1. UNCHANGED instr_record
    BY <1>4 DEF StoreNodes, NodePolled, ShrinkPolled, DeployMark, DeployInsert, DeployQuery
  <2>2. \E pc \in Calls : Goto(t, pc)
    BY <1>4 DEF StoreNodes, NodePolled, ShrinkPolled, DeployMark, DeployInsert, DeployQuery, Calls
  <2> QED
    BY <2>1, <2>2, GotoTold
<1>5. CASE ExpandPolled(t)
  <2>1. UNCHANGED instr_record
    BY <1>5 DEF ExpandPolled
  <2>2. PICK key, grp :
          run' = [run EXCEPT ![t].pc = "get_cluster", ![t].key = key, ![t].grp = grp]
    BY <1>5 DEF ExpandPolled
  <2> QED
    BY <1>1, <2>1, <2>2, SilentStep DEF RunRec, Calls
<1>6. CASE ShrinkPick(t) \/ DeployInstances(t)
  <2>1. UNCHANGED instr_record
    BY <1>6 DEF ShrinkPick, DeployInstances
  <2>2. \A u \in TaskId : /\ run'[u].i = run[u].i
                          /\ run'[u].pc = run[u].pc \/ run'[u].pc \in Calls
    BY <1>1, <1>6 DEF ShrinkPick, DeployInstances, RunRec, Calls
  <2> QED
    BY <2>1, <2>2, SilentStep
<1> QED
  BY <1>2, <1>3, <1>4, <1>5, <1>6

\* An instruction ends.
LEMMA EndsTold ==
  ASSUME IInv, Progress, Stores, NEW t \in TaskId,
         \/ GetCluster(t) \/ NodeListed(t) \/ MountDb(t) \/ UmountDb(t) \/ UmountQuery(t)
         \/ ShrinkDb(t) \/ ShrinkPickFails(t) \/ DeployWaited(t) \/ InstrFails(t)
  PROVE  Progress'
<1>1. run \in [TaskId -> RunRec] /\ run[t] \in RunRec
  BY TypeParts DEF IInv, RunsOK
<1>2. CASE GetCluster(t) \/ MountDb(t) \/ UmountDb(t) \/ ShrinkDb(t)
  BY <1>1, <1>2, SucceedTold DEF GetCluster, MountDb, UmountDb, ShrinkDb
<1>3. CASE NodeListed(t)
  <2>1. PICK ms \in SUBSET Machine : Succeed(t, [run[t] EXCEPT !.grp = ms])
    BY <1>3, QueriesType DEF NodeListed
  <2>2. [run[t] EXCEPT !.grp = ms] \in RunRec /\ [run[t] EXCEPT !.grp = ms].i = run[t].i
    BY <1>1 DEF RunRec
  <2> QED
    BY <2>1, <2>2, SucceedTold
<1>4. CASE UmountQuery(t)
  <2>1. CASE Succeed(t, run[t])
    BY <1>1, <2>1, SucceedTold
  <2>2. CASE ~Succeed(t, run[t])
    <3>1. UNCHANGED instr_record
      BY <1>4, <2>2 DEF UmountQuery
    <3>2. PICK grp : run' = [run EXCEPT ![t].pc = "umount_call", ![t].grp = grp]
      BY <1>4, <2>2 DEF UmountQuery
    <3> QED
      BY <1>1, <3>1, <3>2, SilentStep DEF RunRec, Calls
  <2> QED
    BY <2>1, <2>2
<1>5. CASE ShrinkPickFails(t)
  BY <1>5, FailTold DEF ShrinkPickFails
<1>6. CASE DeployWaited(t) \/ InstrFails(t)
  BY <1>1, <1>6, SucceedTold, FailsTold DEF DeployWaited, InstrFails
<1> QED
  BY <1>2, <1>3, <1>4, <1>5, <1>6

LEMMA RunStepTold ==
  ASSUME IInv, Progress, Stores, NEW t \in TaskId, RunStep(t)
  PROVE  Progress'
  BY BeginTold, BetweenTold, CallsTold, EndsTold DEF RunStep

-----------------------------------------------------------------------------
(* The process dies; the others *)

LEMMA DeathTold ==
  ASSUME IInv, Progress, Stores, NEW t \in TaskId, TaskPanics(t)
  PROVE  Progress'
<1>1. \A u \in TaskId \ {t} : instr_record'[u] = instr_record[u]
  BY RecordStored DEF TaskPanics
<1>2. run[t] \in RunRec /\ run[t].pc \in Active
  BY RunFacts DEF TaskPanics, At, Active, Calls
<1>3. \A u \in TaskId : run'[u] = Killed(run[u])
  BY DEF TaskPanics, ProcessDies
<1>4. run'[t].pc = "dead" /\ run'[t].i = run[t].i
  BY <1>2, <1>3 DEF Killed, RunRec
<1>5. Told(run'[t], instr_record'[t])
  <2> DEFINE rec == instr_record'[t]
  <2>1. /\ \A j \in 1..MaxInstr : j < run[t].i => rec[j] = "SUCC"
        /\ \A j \in 1..MaxInstr : j > run[t].i => rec[j] = None
    BY RecordStored DEF TaskPanics
  <2> QED
    BY <1>4, <2>1 DEF Told
<1>6. \A u \in TaskId \ {t} : Told(run'[u], instr_record'[u])
  <2> TAKE u \in TaskId \ {t}
  <2>1. run[u] \in RunRec /\ Told(run[u], instr_record[u])
    BY RunFacts DEF Progress
  <2>2. Told(Killed(run[u]), instr_record[u])
    BY <2>1 DEF Told, Killed, RunRec
  <2> QED
    BY <1>1, <1>3, <2>2
<1> QED
  BY <1>5, <1>6 DEF Progress

LEMMA OthersTold ==
  ASSUME IInv, Progress,
         \/ Crash \/ Restart \/ Idle \/ UNCHANGED vars
         \/ \E t \in TaskId : PollPanics(t)
         \/ \E g \in node : NodeStep(g)
         \/ \E b \in BxTaskId : BxStep(b)
  PROVE  Progress'
<1>1. UNCHANGED instr_record
  BY DEF Crash, Restart, Idle, vars, PollPanics, NodeStep, NodeReturns, BxStep
<1>2. \A u \in TaskId : run'[u] = run[u] \/ run'[u] = Killed(run[u])
  BY DEF Crash, Restart, Idle, vars, PollPanics, NodeStep, BxStep, ProcessDies
<1>3. \A u \in TaskId : Killed(run[u]).i = run[u].i
                        /\ Killed(run[u]).pc \in {run[u].pc, "dead"}
  <2> TAKE u \in TaskId
  <2>1. run[u] \in RunRec
    BY RunFacts
  <2> QED
    BY <2>1 DEF Killed, RunRec
<1> QED
  BY <1>1, <1>2, <1>3, SilentStep

LEMMA NextProgress ==
  ASSUME Stores
  PROVE  IInv /\ Progress /\ [Next]_vars => Progress'
<1> SUFFICES ASSUME IInv, Progress, [Next]_vars PROVE Progress'
  OBVIOUS
<1>1. CASE Request
  BY <1>1, CreateTold DEF Request, ExpandAction, ShrinkAction, DeployAction
<1>2. CASE \E t \in TaskId : RunStep(t)
  BY <1>2, RunStepTold
<1>3. CASE Panic
  BY <1>3, DeathTold, OthersTold DEF Panic
<1>4. CASE Crash \/ Restart \/ Idle \/ UNCHANGED vars
  BY <1>4, OthersTold
<1>5. CASE (\E g \in node : NodeStep(g)) \/ \E b \in BxTaskId : BxStep(b)
  BY <1>5, OthersTold
<1> QED
  BY <1>1, <1>2, <1>3, <1>4, <1>5 DEF Next

LEMMA ProgressTells == IInv /\ Progress => RecordsTellProgress
<1> SUFFICES ASSUME IInv, Progress, NEW t \in TaskId
             PROVE  /\ \A i, j \in 1..MaxInstr :
                          (i < j /\ instr_record[t][j] # None) => instr_record[t][i] = "SUCC"
                    /\ run[t].pc = "done" => \A i \in 1..MaxInstr : instr_record[t][i] # "RUNNING"
  BY DEF RecordsTellProgress
<1>1. Told(run[t], instr_record[t]) /\ run[t].i \in 1..MaxInstr
  BY RunFacts DEF Progress, RunRec
<1> QED
  BY <1>1 DEF Told, MaxInstr, None

(* However many tasks run, whatever remote work fails and whenever the        *)
(* process dies: an instruction starts only after all before it succeeded,   *)
(* and a task that ended leaves no record RUNNING.  Only a database that     *)
(* refuses a statement can falsify the records, whose errors are ignored.    *)
THEOREM ProgressIsTold ==
  ASSUME Stores
  PROVE  Spec => []RecordsTellProgress
<1>1. Init => Progress
  BY InitProgress
<1>2. IInv /\ Progress /\ [Next]_vars => Progress'
  BY NextProgress
<1>3. IInv /\ Progress => RecordsTellProgress
  BY ProgressTells
<1> QED
  BY <1>1, <1>2, <1>3, AlwaysIInv, PTL DEF Spec

-----------------------------------------------------------------------------
(* The refinement of TaskLifecycle *)

\* The query for a cluster is answered.
Answers == "auth" \notin Faults

(* The row of a task follows its goroutine: it is RUNNING or ROLLING_BACK as  *)
(* long as the goroutine is, the record of the instruction under way says    *)
(* RUNNING, and a goroutine about to report success has done its group.      *)
Lived(t) ==
    /\ run[t].pc = "idle" => task[t].kind = None /\ task[t].status = None
    /\ run[t].pc # "idle" => task[t].kind \in Kinds
    /\ run[t].pc \in Active => task[t].status \in Unfinished
    /\ run[t].pc \in Calls => instr_record[t][run[t].i] = "RUNNING"
    /\ (run[t].pc = "finish" /\ ~run[t].err) =>
          run[t].i = GroupLen(task[t].kind) /\ instr_record[t][run[t].i] = "SUCC"

Lives == \A t \in TaskId : Lived(t)

-----------------------------------------------------------------------------
(* What a step does to the rows and records, seen from outside *)

SameRow(u) == task'[u].kind = task[u].kind /\ task'[u].status = task[u].status

SameRecords(u) == instr_record'[u] = instr_record[u]

OthersKept(t) == \A u \in TaskId \ {t} : SameRow(u) /\ SameRecords(u) /\ run'[u] = run[u]

Recorded(t, status) == instr_record'[t] = [instr_record[t] EXCEPT ![run[t].i] = status]

MovesTo(t, pc, i) == run'[t].pc = pc /\ run'[t].i = i

GoesOn(t) ==
    \/ run[t].i = GroupLen(task[t].kind) /\ MovesTo(t, "finish", run[t].i)
    \/ run[t].i < GroupLen(task[t].kind) /\ MovesTo(t, "next", run[t].i + 1)

Creates(t) ==
    /\ run[t].pc = "idle" /\ task'[t].kind \in Kinds /\ SameRecords(t)
    /\ \/ MovesTo(t, "next", run[t].i) /\ task'[t].status \in Unfinished
       \/ MovesTo(t, "done", run[t].i) /\ task'[t].status = "FAIL"

Begins(t) ==
    /\ run[t].pc = "next" /\ SameRow(t) /\ Recorded(t, "RUNNING")
    /\ \E pc \in Calls : MovesTo(t, pc, run[t].i)

Completes(t) ==
    /\ run[t].pc \in Calls /\ SameRow(t) /\ Recorded(t, "SUCC")
    /\ MovesTo(t, "relation", run[t].i) \/ GoesOn(t)

GivesUp(t) ==
    /\ run[t].pc \in Calls /\ SameRow(t) /\ Recorded(t, "FAIL")
    /\ MovesTo(t, "finish", run[t].i) /\ run'[t].err

Relates(t) == run[t].pc = "relation" /\ SameRow(t) /\ SameRecords(t) /\ GoesOn(t)

Ends(t) ==
    /\ run[t].pc = "finish" /\ MovesTo(t, "done", run[t].i) /\ SameRecords(t)
    /\ task'[t].kind = task[t].kind /\ task'[t].status = FinalStatus(run[t])

Visible(t) ==
    OthersKept(t) /\ (Creates(t) \/ Begins(t) \/ Completes(t) \/ GivesUp(t) \/ Relates(t) \/ Ends(t))

\* A goroutine goes from call to call or dies, unseen.
Unseen(u) ==
    /\ SameRow(u) /\ SameRecords(u)
    /\ run'[u].i = run[u].i /\ run'[u].err = run[u].err
    /\ \/ run'[u].pc = run[u].pc
       \/ run[u].pc \in Calls /\ run'[u].pc \in Calls
       \/ run[u].pc \in Active /\ run'[u].pc = "dead"

Silent == \A u \in TaskId : Unseen(u)

-----------------------------------------------------------------------------
(* Every step is one of these. *)

LEMMA StepKeepsRows ==
  ASSUME IInv, NEW t \in TaskId, NEW phase, WriteStep(t, phase) \/ UNCHANGED task
  PROVE  \A u \in TaskId : SameRow(u)
<1>1. task \in [TaskId -> TaskRow]
  BY TypeParts DEF IInv, TasksOK
<1> QED
  BY <1>1 DEF WriteStep, UpdateTaskStep, TaskRow, SameRow

LEMMA RecordSeen ==
  ASSUME IInv, Stores, NEW t \in TaskId, NEW status, WriteRecord(t, status)
  PROVE  Recorded(t, status) /\ \A u \in TaskId \ {t} : SameRecords(u)
<1>1. instr_record \in [TaskId -> [1..MaxInstr -> InstrRecStatus \cup {None}]]
  BY TypeParts DEF IInv, RecordsOK
<1>2. PICK stored \in Outcomes("db") :
        instr_record' = IF stored THEN UpdateInstrRecord(instr_record, t, run[t].i, status)
                                  ELSE instr_record
  BY DEF WriteRecord
<1>3. stored
  BY StoresAlways, Zenon
<1>4. instr_record' = UpdateInstrRecord(instr_record, t, run[t].i, status)
  BY <1>2, <1>3, Zenon
<1> QED
  BY <1>1, <1>4 DEF UpdateInstrRecord, Recorded, SameRecords

LEMMA OneRun ==
  ASSUME IInv, NEW t \in TaskId, NEW r, run' = [run EXCEPT ![t] = r]
  PROVE  run'[t] = r /\ \A u \in TaskId \ {t} : run'[u] = run[u]
  BY TypeParts DEF IInv, RunsOK

LEMMA AdvanceSeen ==
  ASSUME IInv, NEW t \in TaskId, NEW r \in RunRec, r.i = run[t].i, run'[t] = Advance(t, r)
  PROVE  GoesOn(t)
<1>1. r.i <= GroupLen(task[t].kind) /\ r.i \in 1..MaxInstr /\ GroupLen(task[t].kind) \in 1..MaxInstr
  BY RunFacts, GroupLenType DEF Consistent, RunRec
<1>2. CASE r.i = GroupLen(task[t].kind)
  BY <1>2 DEF Advance, RunRec, GoesOn, MovesTo
<1>3. CASE r.i # GroupLen(task[t].kind)
  <2>1. r.i < GroupLen(task[t].kind)
    BY <1>1, <1>3 DEF MaxInstr
  <2> QED
    BY <2>1, <1>3 DEF Advance, RunRec, GoesOn, MovesTo
<1> QED
  BY <1>2, <1>3

LEMMA SucceedSeen ==
  ASSUME IInv, Stores, NEW t \in TaskId, NEW r \in RunRec, r.i = run[t].i,
         run[t].pc \in Calls, Succeed(t, r)
  PROVE  OthersKept(t) /\ Completes(t)
<1>1. \A u \in TaskId : SameRow(u)
  BY StepKeepsRows DEF Succeed
<1>2. Recorded(t, "SUCC") /\ \A u \in TaskId \ {t} : SameRecords(u)
  BY RecordSeen DEF Succeed
<1>3. \A u \in TaskId \ {t} : run'[u] = run[u]
  BY OneRun DEF Succeed
<1>4. MovesTo(t, "relation", run[t].i) \/ GoesOn(t)
  <2>1. CASE HasRelation(t)
    <3>1. run'[t] = [r EXCEPT !.pc = "relation"]
      BY <2>1, OneRun DEF Succeed
    <3> QED
      BY <3>1 DEF MovesTo, RunRec
  <2>2. CASE ~HasRelation(t)
    <3>1. run'[t] = Advance(t, r)
      BY <2>2, OneRun DEF Succeed
    <3> QED
      BY <3>1, AdvanceSeen
  <2> QED
    BY <2>1, <2>2
<1> QED
  BY <1>1, <1>2, <1>3, <1>4 DEF OthersKept, Completes

LEMMA FailSeen ==
  ASSUME IInv, Stores, NEW t \in TaskId, run[t].pc \in Calls, Fail(t)
  PROVE  OthersKept(t) /\ GivesUp(t)
<1>1. \A u \in TaskId : SameRow(u)
  BY StepKeepsRows DEF Fail
<1>2. Recorded(t, "FAIL") /\ \A u \in TaskId \ {t} : SameRecords(u)
  BY RecordSeen DEF Fail
<1>3. run' = [run EXCEPT ![t] = GaveUp(t)] /\ GaveUp(t).pc = "finish" /\ GaveUp(t).i = run[t].i
  BY GaveUpFacts DEF Fail
<1>4. GaveUp(t).err
  BY RunFacts DEF GaveUp, RunRec
<1> QED
  BY <1>1, <1>2, <1>3, <1>4, OneRun DEF OthersKept, GivesUp, MovesTo

LEMMA CreateSeen ==
  ASSUME IInv, NEW t \in TaskId, NEW kind, NEW sc, NEW cnt, NEW isRollback,
         CreateAndRun(t, kind, sc, cnt, isRollback)
  PROVE  OthersKept(t) /\ Creates(t)
<1> DEFINE created == CreateTask(task, t, kind, sc, cnt, isRollback)
<1>1. kind \in Kinds /\ run[t].pc = "idle" /\ run[t] \in RunRec /\ UNCHANGED instr_record
  BY TemplateAssumption, RunFacts DEF CreateAndRun
<1>2. task \in [TaskId -> TaskRow] /\ run \in [TaskId -> RunRec]
  BY TypeParts DEF IInv, TasksOK, RunsOK
<1>3. /\ created[t].kind = kind /\ created[t].status \in Unfinished
      /\ \A u \in TaskId \ {t} : created[u] = task[u]
      /\ created \in [TaskId -> {created[u] : u \in TaskId}]
  BY <1>2 DEF CreateTask, NoTask, Unfinished
<1> HIDE DEF created
<1>4. \/ task' = created /\ Goto(t, "next")
      \/ task' = UpdateTaskStatus(created, t, "FAIL") /\ Goto(t, "done")
  BY DEF CreateAndRun, created
<1>5. CASE task' = created /\ Goto(t, "next")
  BY <1>1, <1>2, <1>3, <1>5 DEF Goto, OthersKept, Creates, SameRow, SameRecords, MovesTo, RunRec
<1>6. CASE task' = UpdateTaskStatus(created, t, "FAIL") /\ Goto(t, "done")
  <2>1. /\ task'[t].kind = kind /\ task'[t].status = "FAIL"
        /\ \A u \in TaskId \ {t} : task'[u] = task[u]
    <3>1. created[t] = [NoTask EXCEPT !.kind = kind, !.cluster = sc, !.inst_cnt = cnt,
                          !.status = IF isRollback THEN "ROLLING_BACK" ELSE "RUNNING"]
      BY <1>2 DEF created, CreateTask
    <3>2. [created[t] EXCEPT !.status = "FAIL"].kind = kind
          /\ [created[t] EXCEPT !.status = "FAIL"].status = "FAIL"
      BY <3>1 DEF NoTask
    <3>3. task' = [created EXCEPT ![t] = [created[t] EXCEPT !.status = "FAIL"]]
      BY <1>6 DEF UpdateTaskStatus
    <3> QED
      BY <1>3, <3>2, <3>3
  <2> QED
    BY <1>1, <1>2, <1>6, <2>1 DEF Goto, OthersKept, Creates, SameRow, SameRecords, MovesTo, RunRec
<1> QED
  BY <1>4, <1>5, <1>6

LEMMA BeginSeen ==
  ASSUME IInv, NEW t \in TaskId, BeginInstr(t)
  PROVE  OthersKept(t) /\ Begins(t)
<1>1. \A u \in TaskId : SameRow(u)
  BY StepKeepsRows DEF BeginInstr
<1>2. Recorded(t, "RUNNING") /\ \A u \in TaskId \ {t} : SameRecords(u)
  BY TypeParts DEF IInv, RecordsOK, BeginInstr, CreateInstrRecord, Recorded, SameRecords
<1>3. FirstCall(Instr(t)) \in Calls
  BY InstrType, FirstCallOfInstr
<1>4. MovesTo(t, FirstCall(Instr(t)), run[t].i) /\ \A u \in TaskId \ {t} : run'[u] = run[u]
  BY TypeParts DEF IInv, RunsOK, RunRec, BeginInstr, Goto, MovesTo
<1> QED
  BY <1>1, <1>2, <1>3, <1>4 DEF BeginInstr, At, OthersKept, Begins

LEMMA RelateSeen ==
  ASSUME IInv, NEW t \in TaskId, SaveRelation(t)
  PROVE  OthersKept(t) /\ Relates(t)
<1>1. \A u \in TaskId : SameRow(u)
  BY TypeParts DEF IInv, TasksOK, TaskRow, SaveRelation, UpdateTaskRelationTaskId, SameRow
<1>2. run'[t] = Advance(t, run[t]) /\ \A u \in TaskId \ {t} : run'[u] = run[u]
  BY TypeParts DEF IInv, RunsOK, SaveRelation
<1>3. GoesOn(t)
  BY <1>2, RunFacts, AdvanceSeen
<1> QED
  BY <1>1, <1>2, <1>3 DEF SaveRelation, At, OthersKept, Relates, SameRecords

LEMMA FinishSeen ==
  ASSUME IInv, Stores, NEW t \in TaskId, Finish(t)
  PROVE  OthersKept(t) /\ Ends(t)
<1>1. task \in [TaskId -> TaskRow] /\ run \in [TaskId -> RunRec]
  BY TypeParts DEF IInv, TasksOK, RunsOK
<1>2. PICK stored \in Outcomes("db") :
        task' = IF stored THEN UpdateTaskStatus(task, t, FinalStatus(run[t])) ELSE task
  BY DEF Finish
<1>3. stored
  BY StoresAlways, Zenon
<1>4. task' = UpdateTaskStatus(task, t, FinalStatus(run[t]))
  BY <1>2, <1>3, Zenon
<1>5. /\ task'[t].kind = task[t].kind /\ task'[t].status = FinalStatus(run[t])
      /\ \A u \in TaskId \ {t} : task'[u] = task[u]
  BY <1>1, <1>4 DEF UpdateTaskStatus, TaskRow
<1>6. MovesTo(t, "done", run[t].i) /\ \A u \in TaskId \ {t} : run'[u] = run[u]
  BY <1>1 DEF Finish, Goto, MovesTo, RunRec
<1> QED
  BY <1>5, <1>6 DEF Finish, At, OthersKept, Ends, SameRow, SameRecords

\* A goroutine goes on to its next call.
LEMMA CallUnseen ==
  ASSUME IInv, UNCHANGED <<task, instr_record>>, NEW t \in TaskId, run[t].pc \in Calls,
         NEW r, r.pc \in Calls, r.i = run[t].i, r.err = run[t].err, run' = [run EXCEPT ![t] = r]
  PROVE  Silent
<1>1. run'[t] = r /\ \A u \in TaskId \ {t} : run'[u] = run[u]
  BY OneRun
<1> QED
  BY <1>1 DEF Silent, Unseen, SameRow, SameRecords

LEMMA GotoUnseen ==
  ASSUME IInv, UNCHANGED <<task, instr_record>>, NEW t \in TaskId, run[t].pc \in Calls,
         NEW pc \in Calls, Goto(t, pc)
  PROVE  Silent
<1> DEFINE r == [run[t] EXCEPT !.pc = pc]
<1>1. run' = [run EXCEPT ![t] = r]
  BY TypeParts DEF IInv, RunsOK, RunRec, Goto
<1>2. r.pc = pc /\ r.i = run[t].i /\ r.err = run[t].err
  BY RunFacts DEF RunRec
<1> HIDE DEF r
<1> QED
  BY <1>1, <1>2, CallUnseen

LEMMA CallsSeen ==
  ASSUME IInv, Stores, NEW t \in TaskId,
         \/ ExpandCall(t) \/ ExpandPolled(t) \/ StoreNodes(t) \/ NodePolled(t)
         \/ MountCall(t) \/ UmountCall(t) \/ ShrinkPick(t) \/ ShrinkCall(t) \/ ShrinkPolled(t)
         \/ DeployInstances(t) \/ DeployMark(t) \/ DeployInsert(t) \/ DeployQuery(t)
  PROVE  Silent \/ (OthersKept(t) /\ GivesUp(t))
<1>1. run[t] \in RunRec
  BY RunFacts
<1>2. run[t].pc \in Calls
  BY DEF ExpandCall, ExpandPolled, StoreNodes, NodePolled, MountCall, UmountCall, ShrinkPick,
         ShrinkCall, ShrinkPolled, DeployInstances, DeployMark, DeployInsert, DeployQuery, At, Calls
<1>3. CASE Fail(t)
  BY <1>2, <1>3, FailSeen
<1>4. CASE (ExpandCall(t) \/ ShrinkCall(t)) /\ ~Fail(t)
  <2>1. PICK pc \in {"expand_poll", "shrink_poll"} :
          \E b \in NextBx : /\ run' = [run EXCEPT ![t].pc = pc, ![t].bx = b]
                            /\ UNCHANGED <<task, instr_record>>
    BY <1>4 DEF ExpandCall, ShrinkCall
  <2>2. PICK b \in NextBx : /\ run' = [run EXCEPT ![t].pc = pc, ![t].bx = b]
                            /\ UNCHANGED <<task, instr_record>>
    BY <2>1
  <2> DEFINE r == [run[t] EXCEPT !.pc = pc, !.bx = b]
  <2>3. run' = [run EXCEPT ![t] = r]
    BY <2>2, TypeParts DEF IInv, RunsOK, RunRec
  <2>4. r.pc \in Calls /\ r.i = run[t].i /\ r.err = run[t].err
    BY <1>1 DEF RunRec, Calls
  <2> HIDE DEF r
  <2> QED
    BY <1>2, <2>2, <2>3, <2>4, CallUnseen
<1>5. CASE (MountCall(t) \/ UmountCall(t)) /\ ~Fail(t)
  <2>1. UNCHANGED <<task, instr_record>> /\ \E pc \in Calls : Goto(t, pc)
    BY <1>5 DEF MountCall, UmountCall, Calls
  <2> QED
    BY <1>2, <2>1, GotoUnseen
<1>6. CASE StoreNodes(t) \/ NodePolled(t) \/ ShrinkPolled(t) \/ DeployMark(t)
           \/ DeployInsert(t) \/ DeployQuery(t)
  <2>1. UNCHANGED <<task, instr_record>> /\ \E pc \in Calls : Goto(t, pc)
    BY <1>6 DEF StoreNodes, NodePolled, ShrinkPolled, DeployMark, DeployInsert, DeployQuery, Calls
  <2> QED
    BY <1>2, <2>1, GotoUnseen
<1>7. CASE ExpandPolled(t) \/ ShrinkPick(t) \/ DeployInstances(t)
  <2>1. UNCHANGED <<task, instr_record>>
    BY <1>7 DEF ExpandPolled, ShrinkPick, DeployInstances
  <2>2. /\ \A u \in TaskId \ {t} : run'[u] = run[u]
        /\ run'[t].i = run[t].i /\ run'[t].err = run[t].err /\ run'[t].pc \in Calls
    BY <1>7, TypeParts DEF IInv, RunsOK, RunRec, ExpandPolled, ShrinkPick, DeployInstances, Calls
  <2> QED
    BY <1>2, <2>1, <2>2 DEF Silent, Unseen, SameRow, SameRecords
<1> QED
  BY <1>3, <1>4, <1>5, <1>6, <1>7

LEMMA EndsSeen ==
  ASSUME IInv, Stores, NEW t \in TaskId,
         \/ GetCluster(t) \/ NodeListed(t) \/ MountDb(t) \/ UmountDb(t) \/ UmountQuery(t)
         \/ ShrinkDb(t) \/ DeployWaited(t) \/ InstrFails(t)
  PROVE  Silent \/ (OthersKept(t) /\ (Completes(t) \/ GivesUp(t)))
<1>1. run[t] \in RunRec /\ run[t].pc \in Calls
  BY RunFacts DEF GetCluster, NodeListed, MountDb, UmountDb, UmountQuery, ShrinkDb, DeployWaited,
                  InstrFails, At, Calls
<1>2. CASE Fail(t)
  BY <1>1, <1>2, FailSeen
<1>3. CASE \E grp \in SUBSET Machine : Succeed(t, [run[t] EXCEPT !.grp = grp])
  <2>1. PICK grp \in SUBSET Machine : Succeed(t, [run[t] EXCEPT !.grp = grp])
    BY <1>3
  <2>2. [run[t] EXCEPT !.grp = grp] \in RunRec /\ [run[t] EXCEPT !.grp = grp].i = run[t].i
    BY <1>1 DEF RunRec
  <2> QED
    BY <1>1, <2>1, <2>2, SucceedSeen
<1>4. CASE Succeed(t, run[t])
  BY <1>1, <1>4, SucceedSeen
<1>5. CASE NodeListed(t)
  <2>1. \E grp \in SUBSET Machine : Succeed(t, [run[t] EXCEPT !.grp = grp])
    BY <1>5, QueriesType DEF NodeListed
  <2> QED
    BY <1>3, <2>1
<1>6. CASE UmountQuery(t) /\ ~Succeed(t, run[t])
  <2>1. UNCHANGED <<task, instr_record>>
    BY <1>6 DEF UmountQuery
  <2>2. PICK grp : run' = [run EXCEPT ![t].pc = "umount_call", ![t].grp = grp]
    BY <1>6 DEF UmountQuery
  <2>3. /\ \A u \in TaskId \ {t} : run'[u] = run[u]
        /\ run'[t].i = run[t].i /\ run'[t].err = run[t].err /\ run'[t].pc \in Calls
    BY <2>2, TypeParts DEF IInv, RunsOK, RunRec, Calls
  <2> QED
    BY <1>1, <2>1, <2>3 DEF Silent, Unseen, SameRow, SameRecords
<1>7. CASE GetCluster(t) \/ MountDb(t) \/ UmountDb(t) \/ ShrinkDb(t) \/ DeployWaited(t) \/ InstrFails(t)
  BY <1>2, <1>4, <1>7 DEF GetCluster, MountDb, UmountDb, ShrinkDb, DeployWaited, InstrFails
<1> QED
  BY <1>4, <1>5, <1>6, <1>7

LEMMA OthersUnseen ==
  ASSUME IInv,
         \/ Crash \/ Restart \/ Idle \/ UNCHANGED vars
         \/ \E g \in node : NodeStep(g)
         \/ \E b \in BxTaskId : BxStep(b)
  PROVE  Silent
<1>1. UNCHANGED <<task, instr_record>>
  BY DEF Crash, Restart, Idle, vars, NodeStep, NodeReturns, BxStep
<1>2. \A u \in TaskId : run'[u] = run[u] \/ run'[u] = Killed(run[u])
  BY DEF Crash, Restart, Idle, vars, NodeStep, BxStep, ProcessDies
<1>3. \A u \in TaskId : /\ Killed(run[u]).i = run[u].i /\ Killed(run[u]).err = run[u].err
                        /\ \/ Killed(run[u]).pc = run[u].pc
                           \/ run[u].pc \in Active /\ Killed(run[u]).pc = "dead"
  <2> TAKE u \in TaskId
  <2>1. run[u] \in RunRec
    BY RunFacts
  <2> QED
    BY <2>1 DEF Killed, RunRec
<1> QED
  BY <1>1, <1>2, <1>3 DEF Silent, Unseen, SameRow, SameRecords

LEMMA EveryStepSeen ==
  ASSUME Stores, Answers, IInv, [Next]_vars
  PROVE  Silent \/ \E t \in TaskId : Visible(t)
<1>1. CASE Request
  <2>1. PICK t \in TaskId : \E kind, sc, cnt, isRollback : CreateAndRun(t, kind, sc, cnt, isRollback)
    BY <1>1 DEF Request, ExpandAction, ShrinkAction, DeployAction
  <2> QED
    BY <2>1, CreateSeen DEF Visible
<1>2. CASE \E t \in TaskId : RunStep(t)
  <2>1. PICK t \in TaskId : RunStep(t)
    BY <1>2
  <2>2. ~BeginInstrFails(t) /\ ~SaveRelationFails(t) /\ ~ShrinkPickFails(t)
    BY DEF Stores, BeginInstrFails, SaveRelationFails, ShrinkPickFails
  <2> QED
    BY <2>1, <2>2, BeginSeen, RelateSeen, FinishSeen, CallsSeen, EndsSeen DEF RunStep, Visible
<1>3. ~Panic
  BY DEF Stores, Answers, Panic, TaskPanics, PollPanics
<1> QED
  BY <1>1, <1>2, <1>3, OthersUnseen DEF Next

-----------------------------------------------------------------------------
(* What the steps keep *)

LEMMA InitLives == Init => Lives
  BY DEF Init, Lives, Lived, NoTask, NewRun, Active, Calls, None

LEMMA NextLives ==
  ASSUME Stores, Answers, IInv, Progress, Lives, [Next]_vars
  PROVE  Lives'
<1>1. CASE Silent
  <2> SUFFICES ASSUME NEW t \in TaskId PROVE Lived(t)'
    BY DEF Lives
  <2>1. Unseen(t) /\ Lived(t)
    BY <1>1 DEF Silent, Lives
  <2> QED
    BY <2>1 DEF Unseen, Lived, SameRow, SameRecords, Active, Calls
<1>2. CASE \E t \in TaskId : Visible(t)
  <2>1. PICK t \in TaskId : Visible(t)
    BY <1>2
  <2>2. \A u \in TaskId \ {t} : Lived(u)'
    BY <2>1 DEF Visible, OthersKept, Lives, Lived, SameRow, SameRecords
  <2>3. /\ Lived(t) /\ run[t].i \in 1..MaxInstr /\ Told(run[t], instr_record[t])
        /\ instr_record[t] \in [1..MaxInstr -> InstrRecStatus \cup {None}]
    BY RunFacts, TypeParts DEF IInv, Lives, RunRec, Progress, RecordsOK
  <2>4. \A status : Recorded(t, status) => instr_record'[t][run[t].i] = status
    BY <2>3 DEF Recorded
  <2>5. ASSUME Creates(t) \/ Begins(t)
       PROVE  Lived(t)'
    BY <2>3, <2>4, <2>5 DEF Creates, Begins, Lived, MovesTo, SameRow, Active, Calls
  <2>6. ASSUME Completes(t)
       PROVE  Lived(t)'
    <3>1. instr_record'[t][run[t].i] = "SUCC" /\ SameRow(t) /\ run[t].pc \in Calls
      BY <2>4, <2>6 DEF Completes
    <3> QED
      BY <2>3, <2>6, <3>1 DEF Completes, GoesOn, Lived, MovesTo, SameRow, Active, Calls
  <2>7. ASSUME GivesUp(t)
       PROVE  Lived(t)'
    BY <2>3, <2>7 DEF GivesUp, Lived, MovesTo, SameRow, Active, Calls
  <2>8. ASSUME Relates(t)
       PROVE  Lived(t)'
    <3>1. instr_record[t][run[t].i] = "SUCC"
      BY <2>3, <2>8 DEF Told, Relates
    <3> QED
      BY <2>3, <2>8, <3>1 DEF Relates, GoesOn, Lived, MovesTo, SameRow, SameRecords, Active, Calls
  <2>9. ASSUME Ends(t)
       PROVE  Lived(t)'
    BY <2>3, <2>9 DEF Ends, Lived, MovesTo, Active, Calls
  <2>10. Lived(t)'
    BY <2>1, <2>5, <2>6, <2>7, <2>8, <2>9 DEF Visible
  <2> QED
    BY <2>2, <2>10 DEF Lives
<1> QED
  BY <1>1, <1>2, EveryStepSeen

-----------------------------------------------------------------------------
(* The refinement *)

LEMMA CountDone ==
  ASSUME NEW rec, NEW i \in 1..MaxInstr,
         \A j \in 1..MaxInstr : j < i => rec[j] = "SUCC",
         \A j \in 1..MaxInstr : j > i => rec[j] = None
  PROVE  Cardinality({j \in 1..MaxInstr : rec[j] = "SUCC"}) = IF rec[i] = "SUCC" THEN i ELSE i - 1
<1> DEFINE n == IF rec[i] = "SUCC" THEN i ELSE i - 1
<1>1. {j \in 1..MaxInstr : rec[j] = "SUCC"} = 1..n
  BY DEF MaxInstr, None
<1>2. n \in 0..MaxInstr
  BY DEF MaxInstr
<1> HIDE DEF n
<1>3. Cardinality(1..n) = n
  <2>1. n \in Int /\ 1 \in Int /\ (1 > n => n = 0) /\ n - 1 + 1 = n
    BY <1>2 DEF MaxInstr
  <2>2. Cardinality(1..n) = IF 1 > n THEN 0 ELSE n - 1 + 1
    BY <2>1, FS_Interval
  <2> QED
    BY <2>1, <2>2
<1> QED
  BY <1>1, <1>3 DEF n

LEMMA DoneIs ==
  ASSUME IInv, Progress, NEW t \in TaskId
  PROVE  Completed(t) = IF instr_record[t][run[t].i] = "SUCC" THEN run[t].i ELSE run[t].i - 1
<1>1. run[t].i \in 1..MaxInstr /\ Told(run[t], instr_record[t])
  BY RunFacts DEF RunRec, Progress
<1> QED
  BY <1>1, CountDone DEF Completed, Told

\* After the current record was written.
LEMMA DoneAfter ==
  ASSUME IInv, Progress, NEW t \in TaskId, NEW status, Recorded(t, status)
  PROVE  Completed(t)' = IF status = "SUCC" THEN run[t].i ELSE run[t].i - 1
<1> DEFINE rec == instr_record'[t]
           i == run[t].i
<1>1. /\ i \in 1..MaxInstr /\ Told(run[t], instr_record[t])
      /\ instr_record[t] \in [1..MaxInstr -> InstrRecStatus \cup {None}]
  BY RunFacts, TypeParts DEF IInv, RunRec, Progress, RecordsOK
<1>2. rec[i] = status /\ \A j \in (1..MaxInstr) \ {i} : rec[j] = instr_record[t][j]
  BY <1>1 DEF Recorded
<1>3. /\ \A j \in 1..MaxInstr : j < i => rec[j] = "SUCC"
      /\ \A j \in 1..MaxInstr : j > i => rec[j] = None
  BY <1>1, <1>2 DEF Told, MaxInstr
<1> HIDE DEF rec
<1>4. Cardinality({j \in 1..MaxInstr : rec[j] = "SUCC"}) = IF rec[i] = "SUCC" THEN i ELSE i - 1
  BY <1>1, <1>3, CountDone
<1> QED
  BY <1>2, <1>4 DEF Completed, rec

LenOf(t) == IF task[t].kind = None THEN 0 ELSE GroupLen(task[t].kind)

LEMMA InitRefines == Init => Lifecycle!Init
<1> SUFFICES ASSUME Init PROVE Lifecycle!Init
  OBVIOUS
<1>1. \A t \in TaskId : task[t].status = "NONE" /\ task[t].kind = None
  BY DEF Init, NoTask, None
<1>2. \A t \in TaskId : Completed(t) = 0
  <2> TAKE t \in TaskId
  <2>1. {i \in 1..MaxInstr : instr_record[t][i] = "SUCC"} = {}
    BY DEF Init, NoRecords, None
  <2> QED
    BY <2>1, FS_EmptySet DEF Completed
<1> QED
  BY <1>1, <1>2 DEF Lifecycle!Init

\* Two states look the same from outside when they do for every task.
LEMMA Stutters ==
  ASSUME \A t \in TaskId : SameRow(t) /\ Completed(t)' = Completed(t)
  PROVE  UNCHANGED Lifecycle!lifecycleVars
  BY DEF SameRow, Lifecycle!lifecycleVars

LEMMA NextRefines ==
  ASSUME Stores, Answers, IInv, Progress, Lives, [Next]_vars
  PROVE  [Lifecycle!Next]_(Lifecycle!lifecycleVars)
<1>1. \A u \in TaskId : SameRecords(u) => Completed(u)' = Completed(u)
  BY DEF SameRecords, Completed
<1>2. CASE Silent
  BY <1>1, <1>2, Stutters DEF Silent, Unseen
<1>3. CASE \E t \in TaskId : Visible(t)
  <2>1. PICK t \in TaskId : Visible(t)
    BY <1>3
  <2>2. \A u \in TaskId \ {t} : SameRow(u) /\ Completed(u)' = Completed(u)
    BY <1>1, <2>1 DEF Visible, OthersKept
  <2>3. /\ Lived(t) /\ run[t].i \in 1..MaxInstr /\ Told(run[t], instr_record[t])
        /\ GroupLen(task[t].kind) \in 1..MaxInstr /\ run[t].i <= GroupLen(task[t].kind)
    BY RunFacts, GroupLenType DEF Lives, RunRec, Progress, Consistent
  <2>4. Completed(t) = IF instr_record[t][run[t].i] = "SUCC" THEN run[t].i ELSE run[t].i - 1
    BY DoneIs
  <2>5. CASE Begins(t) \/ GivesUp(t) \/ Relates(t)
    <3>1. SameRow(t)
      BY <2>5 DEF Begins, GivesUp, Relates
    <3>2. Completed(t)' = Completed(t)
      <4>1. CASE Relates(t)
        BY <1>1, <4>1 DEF Relates
      <4>2. CASE Begins(t)
        BY <2>3, <2>4, <4>2, DoneAfter DEF Begins, Told, None
      <4>3. CASE GivesUp(t)
        BY <2>3, <2>4, <4>3, DoneAfter DEF GivesUp, Lived
      <4> QED
        BY <2>5, <4>1, <4>2, <4>3
    <3> QED
      BY <2>2, <3>1, <3>2, Stutters
  <2>6. CASE Creates(t)
    <3>1. /\ task[t].status = "NONE" /\ task'[t].status \in {"RUNNING", "ROLLING_BACK", "FAIL"}
          /\ task'[t].kind # None
      BY <2>3, <2>6 DEF Creates, Lived, Unfinished, None, Kinds
    <3>2. LenOf(t)' \in 1..MaxInstr
      BY <3>1, GroupLenType DEF LenOf
    <3>3. \A u \in TaskId \ {t} : LenOf(u)' = LenOf(u) /\ task'[u].status = task[u].status
      BY <2>2 DEF LenOf, SameRow
    <3>4. \A u \in TaskId : Completed(u)' = Completed(u)
      BY <1>1, <2>2, <2>6 DEF Creates
    <3>5. Lifecycle!Accept(t)
      BY <3>1, <3>2, <3>3, <3>4 DEF Lifecycle!Accept, LenOf
    <3> QED
      BY <3>5 DEF Lifecycle!Next
  <2>7. CASE Completes(t)
    <3>1. task[t].status \in {"RUNNING", "ROLLING_BACK"} /\ task[t].kind \in Kinds
      BY <2>3, <2>7 DEF Completes, Lived, Active, Unfinished, Calls
    <3>2. Completed(t)' = Completed(t) + 1 /\ Completed(t) < LenOf(t)
      BY <2>3, <2>4, <2>7, <3>1, DoneAfter DEF Completes, Lived, LenOf, Kinds, None, MaxInstr
    <3>3. \A u \in TaskId : LenOf(u)' = LenOf(u) /\ task'[u].status = task[u].status
      BY <2>2, <2>7 DEF LenOf, SameRow, Completes
    <3>4. Lifecycle!Complete(t)
      BY <2>2, <3>1, <3>2, <3>3 DEF Lifecycle!Complete, Lifecycle!Unended, LenOf
    <3> QED
      BY <3>4 DEF Lifecycle!Next
  <2>8. CASE Ends(t)
    <3>1. task[t].status \in {"RUNNING", "ROLLING_BACK"} /\ task[t].kind \in Kinds
      BY <2>3, <2>8 DEF Ends, Lived, Active, Unfinished
    <3>2. \/ task'[t].status = "FAIL"
          \/ task'[t].status = "SUCC" /\ Completed(t) = LenOf(t)
      BY <2>3, <2>4, <2>8, <3>1 DEF Ends, FinalStatus, Lived, LenOf, Kinds, None
    <3>3. \A u \in TaskId : LenOf(u)' = LenOf(u) /\ Completed(u)' = Completed(u)
      BY <1>1, <2>2, <2>8 DEF LenOf, SameRow, Ends
    <3>4. Lifecycle!End(t)
      BY <2>2, <3>1, <3>2, <3>3 DEF Lifecycle!End, Lifecycle!Unended, LenOf, SameRow
    <3> QED
      BY <3>4 DEF Lifecycle!Next
  <2> QED
    BY <2>1, <2>5, <2>6, <2>7, <2>8 DEF Visible
<1> QED
  BY <1>2, <1>3, EveryStepSeen

(* However many tasks run, whatever remote work fails and whenever the        *)
(* process dies: what callers see of a task is a behaviour of TaskLifecycle.  *)
(* Its row says SUCC only when all its records do, an end is final, and no    *)
(* instruction succeeds after it.                                             *)
THEOREM TasksLiveAsPromised ==
  ASSUME Stores, Answers
  PROVE  Spec => ImplementsLifecycle
<1>1. Init => Progress /\ Lives /\ Lifecycle!Init
  BY InitProgress, InitLives, InitRefines
<1>2. IInv /\ Progress /\ Lives /\ [Next]_vars => Progress' /\ Lives'
  BY NextProgress, NextLives
<1>3. IInv /\ Progress /\ Lives /\ [Next]_vars => [Lifecycle!Next]_(Lifecycle!lifecycleVars)
  BY NextRefines
<1> QED
  BY <1>1, <1>2, <1>3, AlwaysIInv, PTL DEF Spec, ImplementsLifecycle, Lifecycle!Spec
=============================================================================
