---------------------------- MODULE EnvService ------------------------------
(***************************************************************************)
(* EnvService and NodeService: one goroutine per machine runs a command    *)
(* over ssh and writes the outcome into the machine's row.  A base or      *)
(* service initialisation lets its goroutines run on their own; a deploy   *)
(* instruction waits for all of them (wg.Wait, which has no time limit).   *)
(***************************************************************************)
EXTENDS Repository

VARIABLES
    node,       \* the goroutines in flight
    deploy_err  \* tasks for which a goroutine of the current doDeploy failed

\* The status a machine gets when the command of an instruction succeeded.
Target(action) ==
    CASE action \in {"nodeact.initbase", "nodeact.before_download"} -> "BASE"
      [] action = "nodeact.initsvc"       -> "SVC"
      [] action = "nodeact.download"      -> "DOWNLOAD"
      [] action = "nodeact.before_deploy" -> "BEFORE_DEPLOY"
      [] action = "nodeact.deploy"        -> "DEPLOY"
      [] action = "nodeact.after_deploy"  -> "AFTER_DEPLOY"
      [] OTHER -> "INIT"

Targets == {"BASE", "SVC", "DOWNLOAD", "BEFORE_DEPLOY", "DEPLOY", "AFTER_DEPLOY"}

\* The statuses doDeploy is called with: only there does an error reach the task.
DoDeployTargets == {"DOWNLOAD", "BEFORE_DEPLOY", "DEPLOY", "AFTER_DEPLOY"}

Goroutine == [task : TaskId, key : Key, inst : Machine, target : Targets]

InFlight(t) == {g \in node : g.task = t}

\* The for loop that starts a goroutine for every machine of the list.
Spawn(t, k, ms, target) ==
    /\ node' = node \cup {[task |-> t, key |-> k, inst |-> m, target |-> target] : m \in ms}
    /\ deploy_err' = deploy_err \ {t}

Outcomes(fault) == IF fault \in Faults THEN BOOLEAN ELSE {TRUE}

\* What CallBackSvc reports for a goroutine.
Reported(g, ok) == IF ok THEN g.target ELSE "FAIL"

\* A goroutine ends: RemoteCmdExec succeeds or not, and CallBackSvc writes the
\* row unless the database refuses, an error nobody looks at.
NodeReturns(g) ==
    /\ \E ok \in Outcomes("ssh"), stored \in Outcomes("db") :
         /\ instance' = IF stored THEN UpdateInst(g.key, g.inst, Reported(g, ok)) ELSE instance
         /\ deploy_err' = IF ~ok /\ g.target \in DoDeployTargets
                          THEN deploy_err \cup {g.task} ELSE deploy_err
    /\ node' = node \ {g}
    /\ UNCHANGED <<task, instr_record>>

EnvTypeOK ==
    /\ node \subseteq Goroutine
    /\ deploy_err \subseteq TaskId
=============================================================================
