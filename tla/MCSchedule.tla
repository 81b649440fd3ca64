----------------------------- MODULE MCSchedule -----------------------------
(* TLC instances of the scheduler. *)
EXTENDS ScheduleProps, TLC

CONSTANTS m1, m2, m3

MachineSymmetry == Permutations(Machine)

\* Fairness: the Go scheduler runs every goroutine.  A deploy waits for its
\* commands without a time limit, so those are assumed to end; BridgX and the
\* commands of an expand may hang for ever.
TaskFairness == \A t \in TaskId : WF_vars(RunStep(t))

DeployNodeFairness ==
    \A t \in TaskId, m \in Machine, tgt \in Targets :
        WF_vars(LET g == [task |-> t, key |-> t, inst |-> m, target |-> tgt]
                IN  g \in node /\ NodeStep(g))

FairSpec == Spec /\ TaskFairness /\ DeployNodeFairness
=============================================================================
