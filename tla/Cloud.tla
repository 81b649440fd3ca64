------------------------------- MODULE Cloud --------------------------------
(***************************************************************************)
(* The services schedulx drives and does not own: BridgX, which creates    *)
(* and releases machines by asynchronous tasks of its own, and the load    *)
(* balancer, which holds a server group.  They are modelled by what the    *)
(* clients of src/ may observe of them (bridgxcli, pkg/cloud/aliyun).      *)
(***************************************************************************)
EXTENDS Repository

VARIABLES
    bx,       \* bx[b]: BridgX task b
    machine,  \* machine[m]: where m runs, and whether it does
    slb       \* the machines in the server group

BxKinds == {"expand", "shrink"}

BxStates == {"working", "done", "failed"}

NoBxTask == [kind |-> None, state |-> None, machines |-> {}]

FreeMachines == {m \in Machine : machine[m].state = None}

RunningIn(sc) == {m \in Machine : machine[m].state = "running" /\ machine[m].cluster = sc}

\* BridgX numbers its tasks upwards.
NextBx == {b \in BxTaskId : /\ bx[b].kind = None
                            /\ \A c \in BxTaskId : c < b => bx[c].kind # None}

\* POST cluster/expand: the machines are being created when the answer arrives.
BxExpand(b, sc, ms) ==
    /\ bx' = [bx EXCEPT ![b] = [kind |-> "expand", state |-> "working", machines |-> ms]]
    /\ machine' = [m \in Machine |-> IF m \in ms THEN [state |-> "pending", cluster |-> sc]
                                                 ELSE machine[m]]

\* POST cluster/shrink: the machines go away while the BridgX task works.
BxShrink(b, ms) ==
    /\ bx' = [bx EXCEPT ![b] = [kind |-> "shrink", state |-> "working", machines |-> ms]]
    /\ UNCHANGED machine

\* A BridgX task ends: an expand with the machines that came up (its success
\* rate reaches 1 when all did), a shrink with all its machines released.
BxFinish(b, up) ==
    /\ bx[b].state = "working"
    /\ IF bx[b].kind = "expand"
       THEN /\ bx' = [bx EXCEPT ![b].state = IF up = bx[b].machines THEN "done" ELSE "failed"]
            /\ machine' = [m \in Machine |->
                  IF m \notin bx[b].machines THEN machine[m]
                  ELSE [machine[m] EXCEPT !.state = IF m \in up THEN "running" ELSE "gone"]]
       ELSE /\ bx' = [bx EXCEPT ![b].state = "done"]
            /\ machine' = [m \in Machine |->
                  IF m \notin bx[b].machines THEN machine[m]
                  ELSE [machine[m] EXCEPT !.state = "gone"]]

\* GET task/instances with status Running.
TaskInstances(b) == {m \in bx[b].machines : machine[m].state = "running"}

CloudTypeOK ==
    /\ bx \in [BxTaskId -> [kind : BxKinds \cup {None}, state : BxStates \cup {None},
                            machines : SUBSET Machine]]
    /\ machine \in [Machine -> [state : {"pending", "running", "gone", None},
                                cluster : Cluster \cup {0}]]
    /\ slb \subseteq Machine
=============================================================================
