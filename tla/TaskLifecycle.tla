--------------------------- MODULE TaskLifecycle ----------------------------
(***************************************************************************)
(* What a schedule task promises to those who poll it: it runs a fixed     *)
(* number of instructions one by one, ends in SUCC when all of them are    *)
(* done or in FAIL at any point before, and then changes no more.          *)
(***************************************************************************)
EXTENDS Naturals

CONSTANTS
    Task,    \* ids of tasks
    MaxLen   \* the length of the longest instruction group

VARIABLES
    status,  \* status[t]: what the task's row says
    len,     \* len[t]: how many instructions the task has
    done     \* done[t]: how many of them have succeeded

lifecycleVars == <<status, len, done>>

Init ==
    /\ status = [t \in Task |-> "NONE"]
    /\ len = [t \in Task |-> 0]
    /\ done = [t \in Task |-> 0]

Unended(t) == status[t] \in {"RUNNING", "ROLLING_BACK"}

\* The task is accepted, or refused on the spot for its template.
Accept(t) ==
    /\ status[t] = "NONE"
    /\ \E s \in {"RUNNING", "ROLLING_BACK", "FAIL"}, n \in 1..MaxLen :
         /\ status' = [status EXCEPT ![t] = s]
         /\ len' = [len EXCEPT ![t] = n]
    /\ UNCHANGED done

Complete(t) ==
    /\ Unended(t)
    /\ done[t] < len[t]
    /\ done' = [done EXCEPT ![t] = @ + 1]
    /\ UNCHANGED <<status, len>>

End(t) ==
    /\ Unended(t)
    /\ \/ done[t] = len[t] /\ status' = [status EXCEPT ![t] = "SUCC"]
       \/ status' = [status EXCEPT ![t] = "FAIL"]
    /\ UNCHANGED <<len, done>>

Next == \E t \in Task : Accept(t) \/ Complete(t) \/ End(t)

Spec == Init /\ [][Next]_lifecycleVars
=============================================================================
