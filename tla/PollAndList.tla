----------------------------- MODULE PollAndList -----------------------------
(***************************************************************************)
(* A poll and the listing its caller goes on to when it has passed.  The   *)
(* poll of a shrink has no listing.                                        *)
(***************************************************************************)
EXTENDS PollQuery, Paging

allVars == <<vars, pagingVars>>

\* A poll of the machines goes on to their rows, one of BridgX to its machines.
InitBoth == Init /\ InitPaging /\ source = poll

\* Time does not matter to the listing.
Polling == loop = "start" /\ (Poller \/ Caller \/ Tick) /\ UNCHANGED pagingVars

\* The goroutine of the poll has ended, its clock and its counts with it.
Goes ==
    /\ outcome = "done" /\ pc = "ended"
    /\ Start
    /\ clock' = MaxClock /\ wake' = MaxClock /\ errCnt' = 0
    /\ UNCHANGED <<pc, verdict, chan, outcome, seen, poll>>

Listing == Goes \/ (loop # "start" /\ List /\ UNCHANGED vars)

Moving == Move /\ UNCHANGED vars

AllRest ==
    /\ pc = "ended" /\ outcome # NoOutcome
    /\ loop \in Ended \cup {"start"}
    /\ UNCHANGED allVars

NextBoth == Polling \/ Listing \/ Moving \/ AllRest

\* As for a poll; and the caller goes on.
FairBoth ==
    /\ InitBoth /\ [][NextBoth]_allVars
    /\ WF_allVars(Poller /\ UNCHANGED pagingVars)
    /\ WF_allVars(Caller /\ UNCHANGED pagingVars)
    /\ WF_allVars(Tick /\ UNCHANGED pagingVars)
    /\ WF_allVars(loop # "start" /\ Listing)
=============================================================================
