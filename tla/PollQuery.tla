----------------------------- MODULE PollQuery ------------------------------
(***************************************************************************)
(* The wait for remote work: pollQueryExpandAction, pollQueryShrinkAction  *)
(* and poolQueryTask start a goroutine that asks for the success rate now  *)
(* and then and sends one verdict over a channel; the caller selects       *)
(* between that channel and a timer.  ScheduleSvc takes this wait as one   *)
(* guarded step.                                                           *)
(*                                                                         *)
(* Time is counted from the start of the goroutine; a sleep lasts at least *)
(* as long as asked, and a goroutine may run late.                         *)
(***************************************************************************)
EXTENDS Naturals, Sequences

CONSTANTS
    Interval,    \* the sleep between two queries
    TimeWait,    \* timeWait, the caller's patience
    Grace,       \* what the goroutine adds to it (2 s)
    MaxClock,    \* bound of the model: the clock stops here
    Polls        \* "bridgx": a failed query is counted; "nodes": its nil answer is
                 \* dereferenced (poolQueryTask)

ASSUME TimeAssumption ==
    /\ Interval \in Nat \ {0}
    /\ TimeWait \in Nat
    /\ Grace \in Nat
    /\ MaxClock \in Nat
    /\ TimeWait + Grace + Interval < MaxClock
    /\ Polls \subseteq {"bridgx", "nodes"}

VARIABLES
    clock,    \* time since the goroutine started
    pc,       \* the goroutine: "sleep", "query", "send" or "ended"
    wake,     \* when its sleep is over
    errCnt,   \* failed queries so far
    verdict,  \* what it is about to send
    chan,     \* queryTaskC
    outcome,  \* what the caller's select came to
    seen,     \* history: whether an answer ever passed RatePass
    poll      \* which of the polls it is

vars == <<clock, pc, wake, errCnt, verdict, chan, outcome, seen, poll>>

MaxErrors == 3

Verdict == {"pass", "fail"}   \* the booleans true and false of the channel

Capacity == 1   \* make(chan bool, 1)

NoOutcome == "none"

Init ==
    /\ clock = 0
    /\ pc = "sleep"
    /\ wake = Interval
    /\ errCnt = 0
    /\ verdict = "fail"
    /\ chan = <<>>
    /\ outcome = NoOutcome
    /\ seen = FALSE
    /\ poll \in Polls

Alive == outcome # "panic"

-----------------------------------------------------------------------------
(* The goroutine *)

\* Mutants: one failed query is enough; one more is allowed.
GiveUpAtOnce(errs) == errs >= 1

GiveUpLate(errs) == errs > MaxErrors

\* The test at the head of the loop.
TooManyErrors(errs) == errs >= MaxErrors

Wake ==
    /\ Alive /\ pc = "sleep"
    /\ clock >= wake
    /\ pc' = "query"
    /\ UNCHANGED <<clock, wake, errCnt, verdict, chan, outcome, seen, poll>>

\* Mutant: every way out of the loop sends true.
DecideTrue(v) == pc' = "send" /\ verdict' = "pass" /\ UNCHANGED wake

Decide(v) == pc' = "send" /\ verdict' = v /\ UNCHANGED wake

\* Times beyond the bound of the model are the bound.
Later(d) == IF clock + d < MaxClock THEN clock + d ELSE MaxClock

SleepAgain == pc' = "sleep" /\ wake' = Later(Interval) /\ UNCHANGED verdict

\* The rate has reached 1.
AnswerPasses ==
    /\ Alive /\ pc = "query"
    /\ Decide("pass")
    /\ seen' = TRUE
    /\ UNCHANGED <<clock, errCnt, chan, outcome, poll>>

\* Mutant: the goroutine has no time limit of its own.
NeverOverdue == FALSE

Overdue == clock > TimeWait + Grace

\* It has not: only after an answer does the loop look at the time.
AnswerFallsShort ==
    /\ Alive /\ pc = "query"
    /\ IF Overdue THEN Decide("fail") ELSE SleepAgain
    /\ UNCHANGED <<clock, errCnt, chan, outcome, seen, poll>>

QueryFails ==
    /\ Alive /\ pc = "query" /\ poll = "bridgx"
    /\ errCnt' = errCnt + 1
    /\ IF TooManyErrors(errCnt') THEN Decide("fail") ELSE SleepAgain
    /\ UNCHANGED <<clock, chan, outcome, seen, poll>>

\* Nobody recovers in this goroutine: the process dies, the caller with it.
QueryPanics ==
    /\ Alive /\ pc = "query" /\ poll = "nodes"
    /\ pc' = "ended"
    /\ outcome' = "panic"
    /\ UNCHANGED <<clock, wake, errCnt, verdict, chan, seen, poll>>

\* Mutant: a channel without a buffer hands over only to a caller who waits.
HasRoomUnbuffered == outcome = NoOutcome

HasRoom == Len(chan) < Capacity

Send ==
    /\ Alive /\ pc = "send"
    /\ HasRoom
    /\ chan' = Append(chan, verdict)
    /\ pc' = "ended"
    /\ UNCHANGED <<clock, wake, errCnt, verdict, outcome, seen, poll>>

-----------------------------------------------------------------------------
(* The caller: a select takes any case that is ready. *)

Receive ==
    /\ outcome = NoOutcome
    /\ chan # <<>>
    /\ outcome' = IF Head(chan) = "pass" THEN "done" ELSE "failed"
    /\ chan' = Tail(chan)
    /\ UNCHANGED <<clock, pc, wake, errCnt, verdict, seen, poll>>

TimerFires == clock >= TimeWait

TimesOut ==
    /\ outcome = NoOutcome
    /\ TimerFires
    /\ outcome' = "timeout"
    /\ UNCHANGED <<clock, pc, wake, errCnt, verdict, chan, seen, poll>>

Tick ==
    /\ clock < MaxClock
    /\ clock' = clock + 1
    /\ UNCHANGED <<pc, wake, errCnt, verdict, chan, outcome, seen, poll>>

Poller == Wake \/ AnswerPasses \/ AnswerFallsShort \/ QueryFails \/ QueryPanics \/ Send

Caller == Receive \/ TimesOut

\* Both have ended, or the process has.
Rest == (pc = "ended" /\ outcome # NoOutcome) /\ UNCHANGED vars

Next == Poller \/ Caller \/ Tick \/ Rest

Spec == Init /\ [][Next]_vars

\* The Go scheduler runs both; a query answers or fails (the client has a
\* timeout of 2 s), and time passes.
FairSpec == Spec /\ WF_vars(Poller) /\ WF_vars(Caller) /\ WF_vars(Tick)

-----------------------------------------------------------------------------
Outcomes == {NoOutcome, "done", "failed", "timeout", "panic"}

TypeOK ==
    /\ clock \in Nat /\ clock <= MaxClock
    /\ pc \in {"sleep", "query", "send", "ended"}
    /\ wake \in Nat
    /\ errCnt \in 0..MaxErrors
    /\ verdict \in Verdict
    /\ chan \in Seq(Verdict)
    /\ outcome \in Outcomes
    /\ seen \in BOOLEAN
    /\ poll \in Polls

(* The goroutine never waits to send: its one verdict always finds room, also *)
(* when the caller's timer fired long ago, so no goroutine is leaked.        *)
NeverBlocks == pc = "send" => HasRoom

(* A success is never made up: the caller goes on only when some answer had   *)
(* the full rate.                                                            *)
DoneWasSeen == outcome = "done" => seen

(* A caller is refused before its time is up only after three failed queries: *)
(* neither a low rate nor one or two errors end the wait early.              *)
EarlyFailureMeansErrors ==
    (outcome \in {"failed", "timeout"} /\ clock < TimeWait) => errCnt >= MaxErrors

(* The goroutine ends and the caller gets its answer, whatever is answered.  *)
BothEnd == <>(pc = "ended" /\ outcome # NoOutcome)
=============================================================================
