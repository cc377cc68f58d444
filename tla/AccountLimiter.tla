--------------------------- MODULE AccountLimiter ---------------------------
(***************************************************************************)
(* runtime/flood.py: every Telegram call of one account waits for its turn *)
(* in one queue, for the minimum gap after the last call, and for the end  *)
(* of a FloodWait.  _pace reads the later of the deadlines _next_at and    *)
(* _flood_until, which is kept as whether it still lies ahead.             *)
(***************************************************************************)
EXTENDS Naturals, Sequences

CONSTANTS Caller, MaxQueue

ASSUME MaxQueueAssumption == MaxQueue \in Nat \ {0}   \* else __init__ raises ValueError

VARIABLES
    queue,      \* the calls that count in _waiting; the first one holds _lock
    call,       \* how far the first one is
    early       \* max(_next_at, _flood_until) lies ahead

limiterVars == <<queue, call, early>>

LimiterTypeOK == /\ queue \in Seq(Caller) /\ Len(queue) <= MaxQueue
                 /\ call \in {"pacing", "calling", "sleeping", "retrying"}
                 /\ early \in BOOLEAN

LimiterInit == queue = <<>> /\ call = "pacing" /\ early = FALSE

Queued(c) == \E i \in DOMAIN queue : queue[i] = c

\* Mutant: the action in flight is not counted
FullBehindFirst(q) == Len(q) > MaxQueue

\* ActionQueueFull is raised
Full(q) == Len(q) >= MaxQueue

\* _pace is over and the first attempt is made
CallStarts ==
    /\ queue # <<>> /\ call = "pacing" /\ ~early
    /\ call' = "calling"
    /\ UNCHANGED <<queue, early>>

\* A FloodWait within retry_threshold: sleep it out
CallFloods ==
    /\ call = "calling"
    /\ call' = "sleeping" /\ early' = TRUE
    /\ UNCHANGED queue

\* The single retry, when the FloodWait is over
CallRetries ==
    /\ call = "sleeping"
    /\ call' = "retrying" /\ early' = FALSE
    /\ UNCHANGED queue

\* The call of c is over, and c queues up again at once if it has another call to
\* make (again).  A success starts the gap; an error does not, but it may be a
\* FloodWait that is not slept out (FloodDeferred).
CallEnds(c, ok, again) ==
    /\ queue # <<>> /\ Head(queue) = c /\ call \in {"calling", "retrying"}
    /\ queue' = IF again THEN Append(Tail(queue), c) ELSE Tail(queue)
    /\ call' = "pacing"
    /\ early' \in (IF ok THEN {TRUE} ELSE BOOLEAN)

\* run: take a place in the queue
Enters(c) == queue' = Append(queue, c) /\ UNCHANGED <<call, early>>

\* Mutant: the time of the gap is not awaited when nobody queues
TimePassesIdle == early /\ queue = <<>> /\ early' = FALSE /\ UNCHANGED <<queue, call>>

TimePasses == /\ early /\ call = "pacing" /\ early' = FALSE
              /\ UNCHANGED <<queue, call>>

LimiterStep == CallStarts \/ CallFloods \/ CallRetries \/ TimePasses
=============================================================================
