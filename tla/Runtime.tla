------------------------------ MODULE Runtime ------------------------------
(***************************************************************************)
(* The worker and the control bot together.  They share the database only: *)
(* the session_leases rows and the account rows.  With RUNTIME_ROLE=all    *)
(* they are one process, the supervisor is embedded in the bot, and a tool *)
(* may use the supervisor's client instead of opening one of its own.      *)
(***************************************************************************)
EXTENDS Supervisor, SessionBorrow

vars == <<lease, accountVars, workerVars, borrowVars>>

TypeOK == /\ LeaseTypeOK
          /\ AccountTypeOK
          /\ SupervisorTypeOK
          /\ BorrowTypeOK

Init == LeaseInit /\ AccountInit /\ SupervisorInit /\ BorrowInit

\* get_running_monitor_client: a client the bot's own process is serving.
RunningHere(a) == Role = "all" /\ ClientFor(a)

\* One process has one thread, and loses everything at once.
BotMayRun == Role = "bot" \/ (Suspended /\ loop # "down")

WorkerAlone ==
    /\ WorkerStep
    /\ IF Role = "all" /\ loop' = "down"
       THEN tool' = [t \in Tool |-> "idle"] /\ on' = [t \in Tool |-> NoAccount]
       ELSE UNCHANGED borrowVars

BotAlone ==
    /\ BotMayRun
    /\ \/ \E t \in Tool :
              ToolStep(t) \/ \E a \in Account : Begin(t, a, RunningHere(a))
       \/ Role = "bot" /\ BotCrash
       \/ \E a \in Account : AccountEdit(a) /\ UNCHANGED <<lease, borrowVars>>
    /\ UNCHANGED workerVars

\* Time passes for a lease.
TimePasses ==
    /\ \E a \in Account : LeaseExpires(a)
    /\ UNCHANGED <<accountVars, workerVars, borrowVars>>

Next == WorkerAlone \/ BotAlone \/ TimePasses

Spec == Init /\ [][Next]_vars
-----------------------------------------------------------------------------
(***************************************************************************)
(* Fairness.  The poll of _loop_main wakes the main task with or without a *)
(* signal, and every await of the worker ends (the client library gives up *)
(* by its own timeouts).  An account task that is ready runs when the main *)
(* task next suspends, as asyncio schedules its ready tasks in turn: hence *)
(* strong fairness for the tasks, which the phases of a reconcile disable  *)
(* again and again.  Of the network it is assumed that a slot that may try *)
(* to connect again and again, with no stop asked of it, gets through in   *)
(* the end: a rotation writes another proxy to the row, so that the next   *)
(* reconcile restarts the slot that is connecting, and a network on which  *)
(* only the attempts of slots under a stop succeed would keep the account  *)
(* from being served for ever.  A stopped worker is started again.  Tool   *)
(* calls end, without being cancelled and without the 20-second limit.     *)
(* Nothing is assumed of crashes, drops, edits, or of a tool being         *)
(* started.  A lease expires, though not while its tool still waits for    *)
(* the acknowledgement.                                                    *)
(***************************************************************************)
MainProgress ==
    /\ \/ BeginReconcile \/ AckAndPlan \/ BeginApply \/ EndReconcile
       \/ BeginStopAll \/ WorkerExits \/ WorkerStarts
       \/ \E a \in Account : \/ StopSlot(a) \/ SlotStopped(a)
                             \/ StartSlot(a) \/ RestartSlot(a) \/ KeepSlot(a)
    /\ WorkerAlone

TaskProgress(a) ==
    /\ \/ TaskStops(a) \/ BeginConnect(a) \/ Connected(a) \/ ConnectFails(a)
       \/ Discarded(a) \/ ServeStopped(a) \/ Closed(a)
    /\ WorkerAlone

ToolProgress(t) ==
    /\ \/ PauseEnds(t) /\ LeaseIsAcked(on[t])
       \/ Opened(t) \/ OpenRefused(t) \/ OpenFails(t)
       \/ Closes(t) \/ StopsSharing(t) \/ Reports(t)
    /\ BotAlone

\* The 20 seconds of a wait are over long before the 180 of its lease.
Unawaited(a) == \A t \in Tool : ~(tool[t] = "waiting" /\ on[t] = a)

Fairness ==
    /\ WF_vars(MainProgress)
    /\ \A a \in Account : /\ SF_vars(TaskProgress(a))
                          /\ SF_vars(BeginConnect(a) /\ WorkerAlone)
                          /\ SF_vars(~Stopping(a) /\ Connected(a) /\ WorkerAlone)
                          /\ WF_vars(Unawaited(a) /\ LeaseExpires(a) /\ TimePasses)
    /\ \A t \in Tool : WF_vars(ToolProgress(t))

FairSpec == Spec /\ Fairness
-----------------------------------------------------------------------------
(***************************************************************************)
(* Safety.                                                                 *)
(***************************************************************************)
\* An acknowledged lease means that the worker has no client of the account
\* and no task that could open one: reconcile acknowledges after it stopped
\* the slot and starts none while it sees the lease.  It needs the leases to
\* be readable, for active_lease_ids answers a database error with "none".
AckedMeansStopped ==
    \A a \in Account : LeaseIsAcked(a) => task[a] = "none"

\* is_running in the database is true only while a task serves the account
\* or closes its client: every way out of _serve clears it.
RunningMeansServing ==
    \A a \in Account : isRunning[a] => task[a] \in {"up", "closing"}

\* A task that ended by itself leaves its slot behind, and reconcile keeps
\* it as long as the account is listed with the same details.  So the
\* account must not be listed any more: its session is marked invalid, it
\* was deleted, or it came back with another login.
DeadSlotIsUnwanted ==
    \A a \in Account :
        task[a] = "done" /\ ~Stopping(a)
            => ~Candidate(a) \/ made[a][2] # session[a]

\* A tool works on an account with a session of its own only under a lease
\* the worker has acknowledged (runtime/lease.py, pause_remote_runtime).
ToolHoldsAckedLease ==
    \A t \in Tool, a \in Account : ToolSession(t, a) => LeaseIsAcked(a)

\* "... so the worker disconnects and Telegram does not see two sessions"
\* (lease.py:3-6): the worker and a tool never have a session each.
NotTwoSessions ==
    \A t \in Tool, a \in Account : ~(ToolSession(t, a) /\ WorkerSession(a))

\* "Prefer the runtime's client so interactive tools do not open a second
\* session" (code_monitor.py:537), said of the embedded supervisor.
EmbeddedToolsShare == Role = "all" => NotTwoSessions

\* The open sessions, for the abstract specification.
Party == {"worker", "leak"} \cup Tool

Holders ==
    [a \in Account |->
        (IF WorkerSession(a) THEN {"worker"} ELSE {})
            \cup (IF leaked[a] THEN {"leak"} ELSE {})
            \cup {t \in Tool : ToolSession(t, a)}]

Exclusive == INSTANCE ExclusiveSession WITH holders <- Holders

\* The worker and the tools behind the per-account lock implement an
\* exclusive session as long as nothing gets late and no read of the leases
\* fails: two_step.py and runtime/lease.py with reconcile.
ExclusiveSessionSpec == Exclusive!Spec
-----------------------------------------------------------------------------
(***************************************************************************)
(* Liveness.                                                               *)
(***************************************************************************)
\* A tool that asked for the session gets it acknowledged as long as its lease
\* lasts, without the 20-second limit having to help it out.
LeaseIsAnswered ==
    \A t \in Tool, a \in Account :
        (tool[t] = "waiting" /\ on[t] = a)
            ~> (tool[t] # "waiting" \/ lease[a].row # "live")

\* "Make running clients match the database for this shard"
\* (supervisor.py:221): an account that is listed from some point on, with
\* no lease on it, is served again and again.
ListedAccountsAreServed ==
    \A a \in Account :
        <>[](Candidate(a) /\ a \notin ActiveLeaseIds) => []<>(task[a] = "up")

\* An account that is not listed any more, or leased for good, ends up
\* without a client in the worker.
UnlistedAccountsAreStopped ==
    \A a \in Account :
        (<>[]~Candidate(a) \/ <>[](a \in ActiveLeaseIds))
            => <>[](task[a] = "none")
=============================================================================
