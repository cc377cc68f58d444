----------------------------- MODULE Supervisor -----------------------------
(***************************************************************************)
(* The worker process (runtime/supervisor.py, runtime/connect.py): one     *)
(* asyncio task per account slot and the main task that reconciles the     *)
(* slots with the database.                                                *)
(*                                                                         *)
(* The process has one thread.  A task runs until its next await, and      *)
(* every database call blocks the thread, so inside the worker the only    *)
(* interleaving points are awaits; the control bot is another process and  *)
(* runs between any two transactions.  Hence the phases of a reconcile are *)
(* separate actions (the bot interleaves), while account tasks may only    *)
(* move when the main task is itself suspended (Suspended).                *)
(***************************************************************************)
EXTENDS AccountTable

CONSTANT MaxProxyRetries      \* MAX_PROXY_RETRIES of connect_account

ASSUME RetriesAssumption == MaxProxyRetries \in Nat \ {0}

VARIABLES
  loop,        \* where the main task is
  todo,        \* accounts the current loop of reconcile or stop still visits
  awaiting,    \* the slot _stop_slot waits for: {} or one account
  leased,      \* reconcile's snapshot of the leases
  desired,     \* reconcile's snapshot of the accounts that should run
  rows,        \* fingerprints of that snapshot
  shutdown,    \* the _shutdown event
  task,        \* task[a]: where the account's task is; "none": no slot
  stopEvent,   \* slot.stop_event
  made,        \* slot.fingerprint: the details the task was started with
  via,         \* proxy of the connect attempt in progress
  attempt,     \* number of that attempt
  why,         \* why the task is closing its client
  leaked       \* a started client nobody will ever stop

slotVars == <<task, stopEvent, made, via, attempt, why, leaked>>
mainVars == <<loop, todo, awaiting, leased, desired, rows, shutdown>>
workerVars == <<mainVars, slotVars>>

Row == (Proxy \cup {NoProxy}) \X (0 .. MaxSession)
NoRow == <<NoProxy, 0>>

Phase == {"wait", "stop_leased", "stop_undesired", "apply", "stop_all", "down"}
TaskState == {"none", "check", "connecting", "discard", "up", "closing", "done"}
Reason == {"none", "stop", "drop", "invalid", "cancel"}

SupervisorTypeOK ==
    /\ loop \in Phase
    /\ todo \subseteq Account
    /\ awaiting \subseteq Account
    /\ leased \subseteq Account
    /\ desired \subseteq Account
    /\ rows \in [Account -> Row]
    /\ shutdown \in BOOLEAN
    /\ task \in [Account -> TaskState]
    /\ stopEvent \in [Account -> BOOLEAN]
    /\ made \in [Account -> Row]
    /\ via \in [Account -> Proxy \cup {NoProxy}]
    /\ attempt \in [Account -> 0 .. MaxProxyRetries]
    /\ why \in [Account -> Reason]
    /\ leaked \in [Account -> BOOLEAN]

SupervisorInit ==
    /\ loop = "wait" /\ shutdown = FALSE
    /\ todo = {} /\ awaiting = {} /\ leased = {} /\ desired = {}
    /\ rows = [a \in Account |-> NoRow]
    /\ task = [a \in Account |-> "none"]
    /\ stopEvent = [a \in Account |-> FALSE]
    /\ made = [a \in Account |-> NoRow]
    /\ via = [a \in Account |-> NoProxy]
    /\ attempt = [a \in Account |-> 0]
    /\ why = [a \in Account |-> "none"]
    /\ leaked = [a \in Account |-> FALSE]

Slots == {a \in Account : task[a] # "none"}

\* The worker holds a client of the account that Telegram may see.
WorkerSession(a) == task[a] \in {"connecting", "discard", "up", "closing"}

\* client_for: only the client of a serving task is handed out.
ClientFor(a) == task[a] = "up"

\* The main task is at an await: the account tasks can run.
Suspended == loop = "wait" \/ awaiting # {}

Stopping(a) == stopEvent[a] \/ shutdown

\* Mutant: the flag is only ever raised.
SetAccountRunningSticky(a, value) ==
    isRunning' = [isRunning EXCEPT ![a] = @ \/ value]

\* The write may be lost: the store functions log the error and go on.
SetAccountRunning(a, value) ==
    \/ isRunning' = [isRunning EXCEPT ![a] = value]
    \/ "running_error" \in May /\ isRunning' = isRunning

\* Mutant: a refused session is not recorded.
MarkGoodOnly(a, value) ==
    IF value = "ok" THEN MarkSession(a, value)
                    ELSE sessionStatus' = sessionStatus

Mark(a, value) ==
    \/ MarkSession(a, value)
    \/ "status_error" \in May /\ sessionStatus' = sessionStatus
-----------------------------------------------------------------------------
(***************************************************************************)
(* The main task: _loop_main, reconcile, stop.                             *)
(***************************************************************************)
\* reconcile reads the leases of the shard; on a database error
\* active_lease_ids returns the empty set.
BeginReconcile ==
    /\ loop = "wait" /\ ~shutdown
    /\ \/ PruneExpired /\ leased' = ActiveLeaseIds
       \/ "lease_read_error" \in May /\ leased' = {} /\ UNCHANGED lease
    /\ todo' = leased' \cap Slots
    /\ loop' = "stop_leased"
    /\ UNCHANGED <<awaiting, desired, rows, shutdown, slotVars, accountVars>>

\* _stop_slot raises the slot's stop event and waits for its task.
StopSlot(a) ==
    /\ loop \in {"stop_leased", "stop_undesired", "stop_all"}
    /\ awaiting = {} /\ a \in todo
    /\ awaiting' = {a}
    /\ stopEvent' = [stopEvent EXCEPT ![a] = TRUE]
    /\ UNCHANGED <<loop, todo, leased, desired, rows, shutdown, task, made,
                   via, attempt, why, leaked, accountVars, lease>>

\* The awaited task has ended: _stop_slot forgets the slot.  During the last
\* loop of reconcile the slot is made anew at once, with the new details.
SlotStopped(a) ==
    /\ awaiting = {a} /\ task[a] = "done"
    /\ awaiting' = {} /\ todo' = todo \ {a}
    /\ stopEvent' = [stopEvent EXCEPT ![a] = FALSE]
    /\ task' = [task EXCEPT ![a] = IF loop = "apply" THEN "check" ELSE "none"]
    /\ made' = [made EXCEPT ![a] = IF loop = "apply" THEN rows[a] ELSE NoRow]
    /\ UNCHANGED <<loop, leased, desired, rows, shutdown, via, attempt, why,
                   leaked, accountVars, lease>>

\* stop_timeout has passed: the task is cancelled.  A task that serves, or
\* still waits for its plugins to end, closes its client all the same; one
\* cancelled inside client.start or client.stop leaves a client that may be
\* connected, and skips what comes after.  The cancellation is delivered
\* once, then the task is awaited without a limit.
StopTimesOut(a) ==
    /\ "stop_timeout" \in May
    /\ awaiting = {a}
    /\ \/ /\ task[a] \in {"up", "closing"} /\ why[a] # "cancel"
          /\ task' = [task EXCEPT ![a] = "closing"]
          /\ why' = [why EXCEPT ![a] = "cancel"]
          /\ UNCHANGED <<leaked, via, attempt>>
       \/ /\ task[a] \in {"connecting", "discard", "closing"}
          /\ why[a] # "cancel"
          /\ task' = [task EXCEPT ![a] = "done"]
          /\ why' = [why EXCEPT ![a] = "none"]
          /\ \E l \in {leaked[a], TRUE} : leaked' = [leaked EXCEPT ![a] = l]
          /\ via' = [via EXCEPT ![a] = NoProxy]
          /\ attempt' = [attempt EXCEPT ![a] = 0]
    /\ UNCHANGED <<mainVars, stopEvent, made, accountVars, lease>>

\* Mutant: a leased account is started again by the reconcile that stopped it.
ShouldRunLeasedToo == {a \in Account : Candidate(a)}

\* desired: the listed accounts that reconcile did not see leased.
ShouldRun == {a \in Account : Candidate(a)} \ leased

\* Mutant: only leases of accounts with a slot are acknowledged.
AcknowledgedSlots == leased \cap Slots

\* Every lease of the snapshot is acknowledged, with or without a slot.
Acknowledged == leased

\* Mutant: only slots whose task has ended are removed.
UnwantedEnded(wanted) == {a \in Slots \ wanted : task[a] = "done"}

\* The slots to stop once the wanted accounts are known.
Unwanted(wanted) == Slots \ wanted

\* The leased slots are gone: the leases are acknowledged and the accounts
\* that should run are listed.  On an error the list is empty.
AckAndPlan ==
    /\ loop = "stop_leased" /\ todo = {} /\ awaiting = {}
    /\ \/ AckSessionLeases(Acknowledged)
       \/ "ack_error" \in May /\ UNCHANGED lease
    /\ \/ desired' = ShouldRun
       \/ "plan_error" \in May /\ desired' = {}
    /\ rows' = [a \in Account |-> IF a \in desired' THEN Fingerprint(a)
                                                    ELSE NoRow]
    /\ todo' = Unwanted(desired')
    /\ loop' = "stop_undesired"
    /\ UNCHANGED <<awaiting, leased, shutdown, slotVars, accountVars>>

BeginApply ==
    /\ loop = "stop_undesired" /\ todo = {} /\ awaiting = {}
    /\ loop' = "apply" /\ todo' = desired
    /\ UNCHANGED <<awaiting, leased, desired, rows, shutdown, slotVars,
                   accountVars, lease>>

\* A desired account without a slot gets one.
StartSlot(a) ==
    /\ loop = "apply" /\ awaiting = {} /\ a \in todo
    /\ task[a] = "none"
    /\ task' = [task EXCEPT ![a] = "check"]
    /\ made' = [made EXCEPT ![a] = rows[a]]
    /\ todo' = todo \ {a}
    /\ UNCHANGED <<loop, awaiting, leased, desired, rows, shutdown, stopEvent,
                   via, attempt, why, leaked, accountVars, lease>>

\* The slot was made from other details: it is stopped and made anew.
RestartSlot(a) ==
    /\ loop = "apply" /\ awaiting = {} /\ a \in todo
    /\ task[a] # "none" /\ made[a] # rows[a]
    /\ awaiting' = {a}
    /\ stopEvent' = [stopEvent EXCEPT ![a] = TRUE]
    /\ UNCHANGED <<loop, todo, leased, desired, rows, shutdown, task, made,
                   via, attempt, why, leaked, accountVars, lease>>

\* The slot is as it should be: its plugins are told to refresh.  Whether
\* its task still runs is not looked at.
KeepSlot(a) ==
    /\ loop = "apply" /\ awaiting = {} /\ a \in todo
    /\ task[a] # "none" /\ made[a] = rows[a]
    /\ todo' = todo \ {a}
    /\ UNCHANGED <<loop, awaiting, leased, desired, rows, shutdown, slotVars,
                   accountVars, lease>>

EndReconcile ==
    /\ loop = "apply" /\ todo = {} /\ awaiting = {}
    /\ loop' = "wait"
    /\ leased' = {} /\ desired' = {} /\ rows' = [a \in Account |-> NoRow]
    /\ UNCHANGED <<todo, awaiting, shutdown, slotVars, accountVars, lease>>

\* Supervisor.stop: a signal asks the process to end.
RequestStop ==
    /\ "shutdown" \in May
    /\ loop # "down" /\ Suspended /\ ~shutdown
    /\ shutdown' = TRUE
    /\ UNCHANGED <<loop, todo, awaiting, leased, desired, rows, slotVars,
                   accountVars, lease>>

BeginStopAll ==
    /\ loop = "wait" /\ shutdown
    /\ loop' = "stop_all" /\ todo' = Slots
    /\ UNCHANGED <<awaiting, leased, desired, rows, shutdown, slotVars,
                   accountVars, lease>>

\* The process is gone, and its connections with it.
ProcessGone ==
    /\ loop' = "down" /\ shutdown' = FALSE
    /\ todo' = {} /\ awaiting' = {} /\ leased' = {} /\ desired' = {}
    /\ rows' = [a \in Account |-> NoRow]
    /\ task' = [a \in Account |-> "none"]
    /\ stopEvent' = [a \in Account |-> FALSE]
    /\ made' = [a \in Account |-> NoRow]
    /\ via' = [a \in Account |-> NoProxy]
    /\ attempt' = [a \in Account |-> 0]
    /\ why' = [a \in Account |-> "none"]
    /\ leaked' = [a \in Account |-> FALSE]
    /\ UNCHANGED <<accountVars, lease>>

WorkerExits == loop = "stop_all" /\ todo = {} /\ awaiting = {} /\ ProcessGone

WorkerCrash == "worker_crash" \in May /\ loop # "down" /\ ProcessGone

\* The service manager starts the worker again.
WorkerStarts ==
    /\ loop = "down" /\ loop' = "wait"
    /\ UNCHANGED <<todo, awaiting, leased, desired, rows, shutdown, slotVars,
                   accountVars, lease>>
-----------------------------------------------------------------------------
(***************************************************************************)
(* The task of one account: _run_account, _serve, connect_account.         *)
(***************************************************************************)
Ends(a) ==
    /\ task' = [task EXCEPT ![a] = "done"]
    /\ why' = [why EXCEPT ![a] = "none"]
    /\ via' = [via EXCEPT ![a] = NoProxy]
    /\ attempt' = [attempt EXCEPT ![a] = 0]

\* Mutant: a failure ends the task.
RetriesNever(a) == Ends(a)

\* Back to the head of the loop, after the backoff sleep.
Retries(a) ==
    /\ task' = [task EXCEPT ![a] = "check"]
    /\ why' = [why EXCEPT ![a] = "none"]
    /\ via' = [via EXCEPT ![a] = NoProxy]
    /\ attempt' = [attempt EXCEPT ![a] = 0]

\* The head of the loop: a stop ends the task.
TaskStops(a) ==
    /\ Suspended /\ task[a] = "check" /\ Stopping(a)
    /\ Ends(a)
    /\ UNCHANGED <<mainVars, stopEvent, made, leaked, accountVars, lease>>

\* The account is not leased (or the leases could not be read): the
\* connector starts, with the slot's proxy or a random one.  A leased account
\* sleeps and asks again, which changes nothing here.
BeginConnect(a) ==
    /\ Suspended /\ task[a] = "check" /\ ~Stopping(a)
    /\ \/ a \notin ActiveLeaseIds /\ PruneExpired
       \/ "lease_read_error" \in May /\ UNCHANGED lease
    /\ task' = [task EXCEPT ![a] = "connecting"]
    /\ \E p \in IF made[a][1] # NoProxy THEN {made[a][1]}
                ELSE RandomProxyId(NoProxy) :
           via' = [via EXCEPT ![a] = p]
    /\ attempt' = [attempt EXCEPT ![a] = 1]
    /\ UNCHANGED <<mainVars, stopEvent, made, why, leaked, accountVars>>

\* Mutant: the attempts are counted one too far.
MoreAttemptsOffByOne(a) == attempt[a] <= MaxProxyRetries

\* for attempt in range(MAX_PROXY_RETRIES)
MoreAttempts(a) == attempt[a] < MaxProxyRetries

\* An attempt failed on the network: rotate_account_proxy writes another
\* proxy into the row, and the next attempt uses it.
RotateAndRetry(a) ==
    /\ Suspended /\ task[a] = "connecting" /\ MoreAttempts(a)
    /\ \E p \in RandomProxyId(via[a]) :
           /\ via' = [via EXCEPT ![a] = p]
           /\ IF p = NoProxy THEN UNCHANGED proxyId ELSE SetProxy(a, p)
    /\ attempt' = [attempt EXCEPT ![a] = @ + 1]
    /\ UNCHANGED <<mainVars, task, stopEvent, made, why, leaked,
                   standing, sessionStatus, session, isRunning, lease>>

\* ConnectFailed: the last attempt failed, after one more rotation, or some
\* other error came up.
ConnectFails(a) ==
    /\ Suspended /\ task[a] = "connecting"
    /\ \/ /\ attempt[a] = MaxProxyRetries
          /\ \E p \in RandomProxyId(via[a]) :
                 IF p = NoProxy THEN UNCHANGED proxyId ELSE SetProxy(a, p)
       \/ UNCHANGED proxyId
    /\ Retries(a)
    /\ UNCHANGED <<mainVars, stopEvent, made, leaked,
                   standing, sessionStatus, session, isRunning, lease>>

\* SessionInvalid: Telegram refuses the session.  _invalidate marks it and
\* the task ends, leaving its slot in place.
ConnectRefused(a) ==
    /\ Suspended /\ task[a] = "connecting"
    /\ Ends(a)
    /\ Mark(a, "invalid")
    /\ SetAccountRunning(a, FALSE)
    /\ UNCHANGED <<mainVars, stopEvent, made, leaked, standing, proxyId,
                   session, lease>>

\* The client started.  A proxy the row did not have is written to it.  If a
\* stop arrived meanwhile the client is thrown away, otherwise it serves.
Connected(a) ==
    /\ Suspended /\ task[a] = "connecting"
    /\ IF via[a] \notin {NoProxy, made[a][1]}
       THEN SetProxy(a, via[a]) ELSE UNCHANGED proxyId
    /\ via' = [via EXCEPT ![a] = NoProxy]
    /\ attempt' = [attempt EXCEPT ![a] = 0]
    /\ \/ /\ Stopping(a)
          /\ task' = [task EXCEPT ![a] = "discard"]
          /\ UNCHANGED <<isRunning, sessionStatus>>
       \/ /\ ~Stopping(a)
          /\ task' = [task EXCEPT ![a] = "up"]
          /\ SetAccountRunning(a, TRUE)
          /\ Mark(a, "ok")
    /\ UNCHANGED <<mainVars, stopEvent, made, why, leaked, standing, session,
                   lease>>

Discarded(a) ==
    /\ Suspended /\ task[a] = "discard"
    /\ Ends(a)
    /\ UNCHANGED <<mainVars, stopEvent, made, leaked, accountVars, lease>>

\* _serve returns: the stop event is set, the connection dropped or its
\* health probe failed, or the probe found the session refused.
StopsServing(a, reason) ==
    /\ Suspended /\ task[a] = "up"
    /\ task' = [task EXCEPT ![a] = "closing"]
    /\ why' = [why EXCEPT ![a] = reason]
    /\ UNCHANGED <<mainVars, stopEvent, made, via, attempt, leaked,
                   accountVars, lease>>

ServeStopped(a) == Stopping(a) /\ StopsServing(a, "stop")
ServeDropped(a) == StopsServing(a, "drop")
ServeRefused(a) == StopsServing(a, "invalid")

\* The finally block is through: the client is stopped and is_running is
\* cleared; then the session is marked, or the task ends, or it reconnects.
Closed(a) ==
    /\ Suspended /\ task[a] = "closing"
    /\ SetAccountRunning(a, FALSE)
    /\ IF why[a] = "invalid" THEN Mark(a, "invalid")
                             ELSE UNCHANGED sessionStatus
    /\ IF why[a] = "drop" /\ ~Stopping(a) THEN Retries(a) ELSE Ends(a)
    /\ UNCHANGED <<mainVars, stopEvent, made, leaked, standing, proxyId,
                   session, lease>>
-----------------------------------------------------------------------------
MainStep == \/ BeginReconcile \/ AckAndPlan \/ BeginApply \/ EndReconcile
            \/ RequestStop \/ BeginStopAll
            \/ WorkerExits \/ WorkerCrash \/ WorkerStarts

SlotStep(a) == \/ StopSlot(a) \/ SlotStopped(a) \/ StopTimesOut(a)
               \/ StartSlot(a) \/ RestartSlot(a) \/ KeepSlot(a)

TaskStep(a) == \/ TaskStops(a) \/ BeginConnect(a)
               \/ RotateAndRetry(a) \/ ConnectFails(a) \/ ConnectRefused(a)
               \/ Connected(a) \/ Discarded(a)
               \/ ServeStopped(a) \/ ServeDropped(a) \/ ServeRefused(a)
               \/ Closed(a)

WorkerStep == MainStep \/ \E a \in Account : SlotStep(a) \/ TaskStep(a)
=============================================================================
