--------------------------- MODULE SessionBorrow ---------------------------
(***************************************************************************)
(* The interactive tools of the control bot, which open an account's       *)
(* session themselves (runtime/lease.py, two_step.py, account_explorer.py).*)
(*                                                                         *)
(* A tool run is one handler call.  Runs of open_account_client (LockedTool)*)
(* hold an asyncio lock per account; runs of use_account_client do not.    *)
(* Both take a lease first when the worker is another process, wait for    *)
(* its acknowledgement, and go on without it after 20 seconds.             *)
(***************************************************************************)
EXTENDS AccountTable

CONSTANTS Tool,          \* handler calls of the control bot
          LockedTool,    \* those that go through open_account_client
          Role,          \* RUNTIME_ROLE of the bot's process: "bot" or "all"
          NoAccount

ASSUME ToolAssumption == /\ LockedTool \subseteq Tool
                         /\ Role \in {"bot", "all"}
                         /\ NoAccount \notin Account

VARIABLES tool,   \* tool[t]: where the call is
          on      \* on[t]: the account it works on

borrowVars == <<tool, on>>

ToolState == {"idle", "waiting", "opening", "using", "sharing", "reporting"}

BorrowTypeOK == /\ tool \in [Tool -> ToolState]
                /\ on \in [Tool -> Account \cup {NoAccount}]

BorrowInit == /\ tool = [t \in Tool |-> "idle"]
              /\ on = [t \in Tool |-> NoAccount]

\* The tool has a connection of its own to the account.
ToolSession(t, a) == on[t] = a /\ tool[t] \in {"opening", "using"}

\* Mutant: open_account_client takes no lock.
LockedNever(a) == FALSE

\* _account_lock_for(account_id) is taken.
Locked(a) == \E t \in LockedTool : on[t] = a /\ tool[t] # "reporting"

Goes(t, state) == tool' = [tool EXCEPT ![t] = state]

Leaves(t) == /\ tool' = [tool EXCEPT ![t] = "idle"]
             /\ on' = [on EXCEPT ![t] = NoAccount]
-----------------------------------------------------------------------------
\* The call finds no running client in its own process (shared is that
\* client).  With RUNTIME_ROLE=bot it takes the lease and waits;
\* pause_remote_runtime does nothing for any other role.
Begin(t, a, shared) ==
    /\ tool[t] = "idle" /\ standing[a] # "deleted"
    /\ t \in LockedTool => ~Locked(a)
    /\ on' = [on EXCEPT ![t] = a]
    /\ \/ shared /\ Goes(t, "sharing") /\ UNCHANGED lease
       \/ ~shared /\ Role = "bot" /\ Goes(t, "waiting") /\ AcquireSessionLease(a)
       \/ ~shared /\ Role = "all" /\ Goes(t, "opening") /\ UNCHANGED lease
    /\ UNCHANGED accountVars

\* pause_remote_runtime returns, with the acknowledgement or without it.
PauseEnds(t) ==
    /\ tool[t] = "waiting"
    /\ LeaseIsAcked(on[t]) \/ "pause_timeout" \in May
    /\ Goes(t, "opening")
    /\ UNCHANGED <<on, lease, accountVars>>

\* The handler is cancelled while it waits, or its client factory raises:
\* both happen before the try block, so the lease stays until it expires.
Aborts(t) ==
    /\ "abort" \in May
    /\ tool[t] = "waiting"
    /\ Leaves(t)
    /\ UNCHANGED <<lease, accountVars>>

\* resume_remote_runtime, when a lease was taken.  The error is swallowed.
Resume(t) ==
    IF Role = "bot"
    THEN \/ ReleaseSessionLease(on[t])
         \/ "release_error" \in May /\ UNCHANGED lease
    ELSE UNCHANGED lease

\* _start_temp_client rotates the account's proxy as it fails, and writes the
\* one it got through with; use_account_client leaves the row alone.
TriesProxies(t) ==
    IF t \in LockedTool
    THEN \E p \in ({proxyId[on[t]]} \ {NoProxy})
                    \cup RandomProxyId(proxyId[on[t]]) :
             IF p = NoProxy THEN UNCHANGED proxyId ELSE SetProxy(on[t], p)
    ELSE UNCHANGED proxyId

\* The client is connected; open_account_client marks the session.
Opened(t) ==
    /\ tool[t] = "opening"
    /\ Goes(t, "using")
    /\ TriesProxies(t)
    /\ IF t \in LockedTool THEN MarkSession(on[t], "ok")
                           ELSE UNCHANGED sessionStatus
    /\ UNCHANGED <<on, lease, standing, session, isRunning>>

\* Telegram refuses the session: open_account_client marks it invalid.
OpenRefused(t) ==
    /\ tool[t] = "opening"
    /\ TriesProxies(t)
    /\ IF t \in LockedTool THEN MarkSession(on[t], "invalid")
                           ELSE UNCHANGED sessionStatus
    /\ Leaves(t) /\ Resume(t)
    /\ UNCHANGED <<standing, session, isRunning>>

\* No connection, on any attempt: the lease is released.
OpenFails(t) ==
    /\ tool[t] = "opening"
    /\ TriesProxies(t)
    /\ Leaves(t) /\ Resume(t)
    /\ UNCHANGED <<standing, sessionStatus, session, isRunning>>

\* A call of an explorer function reports on the session once it left the
\* block; every other call is over.
AfterBlock(t) == \/ Leaves(t)
                 \/ t \in LockedTool /\ Goes(t, "reporting") /\ UNCHANGED on

\* The work is done: the client is closed and the lease released.
Closes(t) ==
    /\ tool[t] = "using"
    /\ AfterBlock(t) /\ Resume(t)
    /\ UNCHANGED accountVars

\* The work on the shared client is over; it is not closed here.
StopsSharing(t) ==
    /\ tool[t] = "sharing"
    /\ AfterBlock(t)
    /\ UNCHANGED <<lease, accountVars>>

\* mark_session_ok or mark_session_invalid, after the client and the lease
\* are gone.
Reports(t) ==
    /\ tool[t] = "reporting"
    /\ \E value \in {"ok", "invalid"} : MarkSession(on[t], value)
    /\ Leaves(t)
    /\ UNCHANGED <<lease, standing, proxyId, session, isRunning>>

\* The control bot dies; the leases it took stay in the table.
BotCrash ==
    /\ "bot_crash" \in May
    /\ tool' = [t \in Tool |-> "idle"]
    /\ on' = [t \in Tool |-> NoAccount]
    /\ UNCHANGED <<lease, accountVars>>

ToolStep(t) == \/ PauseEnds(t) \/ Aborts(t) \/ Opened(t) \/ OpenRefused(t)
               \/ OpenFails(t) \/ Closes(t) \/ StopsSharing(t) \/ Reports(t)
=============================================================================
