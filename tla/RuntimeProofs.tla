--------------------------- MODULE RuntimeProofs ---------------------------
(***************************************************************************)
(* Theorems about Runtime, for any accounts, tools, proxies and bounds.    *)
(***************************************************************************)
EXTENDS Runtime, TLAPS

\* What the modules assume of the constants.
Assumptions == /\ May \subseteq Happening
               /\ NoProxy \notin Proxy
               /\ MaxSession \in Nat
               /\ MaxProxyRetries \in Nat \ {0}
               /\ LockedTool \subseteq Tool
               /\ Role \in {"bot", "all"}
               /\ NoAccount \notin Account

\* The named assumptions of the modules, together.
LEMMA AssumptionsHold == Assumptions
BY MayAssumption, ProxyAssumption, RetriesAssumption, ToolAssumption
   DEF Assumptions

-----------------------------------------------------------------------------
(***************************************************************************)
(* The steps of the system, one disjunct per table they may write.         *)
(***************************************************************************)
\* Every step leaves the lease table alone or performs one of its
\* transactions; only the worker acknowledges and only tools take or release.
LeaseMove == \/ UNCHANGED lease
             \/ PruneExpired
             \/ AckSessionLeases(leased)
             \/ \E a \in Account : \/ AcquireSessionLease(a)
                                   \/ ReleaseSessionLease(a)
                                   \/ LeaseExpires(a)

\* A transaction of the lease table leaves well-formed rows.
LEMMA LeaseMoveTyped == LeaseTypeOK /\ LeaseMove => LeaseTypeOK'
<1> SUFFICES ASSUME LeaseTypeOK, LeaseMove PROVE LeaseTypeOK'
    OBVIOUS
<1> USE DEF LeaseTypeOK, LeaseRow, NoLease
<1>1. CASE UNCHANGED lease
    BY <1>1
<1>2. CASE PruneExpired
    BY <1>2 DEF PruneExpired
<1>3. CASE AckSessionLeases(leased)
    <2>1. ASSUME NEW a \in Account
          PROVE  (IF a \in leased /\ lease[a].row # "none"
                  THEN [lease[a] EXCEPT !.acked = TRUE]
                  ELSE lease[a]) \in LeaseRow
        OBVIOUS
    <2>2. QED
        BY <1>3, <2>1 DEF AckSessionLeases
<1>4. ASSUME NEW a \in Account, AcquireSessionLease(a) PROVE LeaseTypeOK'
    BY <1>4 DEF AcquireSessionLease
<1>5. ASSUME NEW a \in Account, ReleaseSessionLease(a) PROVE LeaseTypeOK'
    BY <1>5 DEF ReleaseSessionLease
<1>6. ASSUME NEW a \in Account, LeaseExpires(a) PROVE LeaseTypeOK'
    BY <1>6 DEF LeaseExpires
<1>7. QED
    BY <1>1, <1>2, <1>3, <1>4, <1>5, <1>6 DEF LeaseMove

-----------------------------------------------------------------------------
(***************************************************************************)
(* Type correctness.                                                       *)
(***************************************************************************)
\* _random_proxy_id returns a proxy or NULL.
LEMMA RandomProxyType ==
    ASSUME NEW p PROVE RandomProxyId(p) \subseteq Proxy \cup {NoProxy}
BY DEF RandomProxyId

\* An account's details have the type the slot remembers them with.
LEMMA RowTypes ==
    ASSUME AccountTypeOK
    PROVE  NoRow \in Row /\ \A a \in Account : Fingerprint(a) \in Row
BY AssumptionsHold DEF Assumptions, NoRow, Row, Fingerprint, AccountTypeOK

\* The writes of one column keep the types of the account table.
LEMMA ColumnTypes ==
    ASSUME AccountTypeOK, NEW a \in Account
    PROVE  /\ \A v \in {"ok", "invalid"} : MarkSession(a, v) \/ Mark(a, v)
                => sessionStatus' \in [Account -> {"ok", "invalid"}]
           /\ \A p \in Proxy \cup {NoProxy} : SetProxy(a, p)
                => proxyId' \in [Account -> Proxy \cup {NoProxy}]
           /\ \A v \in BOOLEAN : SetAccountRunning(a, v)
                => isRunning' \in [Account -> BOOLEAN]
BY DEF AccountTypeOK, MarkSession, Mark, SetProxy, SetAccountRunning

\* The bot's edits keep the types of the account table.
LEMMA AccountEditTyped ==
    ASSUME AccountTypeOK, NEW a \in Account, AccountEdit(a)
    PROVE  AccountTypeOK'
<1> USE AssumptionsHold DEF Assumptions, AccountTypeOK
<1>1. CASE SwitchAccount(a)
    BY <1>1 DEF SwitchAccount
<1>2. CASE ReassignProxy(a)
    BY <1>2, RandomProxyType DEF ReassignProxy
<1>3. CASE DeleteManagedAccount(a)
    BY <1>3 DEF DeleteManagedAccount
<1>4. CASE AddManagedAccount(a)
    BY <1>4, RandomProxyType DEF AddManagedAccount
<1>5. QED
    BY <1>1, <1>2, <1>3, <1>4 DEF AccountEdit

\* The main task's own steps keep the types of the worker; they write no
\* column of the account table.
LEMMA MainTyped ==
    ASSUME TypeOK, MainStep
    PROVE  LeaseMove /\ UNCHANGED accountVars /\ SupervisorTypeOK'
<1> USE RowTypes
        DEF TypeOK, SupervisorTypeOK, Phase, TaskState, Reason, LeaseMove,
            slotVars, mainVars
<1>1. CASE BeginReconcile
    BY <1>1 DEF BeginReconcile, ActiveLeaseIds
<1>2. CASE AckAndPlan
    BY <1>2 DEF AckAndPlan, Acknowledged, ShouldRun, Unwanted, Slots
<1>3. CASE BeginApply
    BY <1>3 DEF BeginApply
<1>4. CASE EndReconcile
    BY <1>4 DEF EndReconcile
<1>5. CASE RequestStop
    BY <1>5 DEF RequestStop
<1>6. CASE BeginStopAll
    BY <1>6 DEF BeginStopAll, Slots
<1>7. CASE WorkerExits \/ WorkerCrash
    <2>1. ProcessGone
        BY <1>7 DEF WorkerExits, WorkerCrash
    <2>2. UNCHANGED lease /\ UNCHANGED accountVars
        BY <2>1 DEF ProcessGone
    <2>3. 0 \in 0 .. MaxProxyRetries
        BY AssumptionsHold DEF Assumptions
    <2>4. SupervisorTypeOK'
        BY <2>1, <2>3 DEF ProcessGone
    <2>5. QED
        BY <2>2, <2>4
<1>8. CASE WorkerStarts
    BY <1>8 DEF WorkerStarts
<1>9. QED
    BY <1>1, <1>2, <1>3, <1>4, <1>5, <1>6, <1>7, <1>8 DEF MainStep

\* The steps on one slot keep the types of the worker and write no table.
LEMMA SlotTyped ==
    ASSUME TypeOK, NEW a \in Account, SlotStep(a)
    PROVE  UNCHANGED <<lease, accountVars>> /\ SupervisorTypeOK'
<1> USE RowTypes
        DEF TypeOK, SupervisorTypeOK, Phase, TaskState, Reason,
            slotVars, mainVars
<1>1. CASE StopSlot(a)
    BY <1>1 DEF StopSlot
<1>2. CASE SlotStopped(a)
    BY <1>2 DEF SlotStopped
<1>3. CASE StopTimesOut(a)
    <2>1. 0 \in 0 .. MaxProxyRetries
        BY AssumptionsHold DEF Assumptions
    <2>2. leaked' \in [Account -> BOOLEAN]
        BY <1>3 DEF StopTimesOut
    <2>3. QED
        BY <1>3, <2>1, <2>2 DEF StopTimesOut
<1>4. CASE StartSlot(a)
    BY <1>4 DEF StartSlot
<1>5. CASE RestartSlot(a)
    BY <1>5 DEF RestartSlot
<1>6. CASE KeepSlot(a)
    BY <1>6 DEF KeepSlot
<1>7. QED
    BY <1>1, <1>2, <1>3, <1>4, <1>5, <1>6 DEF SlotStep

\* The steps of an account's task keep the types of the worker and of the
\* columns it writes.
LEMMA TaskTyped ==
    ASSUME TypeOK, NEW a \in Account, TaskStep(a)
    PROVE  LeaseMove /\ AccountTypeOK' /\ SupervisorTypeOK'
<1> USE RandomProxyType, ColumnTypes, AssumptionsHold
        DEF TypeOK, AccountTypeOK, SupervisorTypeOK, TaskState, Reason,
            LeaseMove, slotVars, mainVars, accountVars, Ends, Retries,
            Assumptions
<1>1. CASE TaskStops(a)
    BY <1>1 DEF TaskStops
<1>2. CASE BeginConnect(a)
    <2>1. made[a][1] \in Proxy \cup {NoProxy}
        BY DEF Row
    <2>2. QED
        BY <1>2, <2>1 DEF BeginConnect
<1>3. CASE RotateAndRetry(a)
    BY <1>3 DEF RotateAndRetry, MoreAttempts
<1>4. CASE ConnectFails(a)
    BY <1>4 DEF ConnectFails
<1>5. CASE ConnectRefused(a)
    <2>1. AccountTypeOK'
        BY <1>5 DEF ConnectRefused
    <2>2. QED
        BY <1>5, <2>1 DEF ConnectRefused
<1>6. CASE Connected(a)
    <2>1. proxyId' \in [Account -> Proxy \cup {NoProxy}]
        BY <1>6 DEF Connected
    <2>2. sessionStatus' \in [Account -> {"ok", "invalid"}]
        BY <1>6 DEF Connected
    <2>3. isRunning' \in [Account -> BOOLEAN]
        BY <1>6 DEF Connected
    <2>4. AccountTypeOK' /\ UNCHANGED lease
        BY <1>6, <2>1, <2>2, <2>3 DEF Connected
    <2>5. task' \in [Account -> TaskState]
        <3>1. \/ task' = [task EXCEPT ![a] = "discard"]
              \/ task' = [task EXCEPT ![a] = "up"]
            BY <1>6 DEF Connected
        <3>2. QED
            BY <3>1
    <2>6. SupervisorTypeOK'
        <3>1. UNCHANGED <<mainVars, stopEvent, made, why, leaked>>
            BY <1>6 DEF Connected
        <3>2. /\ via' \in [Account -> Proxy \cup {NoProxy}]
              /\ attempt' \in [Account -> 0 .. MaxProxyRetries]
            BY <1>6 DEF Connected
        <3>3. QED
            BY <2>5, <3>1, <3>2
    <2>7. QED
        BY <2>4, <2>6
<1>7. CASE Discarded(a)
    BY <1>7 DEF Discarded
<1>8. CASE ServeStopped(a) \/ ServeDropped(a) \/ ServeRefused(a)
    BY <1>8 DEF ServeStopped, ServeDropped, ServeRefused, StopsServing
<1>9. CASE Closed(a)
    <2>1. sessionStatus' \in [Account -> {"ok", "invalid"}]
        BY <1>9 DEF Closed
    <2>2. AccountTypeOK' /\ UNCHANGED lease
        BY <1>9, <2>1 DEF Closed
    <2>3. SupervisorTypeOK'
        BY <1>9 DEF Closed
    <2>4. QED
        BY <2>2, <2>3
<1>10. QED
    BY <1>1, <1>2, <1>3, <1>4, <1>5, <1>6, <1>7, <1>8, <1>9 DEF TaskStep

\* A tool that is at work has an account: Begin sets both, Leaves clears both.
BusyToolHasAccount == \A t \in Tool : tool[t] # "idle" => on[t] \in Account

TypeInv == TypeOK /\ BusyToolHasAccount

\* resume_remote_runtime deletes the tool's lease row or does nothing.
LEMMA ResumeMove ==
    ASSUME NEW t \in Tool, on[t] \in Account, Resume(t)
    PROVE  LeaseMove
BY DEF Resume, LeaseMove

\* The proxies a temporary client tries keep the type of the column.
LEMMA TriesProxiesTyped ==
    ASSUME AccountTypeOK, NEW t \in Tool, on[t] \in Account, TriesProxies(t)
    PROVE  proxyId' \in [Account -> Proxy \cup {NoProxy}]
<1>1. ({proxyId[on[t]]} \ {NoProxy}) \cup RandomProxyId(proxyId[on[t]])
          \subseteq Proxy \cup {NoProxy}
    BY RandomProxyType DEF AccountTypeOK
<1>2. QED
    BY <1>1, ColumnTypes DEF TriesProxies, AccountTypeOK

\* The steps of a running tool keep the types of what they write: the
\* leases, the account rows and the tool's own state.
LEMMA ToolTyped ==
    ASSUME TypeInv, NEW t \in Tool, ToolStep(t)
    PROVE  LeaseMove /\ AccountTypeOK' /\ BorrowTypeOK' /\ BusyToolHasAccount'
<1> USE AssumptionsHold, ResumeMove, TriesProxiesTyped, ColumnTypes
        DEF TypeInv, TypeOK, BorrowTypeOK, BusyToolHasAccount, ToolState, Goes,
            Leaves, AfterBlock, AccountTypeOK, accountVars, Assumptions
<1>1. CASE PauseEnds(t)
    BY <1>1 DEF PauseEnds, LeaseMove
<1>2. CASE Aborts(t)
    BY <1>2 DEF Aborts, LeaseMove
<1>3. CASE Opened(t)
    <2>1. /\ UNCHANGED <<on, lease, standing, session, isRunning>>
          /\ tool' = [tool EXCEPT ![t] = "using"]
        BY <1>3 DEF Opened
    <2>2. AccountTypeOK'
        BY <1>3 DEF Opened
    <2>3. QED
        BY <1>3, <2>1, <2>2 DEF Opened, LeaseMove
<1>4. CASE OpenRefused(t)
    <2>1. AccountTypeOK'
        BY <1>4 DEF OpenRefused
    <2>2. QED
        BY <1>4, <2>1 DEF OpenRefused
<1>5. CASE OpenFails(t)
    <2>1. AccountTypeOK'
        BY <1>5 DEF OpenFails
    <2>2. QED
        BY <1>5, <2>1 DEF OpenFails
<1>6. CASE Closes(t)
    BY <1>6 DEF Closes
<1>7. CASE StopsSharing(t)
    BY <1>7 DEF StopsSharing, LeaseMove
<1>8. CASE Reports(t)
    BY <1>8 DEF Reports, LeaseMove
<1>9. QED
    BY <1>1, <1>2, <1>3, <1>4, <1>5, <1>6, <1>7, <1>8 DEF ToolStep

\* So does the start of a tool.
LEMMA BeginTyped ==
    ASSUME TypeInv, NEW t \in Tool, NEW a \in Account,
           Begin(t, a, RunningHere(a))
    PROVE  /\ LeaseMove /\ UNCHANGED accountVars
           /\ BorrowTypeOK' /\ BusyToolHasAccount'
BY DEF TypeInv, TypeOK, BorrowTypeOK, BusyToolHasAccount, ToolState, Begin,
       Goes, LeaseMove

\* A process that dies leaves no tool at work.
LEMMA IdleTyped ==
    ASSUME tool' = [t \in Tool |-> "idle"], on' = [t \in Tool |-> NoAccount]
    PROVE  BorrowTypeOK' /\ BusyToolHasAccount'
BY DEF BorrowTypeOK, BusyToolHasAccount, ToolState

\* The initial state has the types.
LEMMA InitTyped == Init => TypeInv
<1> SUFFICES ASSUME Init PROVE TypeInv
    OBVIOUS
<1>1. 0 \in 0 .. MaxSession /\ 0 \in 0 .. MaxProxyRetries
    BY AssumptionsHold DEF Assumptions
<1>2. LeaseTypeOK
    BY DEF Init, LeaseInit, LeaseTypeOK, LeaseRow, NoLease
<1>3. AccountTypeOK
    BY <1>1 DEF Init, AccountInit, AccountTypeOK
<1>4. SupervisorTypeOK
    BY <1>1, <1>3, RowTypes
       DEF Init, SupervisorInit, SupervisorTypeOK, Phase, TaskState, Reason
<1>5. BorrowTypeOK /\ BusyToolHasAccount
    BY DEF Init, BorrowInit, BorrowTypeOK, BusyToolHasAccount, ToolState
<1>6. QED
    BY <1>2, <1>3, <1>4, <1>5 DEF TypeInv, TypeOK

\* Every step keeps the types.
LEMMA NextTyped == TypeInv /\ [Next]_vars => TypeInv'
<1> SUFFICES ASSUME TypeInv, [Next]_vars PROVE TypeInv'
    OBVIOUS
<1> USE LeaseMoveTyped DEF TypeInv, TypeOK
<1>1. CASE UNCHANGED vars
    BY <1>1 DEF vars, accountVars, workerVars, slotVars, mainVars, borrowVars,
                LeaseTypeOK, AccountTypeOK, SupervisorTypeOK, BorrowTypeOK,
                BusyToolHasAccount
<1>2. CASE WorkerAlone
    <2>1. LeaseMove /\ AccountTypeOK' /\ SupervisorTypeOK'
        <3>1. CASE MainStep
            BY <3>1, MainTyped DEF accountVars, AccountTypeOK
        <3>2. ASSUME NEW a \in Account, SlotStep(a)
              PROVE  LeaseMove /\ AccountTypeOK' /\ SupervisorTypeOK'
            BY <3>2, SlotTyped DEF accountVars, AccountTypeOK, LeaseMove
        <3>3. ASSUME NEW a \in Account, TaskStep(a)
              PROVE  LeaseMove /\ AccountTypeOK' /\ SupervisorTypeOK'
            BY <3>3, TaskTyped
        <3>4. QED
            BY <1>2, <3>1, <3>2, <3>3 DEF WorkerAlone, WorkerStep
    <2>2. BorrowTypeOK' /\ BusyToolHasAccount'
        <3>1. CASE UNCHANGED borrowVars
            BY <3>1 DEF borrowVars, BorrowTypeOK, BusyToolHasAccount
        <3>2. QED
            BY <1>2, <3>1, IdleTyped DEF WorkerAlone
    <2>3. QED
        BY <2>1, <2>2
<1>3. CASE BotAlone
    <2>1. SupervisorTypeOK'
        BY <1>3 DEF BotAlone, workerVars, mainVars, slotVars, SupervisorTypeOK
    <2>2. LeaseMove /\ AccountTypeOK' /\ BorrowTypeOK' /\ BusyToolHasAccount'
        <3>1. ASSUME NEW t \in Tool, ToolStep(t)
              PROVE  /\ LeaseMove /\ AccountTypeOK'
                     /\ BorrowTypeOK' /\ BusyToolHasAccount'
            BY <3>1, ToolTyped
        <3>2. ASSUME NEW t \in Tool, NEW a \in Account,
                     Begin(t, a, RunningHere(a))
              PROVE  /\ LeaseMove /\ AccountTypeOK'
                     /\ BorrowTypeOK' /\ BusyToolHasAccount'
            BY <3>2, BeginTyped DEF accountVars, AccountTypeOK
        <3>3. CASE BotCrash
            BY <3>3, IdleTyped
               DEF BotCrash, LeaseMove, accountVars, AccountTypeOK
        <3>4. ASSUME NEW a \in Account, AccountEdit(a),
                     UNCHANGED <<lease, borrowVars>>
              PROVE  /\ LeaseMove /\ AccountTypeOK'
                     /\ BorrowTypeOK' /\ BusyToolHasAccount'
            BY <3>4, AccountEditTyped
               DEF LeaseMove, borrowVars, BorrowTypeOK, BusyToolHasAccount
        <3>5. QED
            BY <1>3, <3>1, <3>2, <3>3, <3>4 DEF BotAlone
    <2>3. QED
        BY <2>1, <2>2
<1>4. CASE TimePasses
    BY <1>4 DEF TimePasses, LeaseMove, accountVars, workerVars, mainVars,
                slotVars, borrowVars, AccountTypeOK, SupervisorTypeOK,
                BorrowTypeOK, BusyToolHasAccount
<1>5. QED
    BY <1>1, <1>2, <1>3, <1>4 DEF Next

\* Every reachable state is well typed, and a tool at work has an account.
THEOREM TypesHold == Spec => []TypeInv
BY InitTyped, NextTyped, PTL DEF Spec

\* The type invariant the runs check, for all values of the constants.
THEOREM TypeCorrect == Spec => []TypeOK
BY TypesHold, PTL DEF TypeInv
=============================================================================
