-------------------------- MODULE ExclusiveProofs --------------------------
(***************************************************************************)
(* The bot's side: a tool opens a session under an acknowledged lease, so  *)
(* no account has two sessions, and worker and tools together implement    *)
(* ExclusiveSession.                                                       *)
(***************************************************************************)
EXTENDS LeaseProofs

\* The lock of two_step.py admits one tool to an account.
OneToolPerAccount ==
    \A t, u \in Tool :
        /\ on[t] = on[u] /\ on[t] \in Account
        /\ tool[t] # "reporting" /\ tool[u] # "reporting"
        => t = u

ToolInv == /\ ToolHoldsAckedLease
           /\ OneToolPerAccount
           /\ \A t \in Tool : tool[t] # "sharing"
           /\ \A t \in Tool : tool[t] = "idle" => on[t] = NoAccount

\* The bot is a process of its own, every tool takes the lock, and neither
\* the 20-second wait nor the lease's lifetime runs out.
Orderly == /\ Tool = LockedTool /\ Role = "bot"
           /\ {"pause_timeout", "lease_expiry"} \cap May = {}

\* The start of a tool takes an account no other tool is working on.
LEMMA BeginKeepsToolInv ==
    ASSUME Orderly, TypeInv, ToolInv, NEW t \in Tool, NEW a \in Account,
           Begin(t, a, RunningHere(a))
    PROVE  ToolInv'
<1> USE AssumptionsHold
        DEF Orderly, TypeInv, TypeOK, BorrowTypeOK, LeaseTypeOK, LeaseRow,
            BusyToolHasAccount, Assumptions
<1>1. /\ on' = [on EXCEPT ![t] = a] /\ tool' = [tool EXCEPT ![t] = "waiting"]
      /\ lease' = [lease EXCEPT ![a] = [row |-> "live", acked |-> FALSE]]
      /\ ~Locked(a) /\ tool[t] = "idle"
    BY DEF Begin, RunningHere, Goes, AcquireSessionLease
<1>2. \A u \in Tool : on[u] = a => tool[u] = "reporting"
    BY <1>1 DEF Locked
<1>3. ToolHoldsAckedLease'
    BY <1>1, <1>2
       DEF ToolInv, ToolHoldsAckedLease, ToolSession, LeaseIsAcked
<1>4. OneToolPerAccount'
    BY <1>1, <1>2 DEF ToolInv, OneToolPerAccount
<1>5. QED
    BY <1>1, <1>3, <1>4 DEF ToolInv

\* A running tool opens a session only once its lease is acknowledged, and
\* gives the lease up only with the session.
LEMMA ToolKeepsToolInv ==
    ASSUME Orderly, TypeInv, ToolInv, NEW t \in Tool, ToolStep(t)
    PROVE  ToolInv'
<1> USE AssumptionsHold
        DEF Orderly, TypeInv, TypeOK, BorrowTypeOK, LeaseTypeOK, LeaseRow,
            BusyToolHasAccount, ToolInv, ToolHoldsAckedLease, ToolSession,
            OneToolPerAccount, LeaseIsAcked, NoLease, Goes, Leaves
<1>1. CASE PauseEnds(t)
    BY <1>1 DEF PauseEnds
<1>2. CASE Aborts(t)
    BY <1>2 DEF Aborts, Assumptions
<1>3. CASE Opened(t)
    BY <1>3 DEF Opened
<1>4. CASE OpenRefused(t) \/ OpenFails(t)
    BY <1>4 DEF OpenRefused, OpenFails, Resume, ReleaseSessionLease, Assumptions
<1>5. CASE Closes(t)
    BY <1>5 DEF Closes, AfterBlock, Resume, ReleaseSessionLease, Assumptions
<1>6. CASE StopsSharing(t)
    BY <1>6 DEF StopsSharing
<1>7. CASE Reports(t)
    BY <1>7 DEF Reports, Assumptions
<1>8. QED
    BY <1>1, <1>2, <1>3, <1>4, <1>5, <1>6, <1>7 DEF ToolStep

\* Every step of the system keeps the tools orderly.
LEMMA NextKeepsToolInv ==
    ASSUME Orderly, TypeInv, ToolInv, [Next]_vars
    PROVE  ToolInv'
<1> USE DEF ToolInv, ToolHoldsAckedLease, ToolSession, OneToolPerAccount
<1>1. ASSUME UNCHANGED borrowVars,
             \A a \in Account : LeaseIsAcked(a) => LeaseIsAcked(a)'
      PROVE  ToolInv'
    BY <1>1 DEF borrowVars
<1>2. CASE UNCHANGED vars
    BY <1>1, <1>2 DEF vars, LeaseIsAcked
<1>3. CASE WorkerAlone
    <2>1. UNCHANGED borrowVars
        BY <1>3 DEF WorkerAlone, Orderly
    <2>2. UNCHANGED lease \/ PruneExpired \/ AckSessionLeases(leased)
        <3>1. CASE MainStep
            BY <3>1 DEF MainStep, BeginReconcile, AckAndPlan, BeginApply,
                        EndReconcile, RequestStop, BeginStopAll, WorkerExits,
                        WorkerCrash, ProcessGone, WorkerStarts, Acknowledged
        <3>2. ASSUME NEW a \in Account, SlotStep(a) PROVE UNCHANGED lease
            BY <3>2, SlotTyped DEF TypeInv
        <3>3. ASSUME NEW a \in Account, TaskStep(a)
              PROVE  UNCHANGED lease \/ PruneExpired
            BY <3>3, TaskKeepsSlots
        <3>4. QED
            BY <1>3, <3>1, <3>2, <3>3 DEF WorkerAlone, WorkerStep
    <2>3. \A a \in Account : LeaseIsAcked(a) => LeaseIsAcked(a)'
        BY <2>2 DEF TypeInv, TypeOK, LeaseTypeOK, LeaseRow, LeaseIsAcked,
                    PruneExpired, AckSessionLeases
    <2>4. QED
        BY <1>1, <2>1, <2>3
<1>4. CASE BotAlone
    <2>1. CASE BotCrash
        BY <2>1, AssumptionsHold DEF BotCrash, Assumptions
    <2>2. ASSUME UNCHANGED <<lease, borrowVars>> PROVE ToolInv'
        BY <1>1, <2>2 DEF LeaseIsAcked
    <2>3. QED
        BY <1>4, <2>1, <2>2, BeginKeepsToolInv, ToolKeepsToolInv DEF BotAlone
<1>5. ~TimePasses
    BY DEF TimePasses, LeaseExpires, Orderly
<1>6. QED
    BY <1>2, <1>3, <1>4, <1>5 DEF Next

\* At first no tool is at work.
LEMMA InitToolInv == Init => ToolInv
BY AssumptionsHold
   DEF Init, BorrowInit, ToolInv, ToolHoldsAckedLease, ToolSession,
       OneToolPerAccount, Assumptions

\* A tool's session stands under a lease the worker has acknowledged.
THEOREM SessionNeedsLease ==
    ASSUME Orderly PROVE Spec => []ToolHoldsAckedLease
<1>1. TypeInv /\ ToolInv /\ [Next]_vars => ToolInv'
    BY NextKeepsToolInv
<1>2. Spec => []ToolInv
    BY <1>1, TypesHold, InitToolInv, PTL DEF Spec
<1>3. ToolInv => ToolHoldsAckedLease
    BY DEF ToolInv
<1>4. QED
    BY <1>2, <1>3, PTL

\* A worker and a tool never have a session of the same account each.
THEOREM NeverTwoSessions ==
    ASSUME Orderly, LeasesReadable PROVE Spec => []NotTwoSessions
<1>1. ToolHoldsAckedLease /\ AckedMeansStopped => NotTwoSessions
    BY DEF ToolHoldsAckedLease, AckedMeansStopped, NotTwoSessions,
           WorkerSession
<1>2. QED
    BY <1>1, SessionNeedsLease, AckedLeaseIsRespected, PTL

-----------------------------------------------------------------------------
(***************************************************************************)
(* The refinement.                                                         *)
(***************************************************************************)
NothingLeaks == \A a \in Account : ~leaked[a]

NoCutShort == "stop_timeout" \notin May

ExclusiveInv == TypeInv /\ LeaseInv /\ ToolInv /\ NothingLeaks

\* Only a stop that is cut short leaks a client.
LEMMA NextKeepsNothingLeaks ==
    ASSUME NoCutShort, TypeInv, NothingLeaks, [Next]_vars
    PROVE  NothingLeaks'
<1> USE DEF NothingLeaks
<1>1. CASE MainStep
    BY <1>1 DEF MainStep, BeginReconcile, AckAndPlan, BeginApply, EndReconcile,
                RequestStop, BeginStopAll, WorkerExits, WorkerCrash,
                ProcessGone, WorkerStarts, slotVars
<1>2. ASSUME NEW a \in Account, SlotStep(a) PROVE NothingLeaks'
    BY <1>2 DEF SlotStep, StopSlot, SlotStopped, StopTimesOut, StartSlot,
                RestartSlot, KeepSlot, NoCutShort, slotVars
<1>3. ASSUME NEW a \in Account, TaskStep(a) PROVE UNCHANGED leaked
    BY <1>3 DEF TaskStep, TaskStops, BeginConnect, RotateAndRetry, ConnectFails,
                ConnectRefused, Connected, Discarded, ServeStopped,
                ServeDropped, ServeRefused, StopsServing, Closed
<1>4. CASE BotAlone \/ TimePasses \/ UNCHANGED vars
    BY <1>4 DEF BotAlone, TimePasses, vars, workerVars, slotVars
<1>5. QED
    BY <1>1, <1>2, <1>3, <1>4 DEF Next, WorkerAlone, WorkerStep

\* Who has a session of an account, once nothing leaks: the worker, or the
\* tools, and never both.
LEMMA HoldersAre ==
    ASSUME ExclusiveInv, NEW a \in Account
    PROVE  /\ WorkerSession(a) => Holders[a] = {"worker"}
           /\ ~WorkerSession(a) => Holders[a] = {t \in Tool : ToolSession(t, a)}
           /\ \A t \in Tool : ToolSession(t, a) => Holders[a] = {t}
<1> USE DEF ExclusiveInv, NothingLeaks, Holders
<1>1. ASSUME WorkerSession(a), NEW t \in Tool PROVE ~ToolSession(t, a)
    BY <1>1 DEF LeaseInv, ToolInv, ToolHoldsAckedLease, AckedMeansStopped,
                WorkerSession
<1>2. ASSUME NEW t \in Tool, ToolSession(t, a), NEW u \in Tool,
             ToolSession(u, a)
      PROVE  t = u
    BY <1>2 DEF ToolInv, OneToolPerAccount, ToolSession
<1>3. QED
    BY <1>1, <1>2

\* A step that changes nobody's session stutters.
LEMMA NoSessionChanges ==
    ASSUME UNCHANGED leaked,
           \A a \in Account : WorkerSession(a)' <=> WorkerSession(a),
           \A t \in Tool, a \in Account :
               ToolSession(t, a)' <=> ToolSession(t, a)
    PROVE  UNCHANGED Holders
BY DEF Holders

\* A step that changes the sessions of one account opens the only one or
\* closes the only one.
LEMMA OneAccountChanges ==
    ASSUME ExclusiveInv, ExclusiveInv', NEW a \in Account,
           \A b \in Account \ {a} : Holders'[b] = Holders[b],
           \/ Holders'[a] = {}
           \/ Holders[a] = {} /\ \E p \in Party : Holders'[a] = {p}
    PROVE  Exclusive!Next \/ UNCHANGED Holders
<1>1. /\ Holders = [b \in Account |-> Holders[b]]
      /\ Holders' = [b \in Account |-> Holders'[b]]
    BY DEF Holders
<1>2. CASE Holders'[a] = {} /\ Holders[a] = {}
    BY <1>1, <1>2
<1>3. CASE Holders'[a] = {} /\ Holders[a] # {}
    BY <1>1, <1>3 DEF Exclusive!Next, Exclusive!Close
<1>4. ASSUME Holders[a] = {}, NEW p \in Party, Holders'[a] = {p}
      PROVE  Exclusive!Next
    BY <1>1, <1>4 DEF Exclusive!Next, Exclusive!Open
<1>5. QED
    BY <1>2, <1>3, <1>4

\* A process that dies closes every session it had.
LEMMA ProcessDies ==
    ASSUME NEW S \in SUBSET Account,
           \A a \in Account : Holders'[a] = IF a \in S THEN {} ELSE Holders[a]
    PROVE  Exclusive!Next \/ UNCHANGED Holders
<1>1. /\ Holders = [b \in Account |-> Holders[b]]
      /\ Holders' = [b \in Account |-> Holders'[b]]
    BY DEF Holders
<1>2. CASE S = {}
    BY <1>1, <1>2
<1>3. CASE S # {}
    BY <1>1, <1>3 DEF Exclusive!Next, Exclusive!CloseAll
<1>4. QED
    BY <1>2, <1>3

\* The worker's steps: a connect opens a session, the end of a task closes it.
LEMMA WorkerRefines ==
    ASSUME Orderly, ExclusiveInv, ExclusiveInv', WorkerAlone
    PROVE  Exclusive!Next \/ UNCHANGED Holders
<1>1. UNCHANGED borrowVars
    BY DEF WorkerAlone, Orderly
<1>2. \A t \in Tool, a \in Account : ToolSession(t, a)' <=> ToolSession(t, a)
    BY <1>1 DEF borrowVars, ToolSession
<1>3. UNCHANGED leaked
    <2>1. \A a \in Account : leaked[a] = FALSE /\ leaked'[a] = FALSE
        BY DEF ExclusiveInv, NothingLeaks, TypeInv, TypeOK, SupervisorTypeOK
    <2>2. QED
        BY <2>1 DEF ExclusiveInv, TypeInv, TypeOK, SupervisorTypeOK
<1>4. CASE ProcessGone
    <2> DEFINE S == {a \in Account : WorkerSession(a)}
    <2>1. ASSUME NEW a \in Account
          PROVE  Holders'[a] = IF a \in S THEN {} ELSE Holders[a]
        <3>1. ~WorkerSession(a)'
            BY <1>4 DEF ProcessGone, WorkerSession
        <3>2. Holders'[a] = {t \in Tool : ToolSession(t, a)}
            BY <1>2, <3>1, HoldersAre DEF ExclusiveInv, NothingLeaks, Holders
        <3>3. WorkerSession(a) => {t \in Tool : ToolSession(t, a)} = {}
            BY DEF ExclusiveInv, LeaseInv, ToolInv, ToolHoldsAckedLease,
                   AckedMeansStopped, WorkerSession
        <3>4. QED
            BY <3>2, <3>3, HoldersAre
    <2>2. QED
        BY <2>1, ProcessDies
<1>5. CASE MainStep /\ ~ProcessGone
    <2>1. UNCHANGED task
        BY <1>5 DEF MainStep, BeginReconcile, AckAndPlan, BeginApply,
                    EndReconcile, RequestStop, BeginStopAll, WorkerExits,
                    WorkerCrash, WorkerStarts, slotVars
    <2>2. QED
        BY <1>2, <1>3, <2>1, NoSessionChanges DEF WorkerSession
<1>6. ASSUME NEW a \in Account, SlotStep(a) \/ TaskStep(a)
      PROVE  Exclusive!Next \/ UNCHANGED Holders
    <2>1. \A b \in Account \ {a} : task'[b] = task[b]
        <3>1. CASE SlotStep(a)
            BY <3>1 DEF ExclusiveInv, TypeInv, TypeOK, SupervisorTypeOK,
               SlotStep, StopSlot, SlotStopped, StopTimesOut, StartSlot,
               RestartSlot, KeepSlot, slotVars
        <3>2. CASE TaskStep(a)
            BY <3>2, TaskKeepsSlots DEF ExclusiveInv
        <3>3. QED
            BY <1>6, <3>1, <3>2
    <2>2. \A b \in Account \ {a} : Holders'[b] = Holders[b]
        BY <1>2, <1>3, <2>1 DEF Holders, WorkerSession
    <2>3. CASE WorkerSession(a)' <=> WorkerSession(a)
        BY <1>2, <1>3, <2>1, <2>3, NoSessionChanges DEF WorkerSession
    <2>4. CASE WorkerSession(a) /\ ~WorkerSession(a)'
        <3>1. {t \in Tool : ToolSession(t, a)} = {}
            BY <2>4 DEF ExclusiveInv, LeaseInv, ToolInv, ToolHoldsAckedLease,
                        AckedMeansStopped, WorkerSession
        <3>2. Holders'[a] = {}
            BY <1>2, <2>4, <3>1 DEF ExclusiveInv, NothingLeaks, Holders
        <3>3. QED
            BY <2>2, <3>2, OneAccountChanges
    <2>5. CASE ~WorkerSession(a) /\ WorkerSession(a)'
        <3>1. {t \in Tool : ToolSession(t, a)} = {}
            BY <1>2, <2>5
               DEF ExclusiveInv, LeaseInv, ToolInv, ToolHoldsAckedLease,
                   AckedMeansStopped, WorkerSession
        <3>2. Holders[a] = {}
            BY <2>5, <3>1, HoldersAre
        <3>3. Holders'[a] = {"worker"}
            BY <1>2, <2>5, <3>1 DEF ExclusiveInv, NothingLeaks, Holders
        <3>4. QED
            BY <2>2, <3>2, <3>3, OneAccountChanges DEF Party
    <2>6. QED
        BY <2>3, <2>4, <2>5
<1>7. QED
    BY <1>4, <1>5, <1>6 DEF WorkerAlone, WorkerStep

\* The tools' steps: the acknowledgement opens a session, leaving closes it.
LEMMA ToolRefines ==
    ASSUME Orderly, LeasesReadable, ExclusiveInv, ExclusiveInv',
           NEW t \in Tool, ToolStep(t), UNCHANGED workerVars
    PROVE  Exclusive!Next \/ UNCHANGED Holders
<1> USE DEF ExclusiveInv, TypeInv, TypeOK, BorrowTypeOK, BusyToolHasAccount
<1>1. /\ UNCHANGED leaked
      /\ \A a \in Account : WorkerSession(a)' <=> WorkerSession(a)
    BY DEF workerVars, slotVars, WorkerSession
<1>2. \A u \in Tool \ {t}, a \in Account :
          ToolSession(u, a)' <=> ToolSession(u, a)
    BY DEF ToolStep, PauseEnds, Aborts, Opened, OpenRefused, OpenFails, Closes,
           StopsSharing, Reports, Goes, Leaves, AfterBlock, ToolSession
<1>3. CASE PauseEnds(t)
    <2> DEFINE a == on[t]
    <2>1. /\ a \in Account /\ LeaseIsAcked(a) /\ tool[t] = "waiting"
          /\ tool'[t] = "opening" /\ on' = on
        BY <1>3 DEF PauseEnds, Goes, Orderly
    <2>2. ~WorkerSession(a)
        BY <2>1 DEF LeaseInv, AckedMeansStopped, WorkerSession
    <2>3. \A u \in Tool : ~ToolSession(u, a)
        BY <2>1 DEF ToolInv, OneToolPerAccount, ToolSession
    <2>4. Holders[a] = {}
        BY <2>1, <2>2, <2>3, HoldersAre
    <2>5. ToolSession(t, a)'
        BY <2>1 DEF ToolSession
    <2>6. Holders'[a] = {t}
        BY <1>1, <1>2, <2>1, <2>2, <2>3, <2>5 DEF NothingLeaks, Holders
    <2>7. \A b \in Account \ {a} : Holders'[b] = Holders[b]
        <3>1. \A b \in Account \ {a} : ToolSession(t, b)' <=> ToolSession(t, b)
            BY <2>1 DEF ToolSession
        <3>2. QED
            BY <1>1, <1>2, <3>1 DEF Holders
    <2>8. QED
        BY <2>1, <2>4, <2>6, <2>7, OneAccountChanges DEF Party
<1>4. CASE Opened(t)
    <2>1. \A a \in Account : ToolSession(t, a)' <=> ToolSession(t, a)
        BY <1>4 DEF Opened, Goes, ToolSession
    <2>2. QED
        BY <1>1, <1>2, <2>1, NoSessionChanges
<1>5. CASE ~PauseEnds(t) /\ ~Opened(t)
    <2>1. \A b \in Account : ~ToolSession(t, b)'
        BY <1>5 DEF ToolStep, Aborts, OpenRefused, OpenFails, Closes,
                    StopsSharing, Reports, Goes, Leaves, AfterBlock,
                    ToolSession
    <2>2. ASSUME NEW a \in Account, ToolSession(t, a)
          PROVE  Exclusive!Next \/ UNCHANGED Holders
        <3>1. on[t] = a /\ a # NoAccount
            BY <2>2, AssumptionsHold DEF ToolSession, Assumptions
        <3>2. Holders[a] = {t} /\ ~WorkerSession(a)
            BY <2>2, HoldersAre
               DEF LeaseInv, ToolInv, ToolHoldsAckedLease, AckedMeansStopped,
                   WorkerSession
        <3>3. \A u \in Tool : ~ToolSession(u, a)'
            BY <1>2, <2>1, <2>2, <3>1
               DEF ToolInv, OneToolPerAccount, ToolSession
        <3>4. Holders'[a] = {}
            BY <1>1, <3>1, <3>2, <3>3 DEF NothingLeaks, Holders
        <3>5. \A b \in Account \ {a} : Holders'[b] = Holders[b]
            BY <1>1, <1>2, <2>1, <3>1 DEF Holders, ToolSession
        <3>6. QED
            BY <3>1, <3>4, <3>5, OneAccountChanges
    <2>3. CASE \A a \in Account : ~ToolSession(t, a)
        <3>1. \A b \in Account : ToolSession(t, b)' <=> ToolSession(t, b)
            BY <2>1, <2>3 DEF ToolSession
        <3>2. QED
            BY <1>1, <1>2, <3>1, NoSessionChanges
    <2>4. QED
        BY <2>2, <2>3
<1>6. QED
    BY <1>3, <1>4, <1>5

\* The bot's other steps: only its crash closes sessions.
LEMMA BotRefines ==
    ASSUME Orderly, LeasesReadable, ExclusiveInv, ExclusiveInv', BotAlone
    PROVE  Exclusive!Next \/ UNCHANGED Holders
<1>1. UNCHANGED workerVars /\ UNCHANGED leaked
      /\ \A a \in Account : WorkerSession(a)' <=> WorkerSession(a)
    BY DEF BotAlone, workerVars, slotVars, WorkerSession
<1>2. ASSUME NEW t \in Tool, NEW b \in Account, Begin(t, b, RunningHere(b))
      PROVE  Exclusive!Next \/ UNCHANGED Holders
    <2>1. /\ on' = [on EXCEPT ![t] = b] /\ tool[t] = "idle"
          /\ tool' = [tool EXCEPT ![t] = "waiting"]
        BY <1>2 DEF Begin, RunningHere, Orderly, Goes
    <2>2. \A u \in Tool, a \in Account :
              ToolSession(u, a)' <=> ToolSession(u, a)
        BY <2>1 DEF ToolSession, ExclusiveInv, TypeInv, TypeOK, BorrowTypeOK
    <2>3. QED
        BY <1>1, <2>2, NoSessionChanges
<1>3. CASE BotCrash
    <2> DEFINE S == {a \in Account : ~WorkerSession(a)}
    <2>1. \A t \in Tool, a \in Account : ~ToolSession(t, a)'
        BY <1>3 DEF BotCrash, ToolSession
    <2>2. ASSUME NEW a \in Account
          PROVE  Holders'[a] = IF a \in S THEN {} ELSE Holders[a]
        BY <1>1, <2>1, HoldersAre DEF ExclusiveInv, NothingLeaks, Holders
    <2>3. QED
        BY <2>2, ProcessDies
<1>4. CASE UNCHANGED borrowVars
    BY <1>1, <1>4, NoSessionChanges DEF borrowVars, ToolSession
<1>5. QED
    BY <1>1, <1>2, <1>3, <1>4, ToolRefines DEF BotAlone

\* Worker and tools implement the abstract specification: an account's
\* session is in one place at a time, and moves only through being closed.
THEOREM SessionsAreExclusive ==
    ASSUME Orderly, LeasesReadable, NoCutShort
    PROVE  Spec => ExclusiveSessionSpec
<1>1. Init => ExclusiveInv
    BY InitTyped, InitLeaseInv, InitToolInv
       DEF ExclusiveInv, NothingLeaks, Init, SupervisorInit
<1>2. ExclusiveInv /\ [Next]_vars => ExclusiveInv'
    BY NextTyped, NextKeepsLeaseInv, NextKeepsToolInv, NextKeepsNothingLeaks
       DEF ExclusiveInv
<1>3. Init => Exclusive!Init
    BY DEF Init, SupervisorInit, BorrowInit, Exclusive!Init, Holders,
           WorkerSession, ToolSession
<1>4. ExclusiveInv /\ ExclusiveInv' /\ [Next]_vars
          => [Exclusive!Next]_Holders
    <2> SUFFICES ASSUME ExclusiveInv, ExclusiveInv', [Next]_vars
                 PROVE  Exclusive!Next \/ UNCHANGED Holders
        OBVIOUS
    <2>1. CASE UNCHANGED vars \/ TimePasses
        BY <2>1, NoSessionChanges
           DEF vars, TimePasses, workerVars, slotVars, borrowVars,
               WorkerSession, ToolSession
    <2>2. QED
        BY <2>1, WorkerRefines, BotRefines DEF Next
<1>5. QED
    BY <1>1, <1>2, <1>3, <1>4, PTL DEF Spec, ExclusiveSessionSpec, Exclusive!Spec
=============================================================================
