---------------------------- MODULE LeaseProofs ----------------------------
(***************************************************************************)
(* What the worker's side of the tables means: it is gone from an account  *)
(* whose lease it acknowledged, is_running tells whether it serves, and a  *)
(* dead slot is one nobody waits for.                                      *)
(*                                                                         *)
(* Each theorem assumes that certain things do not happen.                 *)
(***************************************************************************)
EXTENDS RuntimeProofs

\* The parts of the invariant about the worker.
AwaitsATodo == /\ awaiting \subseteq todo
               /\ loop \in {"wait", "down"} => awaiting = {}

\* The leased slots reconcile has been through are gone.
LeasedSlotsGone ==
    loop = "stop_leased" => \A a \in leased \ todo : task[a] = "none"

\* During a reconcile, only leases of its snapshot are acknowledged.
OnlySeenAcked ==
    loop \in {"stop_leased", "stop_undesired", "apply"}
        => \A a \in Account : LeaseIsAcked(a) => a \in leased

\* No leased account is started.
LeasedNotDesired ==
    /\ loop \in {"stop_undesired", "apply"} => desired \cap leased = {}
    /\ loop = "apply" => todo \subseteq desired

LeaseInv == /\ AckedMeansStopped /\ AwaitsATodo /\ LeasedSlotsGone
            /\ OnlySeenAcked /\ LeasedNotDesired

LeasesReadable == "lease_read_error" \notin May

\* The parts of the invariant about is_running.
StopAllVisitsAll == loop = "stop_all" => Slots \subseteq todo

RunningInv == RunningMeansServing /\ StopAllVisitsAll

FlagReliable == {"stop_timeout", "running_error", "worker_crash"} \cap May = {}
-----------------------------------------------------------------------------
(***************************************************************************)
(* Acknowledged leases.                                                    *)
(***************************************************************************)
\* A transaction of the lease table acknowledges the worker's snapshot only.
LEMMA AckedSources ==
    ASSUME LeaseTypeOK, LeaseMove, ~AckSessionLeases(leased), NEW a \in Account,
           LeaseIsAcked(a)'
    PROVE  LeaseIsAcked(a)
BY DEF LeaseMove, LeaseTypeOK, LeaseRow, LeaseIsAcked, PruneExpired, NoLease,
       AcquireSessionLease, ReleaseSessionLease, LeaseExpires

\* Reconcile's own steps keep the invariant.
LEMMA MainKeepsLeaseInv ==
    ASSUME LeasesReadable, TypeInv, LeaseInv, MainStep
    PROVE  LeaseInv'
<1> USE DEF TypeInv, TypeOK, LeaseTypeOK, LeaseRow, SupervisorTypeOK, Phase,
            LeaseInv, AckedMeansStopped, AwaitsATodo, LeasedSlotsGone,
            OnlySeenAcked, LeasedNotDesired, LeaseIsAcked, slotVars
<1>1. CASE BeginReconcile
    <2>1. /\ PruneExpired /\ leased' = ActiveLeaseIds
          /\ todo' = leased' \cap Slots /\ loop' = "stop_leased"
          /\ UNCHANGED <<awaiting, task>>
        BY <1>1 DEF BeginReconcile, LeasesReadable
    <2>2. \A a \in Account : LeaseIsAcked(a)' <=> LeaseIsAcked(a)
        BY <2>1 DEF PruneExpired, NoLease
    <2>3. AwaitsATodo'
        BY <1>1, <2>1 DEF BeginReconcile
    <2>4. QED
        BY <2>1, <2>2, <2>3 DEF ActiveLeaseIds, Slots
<1>2. CASE AckAndPlan
    <2>1. ASSUME NEW a \in Account, LeaseIsAcked(a)' PROVE a \in leased
        BY <1>2, <2>1 DEF AckAndPlan, AckSessionLeases, Acknowledged
    <2>2. desired' \cap leased' = {}
        BY <1>2 DEF AckAndPlan, ShouldRun
    <2>3. QED
        BY <1>2, <2>1, <2>2 DEF AckAndPlan
<1>3. CASE BeginApply
    BY <1>3 DEF BeginApply
<1>4. CASE EndReconcile
    BY <1>4 DEF EndReconcile
<1>5. CASE RequestStop
    BY <1>5 DEF RequestStop
<1>6. CASE BeginStopAll
    BY <1>6 DEF BeginStopAll
<1>7. CASE WorkerExits \/ WorkerCrash
    BY <1>7 DEF WorkerExits, WorkerCrash, ProcessGone
<1>8. CASE WorkerStarts
    BY <1>8 DEF WorkerStarts
<1>9. QED
    BY <1>1, <1>2, <1>3, <1>4, <1>5, <1>6, <1>7, <1>8 DEF MainStep

\* Only accounts that are not leased get a slot.
LEMMA SlotKeepsLeaseInv ==
    ASSUME TypeInv, LeaseInv, NEW a \in Account, SlotStep(a)
    PROVE  LeaseInv'
<1> USE DEF TypeInv, TypeOK, LeaseTypeOK, LeaseRow, SupervisorTypeOK, Phase,
            LeaseInv, AckedMeansStopped, AwaitsATodo, LeasedSlotsGone,
            OnlySeenAcked, LeasedNotDesired, LeaseIsAcked, mainVars,
            slotVars
<1>1. CASE StopSlot(a)
    BY <1>1 DEF StopSlot
<1>2. CASE SlotStopped(a)
    BY <1>2 DEF SlotStopped
<1>3. CASE StopTimesOut(a)
    BY <1>3 DEF StopTimesOut
<1>4. CASE StartSlot(a)
    BY <1>4 DEF StartSlot
<1>5. CASE RestartSlot(a)
    BY <1>5 DEF RestartSlot
<1>6. CASE KeepSlot(a)
    BY <1>6 DEF KeepSlot
<1>7. QED
    BY <1>1, <1>2, <1>3, <1>4, <1>5, <1>6 DEF SlotStep

\* An account's task never makes or forgets its slot.
LEMMA TaskKeepsSlots ==
    ASSUME TypeInv, NEW a \in Account, TaskStep(a)
    PROVE  /\ UNCHANGED mainVars
           /\ \A b \in Account : task[b] = "none" <=> task'[b] = "none"
           /\ \A b \in Account \ {a} : task'[b] = task[b]
           /\ UNCHANGED lease \/ PruneExpired
<1> USE DEF TypeInv, TypeOK, SupervisorTypeOK, Ends, Retries
<1>1. CASE TaskStops(a)
    BY <1>1 DEF TaskStops
<1>2. CASE BeginConnect(a)
    BY <1>2 DEF BeginConnect
<1>3. CASE RotateAndRetry(a)
    BY <1>3 DEF RotateAndRetry
<1>4. CASE ConnectFails(a)
    BY <1>4 DEF ConnectFails
<1>5. CASE ConnectRefused(a)
    BY <1>5 DEF ConnectRefused
<1>6. CASE Connected(a)
    <2>1. \/ task' = [task EXCEPT ![a] = "discard"]
          \/ task' = [task EXCEPT ![a] = "up"]
        BY <1>6 DEF Connected
    <2>2. task[a] = "connecting" /\ UNCHANGED mainVars /\ UNCHANGED lease
        BY <1>6 DEF Connected
    <2>3. QED
        BY <2>1, <2>2
<1>7. CASE Discarded(a)
    BY <1>7 DEF Discarded
<1>8. CASE ServeStopped(a) \/ ServeDropped(a) \/ ServeRefused(a)
    BY <1>8 DEF ServeStopped, ServeDropped, ServeRefused, StopsServing
<1>9. CASE Closed(a)
    BY <1>9 DEF Closed
<1>10. QED
    BY <1>1, <1>2, <1>3, <1>4, <1>5, <1>6, <1>7, <1>8, <1>9 DEF TaskStep

\* A running tool takes its account's lease row away or leaves the table alone.
LEMMA ToolLeaseMove ==
    ASSUME NEW t \in Tool, ToolStep(t)
    PROVE  UNCHANGED lease \/ ReleaseSessionLease(on[t])
BY DEF ToolStep, PauseEnds, Aborts, Opened, OpenRefused, OpenFails, Closes,
       StopsSharing, Reports, Resume

\* Whatever the bot or the clock does, no lease becomes acknowledged.
LEMMA OthersAckNothing ==
    ASSUME TypeInv, BotAlone \/ TimePasses, NEW a \in Account,
           LeaseIsAcked(a)'
    PROVE  LeaseIsAcked(a)
<1> USE DEF TypeInv, TypeOK, LeaseTypeOK, LeaseRow, LeaseIsAcked, NoLease
<1>1. ASSUME NEW t \in Tool, ToolStep(t) PROVE LeaseIsAcked(a)
    BY <1>1, ToolLeaseMove DEF ReleaseSessionLease
<1>2. ASSUME NEW t \in Tool, NEW b \in Account, Begin(t, b, RunningHere(b))
      PROVE  LeaseIsAcked(a)
    BY <1>2 DEF Begin, AcquireSessionLease
<1>3. CASE BotCrash
    BY <1>3 DEF BotCrash
<1>4. CASE UNCHANGED lease
    BY <1>4
<1>5. CASE TimePasses
    BY <1>5 DEF TimePasses, LeaseExpires
<1>6. QED
    BY <1>1, <1>2, <1>3, <1>4, <1>5 DEF BotAlone

\* Every step keeps the invariant.
LEMMA NextKeepsLeaseInv ==
    LeasesReadable /\ TypeInv /\ LeaseInv /\ [Next]_vars => LeaseInv'
<1> SUFFICES ASSUME LeasesReadable, TypeInv, LeaseInv, [Next]_vars
             PROVE  LeaseInv'
    OBVIOUS
<1>1. ASSUME UNCHANGED <<loop, todo, awaiting, leased, desired>>,
             \A a \in Account : task[a] = "none" => task'[a] = "none",
             \A a \in Account : LeaseIsAcked(a)' => LeaseIsAcked(a)
      PROVE  LeaseInv'
    BY <1>1 DEF LeaseInv, AckedMeansStopped, AwaitsATodo, LeasedSlotsGone,
                OnlySeenAcked, LeasedNotDesired, TypeInv, TypeOK,
                SupervisorTypeOK
<1>2. CASE UNCHANGED vars
    BY <1>1, <1>2 DEF vars, workerVars, mainVars, slotVars, LeaseIsAcked
<1>3. CASE WorkerAlone
    <2>1. CASE MainStep
        BY <2>1, MainKeepsLeaseInv
    <2>2. ASSUME NEW a \in Account, SlotStep(a) PROVE LeaseInv'
        BY <2>2, SlotKeepsLeaseInv
    <2>3. ASSUME NEW a \in Account, TaskStep(a) PROVE LeaseInv'
        <3>1. \A b \in Account : LeaseIsAcked(b)' => LeaseIsAcked(b)
            BY <2>3, TaskKeepsSlots DEF PruneExpired, NoLease, LeaseIsAcked
        <3>2. QED
            BY <1>1, <2>3, <3>1, TaskKeepsSlots DEF mainVars
    <2>4. QED
        BY <1>3, <2>1, <2>2, <2>3 DEF WorkerAlone, WorkerStep
<1>4. CASE BotAlone \/ TimePasses
    <2>1. UNCHANGED workerVars
        BY <1>4 DEF BotAlone, TimePasses
    <2>2. QED
        BY <1>1, <1>4, <2>1, OthersAckNothing
           DEF workerVars, mainVars, slotVars
<1>5. QED
    BY <1>2, <1>3, <1>4 DEF Next

\* The initial state has the invariant: no lease, no slot.
LEMMA InitLeaseInv == Init => LeaseInv
BY DEF Init, LeaseInit, SupervisorInit, NoLease, LeaseInv, AckedMeansStopped,
       AwaitsATodo, LeasedSlotsGone, OnlySeenAcked, LeasedNotDesired,
       LeaseIsAcked

\* As long as the leases can be read, an acknowledged lease means that the
\* worker has neither a client of the account nor a task that could open
\* one, however late anything gets and whatever crashes.
THEOREM AckedLeaseIsRespected ==
    ASSUME LeasesReadable PROVE Spec => []AckedMeansStopped
<1>1. TypeInv /\ LeaseInv /\ [Next]_vars => LeaseInv'
    BY NextKeepsLeaseInv
<1>2. Spec => []LeaseInv
    BY <1>1, TypesHold, InitLeaseInv, PTL DEF Spec
<1>3. LeaseInv => AckedMeansStopped
    BY DEF LeaseInv
<1>4. QED
    BY <1>2, <1>3, PTL

-----------------------------------------------------------------------------
(***************************************************************************)
(* is_running.                                                             *)
(***************************************************************************)
\* Every step of the worker keeps is_running honest.
LEMMA MainKeepsRunningInv ==
    ASSUME FlagReliable, TypeInv, RunningInv, MainStep
    PROVE  RunningInv'
<1> USE DEF TypeInv, TypeOK, SupervisorTypeOK, AccountTypeOK, RunningInv,
            RunningMeansServing, StopAllVisitsAll, Slots, accountVars, slotVars
<1>1. CASE BeginReconcile
    BY <1>1 DEF BeginReconcile
<1>2. CASE AckAndPlan
    BY <1>2 DEF AckAndPlan
<1>3. CASE BeginApply
    BY <1>3 DEF BeginApply
<1>4. CASE EndReconcile
    BY <1>4 DEF EndReconcile
<1>5. CASE RequestStop
    BY <1>5 DEF RequestStop
<1>6. CASE BeginStopAll
    BY <1>6 DEF BeginStopAll
<1>7. CASE WorkerExits
    BY <1>7 DEF WorkerExits, ProcessGone
<1>8. CASE WorkerStarts
    BY <1>8 DEF WorkerStarts
<1>9. ~WorkerCrash
    BY DEF WorkerCrash, FlagReliable
<1>10. QED
    BY <1>1, <1>2, <1>3, <1>4, <1>5, <1>6, <1>7, <1>8, <1>9 DEF MainStep

\* A slot's steps write no flag, and forget ended tasks only.
LEMMA SlotKeepsRunningInv ==
    ASSUME FlagReliable, TypeInv, RunningInv, NEW a \in Account, SlotStep(a)
    PROVE  RunningInv'
<1> USE DEF TypeInv, TypeOK, SupervisorTypeOK, AccountTypeOK, RunningInv,
            RunningMeansServing, StopAllVisitsAll, Slots, accountVars
<1>1. CASE StopSlot(a)
    BY <1>1 DEF StopSlot
<1>2. CASE SlotStopped(a)
    BY <1>2 DEF SlotStopped
<1>3. ~StopTimesOut(a)
    BY DEF StopTimesOut, FlagReliable
<1>4. CASE StartSlot(a)
    BY <1>4 DEF StartSlot
<1>5. CASE RestartSlot(a)
    BY <1>5 DEF RestartSlot
<1>6. CASE KeepSlot(a)
    BY <1>6 DEF KeepSlot, slotVars
<1>7. QED
    BY <1>1, <1>2, <1>3, <1>4, <1>5, <1>6 DEF SlotStep

\* set_account_running is the only write of the flag, and it is not lost.
LEMMA FlagWritten ==
    ASSUME FlagReliable, NEW a \in Account, NEW v \in BOOLEAN,
           SetAccountRunning(a, v)
    PROVE  isRunning' = [isRunning EXCEPT ![a] = v]
BY DEF FlagReliable, SetAccountRunning

\* A task raises the flag as it starts to serve and clears it as it ends.
LEMMA TaskKeepsRunningInv ==
    ASSUME FlagReliable, TypeInv, RunningInv, NEW a \in Account, TaskStep(a)
    PROVE  RunningInv'
<1> USE FlagWritten
        DEF TypeInv, TypeOK, SupervisorTypeOK, AccountTypeOK, RunningInv,
            RunningMeansServing, StopAllVisitsAll, Slots, accountVars,
            mainVars, Ends, Retries
<1>1. CASE TaskStops(a)
    BY <1>1 DEF TaskStops
<1>2. CASE BeginConnect(a)
    BY <1>2 DEF BeginConnect
<1>3. CASE RotateAndRetry(a)
    BY <1>3 DEF RotateAndRetry
<1>4. CASE ConnectFails(a)
    BY <1>4 DEF ConnectFails
<1>5. CASE ConnectRefused(a)
    <2>1. /\ task[a] = "connecting" /\ UNCHANGED <<loop, todo>>
          /\ task' = [task EXCEPT ![a] = "done"]
          /\ isRunning' = [isRunning EXCEPT ![a] = FALSE]
        BY <1>5 DEF ConnectRefused
    <2>2. /\ task \in [Account -> TaskState] /\ isRunning \in [Account -> BOOLEAN]
          /\ RunningMeansServing /\ StopAllVisitsAll
        OBVIOUS
    <2> HIDE DEF TypeInv, TypeOK, SupervisorTypeOK, AccountTypeOK, RunningInv
    <2>3. RunningMeansServing'
        BY <2>1, <2>2
    <2>4. StopAllVisitsAll'
        BY <2>1, <2>2
    <2> QED
        BY <2>3, <2>4 DEF RunningInv
<1>6. CASE Connected(a)
    <2>1. /\ task[a] = "connecting" /\ UNCHANGED <<loop, todo>>
          /\ \/ task' = [task EXCEPT ![a] = "discard"] /\ UNCHANGED isRunning
             \/ /\ task' = [task EXCEPT ![a] = "up"]
                /\ isRunning' = [isRunning EXCEPT ![a] = TRUE]
        <3>1. task[a] = "connecting" /\ UNCHANGED <<loop, todo>>
            BY <1>6 DEF Connected
        <3>2. CASE task' = [task EXCEPT ![a] = "discard"] /\ UNCHANGED isRunning
            BY <3>1, <3>2
        <3>3. CASE task' = [task EXCEPT ![a] = "up"] /\ SetAccountRunning(a, TRUE)
            BY <3>1, <3>3, FlagWritten
        <3> QED
            BY <1>6, <3>1, <3>2, <3>3 DEF Connected
    <2>2. QED
        BY <2>1
<1>7. CASE Discarded(a)
    BY <1>7 DEF Discarded
<1>8. CASE ServeStopped(a) \/ ServeDropped(a) \/ ServeRefused(a)
    BY <1>8 DEF ServeStopped, ServeDropped, ServeRefused, StopsServing
<1>9. CASE Closed(a)
    <2>1. /\ task[a] = "closing" /\ UNCHANGED <<loop, todo>>
          /\ isRunning' = [isRunning EXCEPT ![a] = FALSE]
          /\ \/ task' = [task EXCEPT ![a] = "check"]
             \/ task' = [task EXCEPT ![a] = "done"]
        BY <1>9 DEF Closed
    <2>2. QED
        BY <2>1
<1>10. QED
    BY <1>1, <1>2, <1>3, <1>4, <1>5, <1>6, <1>7, <1>8, <1>9 DEF TaskStep

\* The bot never raises the flag.
LEMMA BotRaisesNoFlag ==
    ASSUME AccountTypeOK, BotAlone \/ TimePasses, NEW a \in Account,
           isRunning'[a]
    PROVE  isRunning[a]
<1> USE DEF AccountTypeOK, accountVars
<1>1. ASSUME NEW t \in Tool, ToolStep(t) PROVE isRunning[a]
    BY <1>1 DEF ToolStep, PauseEnds, Aborts, Opened, OpenRefused, OpenFails,
                Closes, StopsSharing, Reports
<1>2. ASSUME NEW t \in Tool, NEW b \in Account, Begin(t, b, RunningHere(b))
      PROVE  isRunning[a]
    BY <1>2 DEF Begin
<1>3. CASE BotCrash
    BY <1>3 DEF BotCrash
<1>4. ASSUME NEW b \in Account, AccountEdit(b) PROVE isRunning[a]
    BY <1>4 DEF AccountEdit, SwitchAccount, ReassignProxy,
                DeleteManagedAccount, AddManagedAccount
<1>5. CASE TimePasses
    BY <1>5 DEF TimePasses
<1>6. QED
    BY <1>1, <1>2, <1>3, <1>4, <1>5 DEF BotAlone

\* Every step of the system keeps is_running honest.
LEMMA NextKeepsRunningInv ==
    ASSUME FlagReliable, TypeInv, RunningInv, [Next]_vars
    PROVE  RunningInv'
<1>1. ASSUME UNCHANGED workerVars,
             \A a \in Account : isRunning'[a] => isRunning[a]
      PROVE  RunningInv'
    BY <1>1 DEF RunningInv, RunningMeansServing, StopAllVisitsAll, Slots,
                workerVars, mainVars, slotVars
<1>2. CASE UNCHANGED vars
    BY <1>1, <1>2 DEF vars, accountVars
<1>3. CASE WorkerAlone
    BY <1>3, MainKeepsRunningInv, SlotKeepsRunningInv, TaskKeepsRunningInv
       DEF WorkerAlone, WorkerStep
<1>4. CASE BotAlone \/ TimePasses
    <2>1. UNCHANGED workerVars
        BY <1>4 DEF BotAlone, TimePasses
    <2>2. QED
        BY <1>1, <1>4, <2>1, BotRaisesNoFlag DEF TypeInv, TypeOK
<1>5. QED
    BY <1>2, <1>3, <1>4 DEF Next

\* At first no account runs.
LEMMA InitRunningInv == Init => RunningInv
BY DEF Init, AccountInit, SupervisorInit, RunningInv, RunningMeansServing,
       StopAllVisitsAll

\* is_running is true only while the worker serves the account or closes its
\* client, if the flag's writes arrive, no stop is cut short and the worker
\* does not crash.
THEOREM RunningFlagIsHonest ==
    ASSUME FlagReliable PROVE Spec => []RunningMeansServing
<1>1. TypeInv /\ RunningInv /\ [Next]_vars => RunningInv'
    BY NextKeepsRunningInv
<1>2. Spec => []RunningInv
    BY <1>1, TypesHold, InitRunningInv, PTL DEF Spec
<1>3. RunningInv => RunningMeansServing
    BY DEF RunningInv
<1>4. QED
    BY <1>2, <1>3, PTL

-----------------------------------------------------------------------------
(***************************************************************************)
(* Dead slots.                                                             *)
(***************************************************************************)
\* The slot's details are not those of an account that should run, and only a new
\* login changes that.
Barred(a) == \/ standing[a] = "deleted" \/ sessionStatus[a] = "invalid"
             \/ made[a][2] < session[a]

DetailsAreOld == \A a \in Account : made[a][2] <= session[a] /\ rows[a][2] <= session[a]

AwaitedAreStopped == \A a \in awaiting : stopEvent[a]

\* A task gives its client up because it was stopped, or has a reason of its own.
GivesUpFor(a) ==
    /\ task[a] = "discard" => Stopping(a)
    /\ task[a] = "closing" => why[a] \in {"drop", "invalid"} \/ Stopping(a)

DeadAreBarred(a) == task[a] = "done" /\ ~Stopping(a) => Barred(a)

\* Only a tool of account_explorer reports on a session once it has left the block.
NoneReports == \A t \in Tool : tool[t] = "reporting" => t \in LockedTool

DeadInv == /\ DetailsAreOld /\ AwaitedAreStopped
           /\ \A a \in Account : GivesUpFor(a) /\ DeadAreBarred(a)

\* Every mark of a session arrives, and the worker alone marks sessions.
MarksReliable == "status_error" \notin May /\ LockedTool = {}

\* Reconcile starts slots with details of its snapshot and awaits what it stopped.
LEMMA MainKeepsDeadInv ==
    ASSUME TypeInv, DeadInv, MainStep
    PROVE  DeadInv'
<1> USE DEF TypeInv, TypeOK, SupervisorTypeOK, AccountTypeOK, DeadInv, DetailsAreOld,
            AwaitedAreStopped, GivesUpFor, DeadAreBarred, Barred, Stopping, accountVars, slotVars
<1>1. CASE BeginReconcile
    BY <1>1 DEF BeginReconcile
<1>2. CASE AckAndPlan
    <2>1. \A a \in Account : rows'[a][2] <= session[a]
        BY <1>2, ProxyAssumption DEF AckAndPlan, Fingerprint, NoRow
    <2>2. QED
        BY <1>2, <2>1 DEF AckAndPlan
<1>3. CASE BeginApply
    BY <1>3 DEF BeginApply
<1>4. CASE EndReconcile
    BY <1>4, ProxyAssumption DEF EndReconcile, NoRow
<1>5. CASE RequestStop
    BY <1>5 DEF RequestStop
<1>6. CASE BeginStopAll
    BY <1>6 DEF BeginStopAll
<1>7. CASE WorkerExits \/ WorkerCrash
    BY <1>7, ProxyAssumption DEF WorkerExits, WorkerCrash, ProcessGone, NoRow
<1>8. CASE WorkerStarts
    BY <1>8 DEF WorkerStarts
<1>9. QED
    BY <1>1, <1>2, <1>3, <1>4, <1>5, <1>6, <1>7, <1>8 DEF MainStep

\* A slot is forgotten, or made anew, only when its task has ended.
LEMMA SlotKeepsDeadInv ==
    ASSUME TypeInv, DeadInv, NEW a \in Account, SlotStep(a)
    PROVE  DeadInv'
<1> USE DEF TypeInv, TypeOK, SupervisorTypeOK, AccountTypeOK, DeadInv, DetailsAreOld,
            AwaitedAreStopped, GivesUpFor, DeadAreBarred, Barred, Stopping, accountVars
<1>1. CASE StopSlot(a)
    BY <1>1 DEF StopSlot
<1>2. CASE SlotStopped(a)
    BY <1>2, ProxyAssumption DEF SlotStopped, NoRow
<1>3. CASE StopTimesOut(a)
    BY <1>3 DEF StopTimesOut, mainVars
<1>4. CASE StartSlot(a)
    BY <1>4 DEF StartSlot
<1>5. CASE RestartSlot(a)
    BY <1>5 DEF RestartSlot
<1>6. CASE KeepSlot(a)
    BY <1>6 DEF KeepSlot, slotVars
<1>7. QED
    BY <1>1, <1>2, <1>3, <1>4, <1>5, <1>6 DEF SlotStep

\* A refused session is marked, unless the row is deleted.
LEMMA RefusalBars ==
    ASSUME MarksReliable, AccountTypeOK, NEW a \in Account, Mark(a, "invalid"), UNCHANGED standing
    PROVE  /\ standing'[a] = "deleted" \/ sessionStatus'[a] = "invalid"
           /\ \A b \in Account \ {a} : sessionStatus'[b] = sessionStatus[b]
BY DEF MarksReliable, Mark, MarkSession, AccountTypeOK

\* A task that ends by itself has had its session refused.
LEMMA TaskKeepsDeadInv ==
    ASSUME MarksReliable, TypeInv, DeadInv, NEW a \in Account, TaskStep(a)
    PROVE  DeadInv'
<1>0. /\ task \in [Account -> TaskState] /\ why \in [Account -> Reason]
      /\ sessionStatus \in [Account -> {"ok", "invalid"}] /\ AccountTypeOK
    BY DEF TypeInv, TypeOK, SupervisorTypeOK, AccountTypeOK
<1>1. UNCHANGED <<awaiting, stopEvent, shutdown, made, rows, session, standing>>
    BY DEF TaskStep, TaskStops, BeginConnect, RotateAndRetry, ConnectFails, ConnectRefused,
           Connected, Discarded, ServeStopped, ServeDropped, ServeRefused, StopsServing, Closed,
           mainVars, accountVars
<1>2. ASSUME \A b \in Account \ {a} : /\ task'[b] = task[b] /\ why'[b] = why[b]
                                      /\ sessionStatus'[b] = sessionStatus[b],
             GivesUpFor(a)', DeadAreBarred(a)'
      PROVE  DeadInv'
    BY <1>1, <1>2 DEF DeadInv, DetailsAreOld, AwaitedAreStopped, GivesUpFor, DeadAreBarred,
                      Barred, Stopping
<1>3. CASE TaskStops(a)
    BY <1>0, <1>2, <1>3, <1>1 DEF TaskStops, Ends, accountVars, GivesUpFor, DeadAreBarred, Stopping
<1>4. CASE BeginConnect(a)
    BY <1>0, <1>2, <1>4 DEF BeginConnect, accountVars, GivesUpFor, DeadAreBarred
<1>5. CASE RotateAndRetry(a)
    BY <1>0, <1>2, <1>5 DEF RotateAndRetry, GivesUpFor, DeadAreBarred
<1>6. CASE ConnectFails(a)
    BY <1>0, <1>2, <1>6 DEF ConnectFails, Retries, GivesUpFor, DeadAreBarred
<1>7. CASE ConnectRefused(a)
    BY <1>0, <1>1, <1>2, <1>7, RefusalBars
       DEF ConnectRefused, Ends, GivesUpFor, DeadAreBarred, Barred
<1>8. CASE Connected(a)
    <2>1. \/ Stopping(a) /\ task' = [task EXCEPT ![a] = "discard"] /\ UNCHANGED sessionStatus
          \/ task' = [task EXCEPT ![a] = "up"] /\ Mark(a, "ok")
        BY <1>8 DEF Connected
    <2>2. UNCHANGED why
        BY <1>8 DEF Connected
    <2>3. QED
        BY <1>0, <1>1, <1>2, <2>1, <2>2
           DEF Mark, MarkSession, GivesUpFor, DeadAreBarred, Stopping
<1>9. CASE Discarded(a)
    BY <1>0, <1>1, <1>2, <1>9
       DEF Discarded, Ends, accountVars, GivesUpFor, DeadAreBarred, Stopping, DeadInv
<1>10. CASE ServeStopped(a) \/ ServeDropped(a) \/ ServeRefused(a)
    BY <1>0, <1>1, <1>2, <1>10
       DEF ServeStopped, ServeDropped, ServeRefused, StopsServing, accountVars, GivesUpFor,
           DeadAreBarred, Stopping
<1>11. CASE Closed(a)
    <2>1. \/ Retries(a) /\ why[a] # "invalid"
          \/ Ends(a) /\ (why[a] = "invalid" \/ Stopping(a))
        BY <1>11 DEF Closed, DeadInv, GivesUpFor
    <2>2. \/ why[a] = "invalid" /\ Mark(a, "invalid")
          \/ why[a] # "invalid" /\ UNCHANGED sessionStatus
        BY <1>11 DEF Closed
    <2>3. \A b \in Account \ {a} : sessionStatus'[b] = sessionStatus[b]
        BY <1>0, <1>1, <2>2, RefusalBars
    <2>4. why[a] = "invalid" => Barred(a)'
        BY <1>0, <1>1, <2>2, RefusalBars DEF Barred
    <2>5. QED
        BY <1>0, <1>1, <1>2, <2>1, <2>3, <2>4
           DEF Retries, Ends, GivesUpFor, DeadAreBarred, Stopping
<1>12. QED
    BY <1>3, <1>4, <1>5, <1>6, <1>7, <1>8, <1>9, <1>10, <1>11 DEF TaskStep

\* The bot lifts no bar: a deleted account comes back with another login.
LEMMA BotKeepsBars ==
    ASSUME MarksReliable, TypeInv, DeadInv, NoneReports, BotAlone \/ TimePasses
    PROVE  \A a \in Account : /\ session'[a] >= session[a]
                              /\ Barred(a) => Barred(a)'
<1> USE DEF TypeInv, TypeOK, SupervisorTypeOK, AccountTypeOK, DeadInv, DetailsAreOld, Barred
<1>1. UNCHANGED made
    BY DEF BotAlone, TimePasses, workerVars, slotVars
<1>2. CASE UNCHANGED <<standing, sessionStatus, session>>
    BY <1>1, <1>2, ProxyAssumption
<1>3. ASSUME NEW t \in Tool, ToolStep(t) PROVE UNCHANGED <<standing, sessionStatus, session>>
    <2>1. t \notin LockedTool
        BY DEF MarksReliable
    <2>2. ~Reports(t)
        BY <2>1 DEF NoneReports, Reports
    <2>3. QED
        BY <1>3, <2>1, <2>2 DEF ToolStep, PauseEnds, Aborts, Opened, OpenRefused, OpenFails,
           Closes, StopsSharing, accountVars
<1>4. ASSUME NEW t \in Tool, NEW b \in Account, Begin(t, b, RunningHere(b))
      PROVE  UNCHANGED <<standing, sessionStatus, session>>
    BY <1>4 DEF Begin, accountVars
<1>5. ASSUME NEW b \in Account, AccountEdit(b)
      PROVE  \A a \in Account : session'[a] >= session[a] /\ (Barred(a) => Barred(a)')
    <2>1. CASE SwitchAccount(b)
        BY <1>1, <2>1, ProxyAssumption DEF SwitchAccount
    <2>2. CASE ReassignProxy(b)
        BY <1>2, <2>2 DEF ReassignProxy
    <2>3. CASE DeleteManagedAccount(b)
        BY <1>1, <2>3, ProxyAssumption DEF DeleteManagedAccount
    <2>4. CASE AddManagedAccount(b)
        <3>1. session' = [session EXCEPT ![b] = @ + 1] /\ made[b][2] < session'[b]
            BY <1>1, <2>4, ProxyAssumption DEF AddManagedAccount, Row
        <3>2. \A a \in Account \ {b} : /\ session'[a] = session[a] /\ standing'[a] = standing[a]
                                       /\ sessionStatus'[a] = sessionStatus[a]
            BY <2>4 DEF AddManagedAccount
        <3>3. QED
            BY <1>1, <3>1, <3>2, ProxyAssumption
    <2>5. QED
        BY <1>5, <2>1, <2>2, <2>3, <2>4 DEF AccountEdit
<1>6. CASE BotCrash \/ TimePasses
    BY <1>2, <1>6 DEF BotCrash, TimePasses, accountVars
<1>7. QED
    BY <1>2, <1>3, <1>4, <1>5, <1>6 DEF BotAlone

\* Only a tool that may report begins to.
LEMMA NextKeepsReporters ==
    ASSUME TypeInv, NoneReports, [Next]_vars
    PROVE  NoneReports'
<1> USE DEF TypeInv, TypeOK, BorrowTypeOK, NoneReports
<1>1. CASE UNCHANGED borrowVars
    BY <1>1 DEF borrowVars
<1>2. ASSUME NEW t \in Tool, ToolStep(t) PROVE NoneReports'
    BY <1>2 DEF ToolStep, PauseEnds, Aborts, Opened, OpenRefused, OpenFails, Closes,
       StopsSharing, Reports, AfterBlock, Goes, Leaves
<1>3. ASSUME NEW t \in Tool, NEW b \in Account, Begin(t, b, RunningHere(b))
      PROVE  NoneReports'
    BY <1>3 DEF Begin, Goes
<1>4. CASE tool' = [t \in Tool |-> "idle"]
    BY <1>4
<1>5. QED
    BY <1>1, <1>2, <1>3, <1>4
       DEF Next, WorkerAlone, BotAlone, TimePasses, BotCrash, vars

LEMMA NextKeepsDeadInv ==
    ASSUME MarksReliable, TypeInv, DeadInv, NoneReports, [Next]_vars
    PROVE  DeadInv'
<1>1. CASE UNCHANGED vars
    BY <1>1 DEF vars, workerVars, mainVars, slotVars, accountVars, DeadInv, DetailsAreOld,
                AwaitedAreStopped, GivesUpFor, DeadAreBarred, Barred, Stopping
<1>2. CASE WorkerAlone
    BY <1>2, MainKeepsDeadInv, SlotKeepsDeadInv, TaskKeepsDeadInv DEF WorkerAlone, WorkerStep
<1>3. CASE BotAlone \/ TimePasses
    <2>1. UNCHANGED <<awaiting, rows, stopEvent, shutdown, task, made, why>>
        BY <1>3 DEF BotAlone, TimePasses, workerVars, mainVars, slotVars
    <2>2. \A a \in Account : session'[a] >= session[a] /\ (Barred(a) => Barred(a)')
        BY <1>3, BotKeepsBars
    <2>3. /\ \A a \in Account : made[a][2] \in Nat /\ rows[a][2] \in Nat /\ session[a] \in Nat
          /\ \A a \in Account : session'[a] \in Nat
        <3>1. TypeInv /\ TypeInv'
            BY NextTyped
        <3>2. QED
            BY <3>1, ProxyAssumption
               DEF TypeInv, TypeOK, SupervisorTypeOK, AccountTypeOK, Row
    <2>4. DetailsAreOld'
        BY <2>1, <2>2, <2>3 DEF DeadInv, DetailsAreOld
    <2>5. QED
        BY <2>1, <2>2, <2>4 DEF DeadInv, AwaitedAreStopped, GivesUpFor, DeadAreBarred, Stopping
<1>4. QED
    BY <1>1, <1>2, <1>3 DEF Next

\* At first there is no slot and no tool at work.
LEMMA InitDeadInv == Init => DeadInv /\ NoneReports
BY ProxyAssumption
   DEF Init, AccountInit, SupervisorInit, BorrowInit, NoRow, DeadInv, DetailsAreOld,
       AwaitedAreStopped, GivesUpFor, DeadAreBarred, NoneReports

\* A task that ended by itself leaves its slot behind, which reconcile keeps
\* (runtime/supervisor.py:249): if the marks of a session arrive and no tool of
\* account_explorer marks one, the account is not one that should run until it comes
\* back with another login, so that nothing waits for the dead slot.
THEOREM DeadSlotsAreUnwanted ==
    ASSUME MarksReliable PROVE Spec => []DeadSlotIsUnwanted
<1>1. TypeInv /\ DeadInv /\ NoneReports /\ [Next]_vars => DeadInv' /\ NoneReports'
    BY NextKeepsDeadInv, NextKeepsReporters
<1>2. Spec => [](TypeInv /\ DeadInv)
    BY <1>1, TypesHold, InitDeadInv, PTL DEF Spec
<1>3. TypeInv /\ DeadInv => DeadSlotIsUnwanted
    <2>1. ASSUME TypeInv, NEW a \in Account PROVE made[a][2] \in Nat /\ session[a] \in Nat
        BY <2>1, ProxyAssumption DEF TypeInv, TypeOK, SupervisorTypeOK, AccountTypeOK, Row
    <2>2. QED
        BY <2>1 DEF DeadInv, DeadAreBarred, Barred, DeadSlotIsUnwanted, Candidate
<1>4. QED
    BY <1>2, <1>3, PTL
=============================================================================
