------------------------- MODULE AccountBackground -------------------------
(***************************************************************************)
(* The background of one account: the tasks of its plugins for the life of *)
(* a connection (PluginTasks), and what the code monitor                   *)
(* (SecurityAlerts), the group creation (GroupSchedule) and the listeners  *)
(* pmpermit and afk (PrivateGuards) do in them.                            *)
(***************************************************************************)
EXTENDS SecurityAlerts, GroupSchedule, PrivateGuards

\* bound: which of the system's parts move together in a behaviour
CONSTANT Scenes

Part == Background \cup {"switches", "restarts", "notices", "explorer", "schedule", "strangers", "absence"}

ASSUME ScenesAssumption == Scenes \subseteq SUBSET Part

VARIABLE scene

vars == <<taskVars, alertVars, scheduleVars, guardVars, scene>>

TypeOK == /\ TaskTypeOK /\ AlertTypeOK /\ ScheduleTypeOK /\ GuardTypeOK
          /\ scene \in Scenes

Init == TaskInit /\ AlertInit /\ ScheduleInit /\ GuardInit /\ scene \in Scenes

\* A connection begins and ends; the worker may end with it.
ConnectionStep ==
    /\ \/ Connects /\ UNCHANGED <<alertVars, scheduleVars>>
       \/ /\ "restarts" \in scene
          /\ Disconnects /\ (MonitorStops \/ WorkerForgets) /\ GroupsStop
    /\ UNCHANGED <<guardVars, scene>>

\* The loop of a watching task
Loops(p) ==
    /\ p \in scene
    /\ \/ (Wakes(p) \/ Watches(p)) /\ UNCHANGED alertVars
       \/ p = "codemon" /\ \/ MonitorWatches /\ UNCHANGED alertVars
                           \/ MonitorFetches
                           \/ MonitorCaughtUp
    /\ UNCHANGED <<scheduleVars, guardVars, scene>>

CatchUpStep == /\ "codemon" \in scene /\ \E m \in Notice : MonitorCatchesUp(m)
               /\ UNCHANGED <<scheduleVars, guardVars, scene>>

SwitchStep ==
    /\ "switches" \in scene
    /\ \/ Subscribes /\ UNCHANGED scheduleVars
       \/ \E p \in Watcher \cap scene : Switches(p) /\ UNCHANGED scheduleVars
       \/ "groups" \in scene /\ SwitchesGroups
    /\ UNCHANGED <<alertVars, guardVars, scene>>

NoticeStep ==
    /\ \/ /\ "notices" \in scene
          /\ \/ \E m \in Notice : NoticeArrives(m) \/ NoticeEdited(m) \/ Ages(m)
             \/ OtherArrives
             \/ \E x \in Process : Prunes(x)
       \/ /\ "explorer" \in scene
          /\ Explores \/ ExplorerEnds \/ \E m \in Notice : CatchesUp("explorer", m)
    /\ UNCHANGED <<taskVars, scheduleVars, guardVars, scene>>

GroupStep ==
    /\ "schedule" \in scene
    /\ \/ Looks \/ LooksAgain \/ Creates \/ CreationFails \/ Announces \/ AnnouncementFails
       \/ AddedAgain \/ LimitChanges \/ Floods \/ TimePasses
    /\ UNCHANGED <<alertVars, guardVars, scene>>

GuardStep ==
    /\ \/ /\ "strangers" \in scene
          /\ \/ \E s \in Sender : \/ PermitHears(s) \/ Blocks(s)
                                 \/ \E approved \in BOOLEAN : SetsApproval(s, approved)
             \/ SetsProtection
       \/ /\ "absence" \in scene
          /\ \/ \E s \in Sender : AfkHears(s)
             \/ \E value \in BOOLEAN : SetsAway(value)
             \/ AfkHearsItself
    /\ UNCHANGED <<alertVars, scheduleVars, scene>>

Next == \/ ConnectionStep \/ \E p \in Background : Loops(p)
        \/ CatchUpStep \/ SwitchStep \/ NoticeStep \/ GroupStep \/ GuardStep

Spec == Init /\ [][Next]_vars

\* AccountSession.sleep has a timeout, a call to Telegram one too, and a cancelled task
\* is not run any more.
FairSpec == Spec /\ \A p \in Background : WF_vars(Loops(p))
-----------------------------------------------------------------------------
\* "background listeners re-check it about every two seconds ... so a toggle applies
\* without restarting the worker" (docs/commands.md:58): while the account is connected
\* a listener ends up attached if its plugin stays on, and detached if it stays off,
\* whatever readings of the switch fail and wherever its task is when it changes.
ListenersFollowTheirSwitch ==
    \A p \in Watcher : /\ <>[](p \in scene /\ serving /\ Enabled(p)) => <>[]Attached(p)
                       /\ <>[](p \in scene /\ ~Enabled(p)) => <>[]~Attached(p)
=============================================================================
