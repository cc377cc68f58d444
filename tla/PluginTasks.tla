---------------------------- MODULE PluginTasks ----------------------------
(***************************************************************************)
(* The background tasks of one account's plugins, for the life of a        *)
(* connection (supervisor._serve, runtime/plugins.AccountSession,          *)
(* plugins/listeners.py, the loops of plugins/codewatch.py and             *)
(* plugins/groups.py), and the handlers they attach to its client.  All    *)
(* attach to group 0, where the client gives a message to the first that   *)
(* matches.  When a sleeping task wakes is left open: a timeout, a signal  *)
(* and another plugin's wake-up look the same.                             *)
(***************************************************************************)
EXTENDS Integers, FiniteSets, SequencesExt

CONSTANTS Listener,     \* the plugins that attach one listener for every message
          MaxFails,     \* bound: calls to the database that fail
          None

ASSUME ListenerAssumption == Listener \cap {"codemon", "groups", None} = {}
ASSUME MaxFailsAssumption == MaxFails \in Nat

Watcher == Listener \cup {"codemon"}

Background == Watcher \cup {"groups"}

VARIABLES
    on,             \* the plugins that are switched on for the account
    subscribed,     \* its owner has a subscription to a plan that allows them
    serving,        \* the client is connected and the tasks were started
    task,           \* plugin -> where its task is
    attached,       \* the handlers of group 0, by plugin
    fails           \* calls to the database that have failed

taskVars == <<on, subscribed, serving, task, attached, fails>>

Place == {"off", "awake", "asleep", "fetching", "catching", "pausing", "creating",
          "announcing"}

TaskTypeOK ==
    /\ on \subseteq Background /\ subscribed \in BOOLEAN /\ serving \in BOOLEAN
    /\ task \in [Background -> Place]
    /\ \A p \in Background : task[p] = "off" <=> ~serving
    /\ attached \in Seq(Watcher)
    /\ \A i, j \in DOMAIN attached : attached[i] = attached[j] => i = j
    /\ ~serving => attached = <<>>
    /\ fails \in 0..MaxFails

TaskInit ==
    /\ on \in {Listener, Background} /\ subscribed = TRUE /\ serving = FALSE
    /\ task = [p \in Background |-> "off"] /\ attached = <<>> /\ fails = 0

Attached(p) == \E i \in DOMAIN attached : attached[i] = p

\* plugin_is_enabled
Enabled(p) == subscribed /\ p \in on

DbFails == fails < MaxFails /\ fails' = fails + 1

\* A question put to the database, which answers FALSE when it fails
Reads(truth, answer) == \/ answer = truth /\ UNCHANGED fails
                        \/ ~answer /\ DbFails

Finds(p, enabled) == Reads(Enabled(p), enabled)

\* remove_handler, with the one handler that the plugin attached
Without(p) == RemoveFirst(attached, p)

At(p, place) == task[p] = place

Goes(p, place) == task' = [task EXCEPT ![p] = place]
-----------------------------------------------------------------------------
\* _serve starts a task per plugin
Connects ==
    /\ ~serving /\ serving' = TRUE
    /\ task' = [p \in Background |-> "awake"]
    /\ UNCHANGED <<on, subscribed, attached, fails>>

\* Mutant: the handlers of the cancelled tasks stay
LeavesHandlers == /\ serving /\ serving' = FALSE
                  /\ task' = [p \in Background |-> "off"]
                  /\ UNCHANGED <<on, subscribed, attached, fails>>

\* and cancels them, wherever they are; their finally clauses remove the handlers.
Disconnects ==
    /\ serving /\ serving' = FALSE
    /\ task' = [p \in Background |-> "off"] /\ attached' = <<>>
    /\ UNCHANGED <<on, subscribed, fails>>

\* AccountSession.sleep ends
Wakes(p) == /\ At(p, "asleep") /\ Goes(p, "awake")
            /\ UNCHANGED <<on, subscribed, serving, attached, fails>>

\* Mutant: the listener looks once
WatchesOnce(p) ==
    /\ p \in Listener /\ At(p, "awake") /\ ~Attached(p)
    /\ \E enabled \in BOOLEAN : Finds(p, enabled)
          /\ attached' = IF enabled THEN Append(attached, p) ELSE attached
    /\ Goes(p, "asleep")
    /\ UNCHANGED <<on, subscribed, serving>>

\* One turn of the loop of listeners.watch
Watches(p) ==
    /\ p \in Listener /\ At(p, "awake")
    /\ \E enabled \in BOOLEAN :
          /\ Finds(p, enabled)
          /\ attached' = IF ~enabled THEN Without(p)
                         ELSE IF Attached(p) THEN attached ELSE Append(attached, p)
    /\ Goes(p, "asleep")
    /\ UNCHANGED <<on, subscribed, serving>>

\* One turn of CodeMonitorPlugin._run; a new handler is followed by a catch-up.
MonitorWatches ==
    /\ At("codemon", "awake")
    /\ \E enabled \in BOOLEAN :
          /\ Finds("codemon", enabled)
          /\ IF enabled /\ ~Attached("codemon")
             THEN attached' = Append(attached, "codemon") /\ Goes("codemon", "fetching")
             ELSE /\ attached' = IF enabled THEN attached ELSE Without("codemon")
                  /\ Goes("codemon", "asleep")
    /\ UNCHANGED <<on, subscribed, serving>>

Subscribes == subscribed' = ~subscribed /\ UNCHANGED <<on, serving, task, attached, fails>>

\* The switches of the menus and the panel (AccountRights)
Switches(p) == /\ on' = IF p \in on THEN on \ {p} ELSE on \cup {p}
               /\ UNCHANGED <<subscribed, serving, task, attached, fails>>
-----------------------------------------------------------------------------
\* The kinds of messages: a private one from someone else, and one of the account itself.
Kind == {"private", "own"}

\* The code monitor's filter is incoming & private, the listeners have none.
Matches(p, kind) == p \in Listener \/ kind = "private"

\* The plugin whose handler a message is given to
Receives(p, kind) ==
    \E i \in DOMAIN attached : /\ attached[i] = p /\ Matches(p, kind)
                               /\ \A j \in 1..i-1 : ~Matches(attached[j], kind)
=============================================================================
