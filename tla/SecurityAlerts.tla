--------------------------- MODULE SecurityAlerts ---------------------------
(***************************************************************************)
(* The code monitor (code_monitor.py): a security notice in the account's  *)
(* chat with Telegram is marked as seen and forwarded to the owner, by the *)
(* handler of the running client or by a catch-up over the newest messages *)
(* of that chat, back to six hours ago, which the plugin makes when it     *)
(* attaches and the account explorer whenever it has a client open.        *)
(***************************************************************************)
EXTENDS PluginTasks

CONSTANTS Notice,       \* security notices with something to act on
          Process,      \* "worker", and with RUNTIME_ROLE=bot the bot
          CatchUpLimit  \* CATCH_UP_LIMIT, the messages a catch-up reads

ASSUME ProcessAssumption == "worker" \in Process
ASSUME CatchUpAssumption == CatchUpLimit \in Nat \ {0}

Runner == {"codemon", "explorer"}

VARIABLES
    age,        \* notice -> not written yet, within the six hours, or past them
    newer,      \* notice -> messages of that chat after it, up to CatchUpLimit
    seen,       \* process -> the notices it has marked
    explorer,   \* the process the exploring account explorer runs in
    exploring,  \* the explorer's catch-up has begun
    todo,       \* runner -> what its catch-up has still to look at
    alerts,     \* history: process -> notice -> alerts within the six hours, up to 2
    taken,      \* history, for the recent notices: another listener got them,
    left,       \* a catch-up that failed did not get to them,
    passed      \* they are behind the messages that the last catch-up read

alertVars == <<age, newer, seen, explorer, exploring, todo, alerts, taken, left, passed>>

AlertTypeOK ==
    /\ age \in [Notice -> {"none", "recent", "old"}]
    /\ newer \in [Notice -> 0..CatchUpLimit]
    /\ seen \in [Process -> SUBSET Notice]
    /\ explorer \in Process /\ exploring \in BOOLEAN
    /\ todo \in [Runner -> SUBSET Notice]
    /\ alerts \in [Process -> [Notice -> 0..2]]
    /\ taken \subseteq Notice /\ left \subseteq Notice /\ passed \subseteq Notice

AlertInit ==
    /\ age = [m \in Notice |-> "none"] /\ newer = [m \in Notice |-> 0]
    /\ seen = [x \in Process |-> {}]
    /\ explorer = "worker" /\ exploring = FALSE
    /\ todo = [r \in Runner |-> {}]
    /\ alerts = [x \in Process |-> [m \in Notice |-> 0]]
    /\ taken = {} /\ left = {} /\ passed = {}

ProcessOf(r) == IF r = "codemon" THEN "worker" ELSE explorer

Recent == {m \in Notice : age[m] = "recent"}

\* What a catch-up finds in the newest CatchUpLimit messages
Found == {m \in Recent : newer[m] < CatchUpLimit}

\* A message is written in the chat.
Follows == newer' = [m \in Notice |-> IF m \in Recent /\ newer[m] < CatchUpLimit
                                      THEN newer[m] + 1 ELSE newer[m]]

\* Mutant: the marks of the process itself are not looked at
KnownElsewhere(x, m) == IF \E y \in Process \ {x} : m \in seen[y] THEN BOOLEAN ELSE {FALSE}

\* _mark_seen: seen here, or found in a cache the processes share
Known(x, m) == IF m \in seen[x] THEN {TRUE}
               ELSE IF \E y \in Process : m \in seen[y] THEN BOOLEAN ELSE {FALSE}

\* _handle_message marks before it sends; whether the alert arrives is left open.
Handles(x, m) ==
    /\ seen' = [seen EXCEPT ![x] = @ \cup {m}]
    /\ \E known \in Known(x, m) :
          alerts' = IF known \/ age[m] = "old" \/ alerts[x][m] = 2 THEN alerts
                    ELSE [alerts EXCEPT ![x][m] = @ + 1]

\* Telegram writes m, and it is handled if the code monitor's handler gets it.
NoticeArrives(m) ==
    /\ age[m] = "none" /\ age' = [age EXCEPT ![m] = "recent"] /\ Follows
    /\ IF Receives("codemon", "private") THEN Handles("worker", m)
                                         ELSE UNCHANGED <<seen, alerts>>
    /\ taken' = IF Attached("codemon") /\ ~Receives("codemon", "private")
                THEN taken \cup {m} ELSE taken
    /\ UNCHANGED <<explorer, exploring, todo, left, passed>>

\* So does a message with nothing to act on, which no handler and no catch-up forwards.
OtherArrives == /\ Found # {} /\ Follows
                /\ UNCHANGED <<age, seen, explorer, exploring, todo, alerts, taken, left, passed>>

\* An edited message is given to the code monitor alone, however old it is.
NoticeEdited(m) ==
    /\ age[m] # "none" /\ Attached("codemon") /\ Handles("worker", m)
    /\ UNCHANGED <<age, newer, explorer, exploring, todo, taken, left, passed>>

\* Six hours pass for m: no catch-up looks at it any more.
Ages(m) ==
    /\ age[m] = "recent" /\ age' = [age EXCEPT ![m] = "old"]
    /\ newer' = [newer EXCEPT ![m] = 0]
    /\ taken' = taken \ {m} /\ left' = left \ {m} /\ passed' = passed \ {m}
    /\ todo' = [r \in Runner |-> todo[r] \ {m}]
    /\ UNCHANGED <<seen, explorer, exploring, alerts>>

\* _prune_seen, before another message is looked at
Prunes(x) ==
    /\ seen' = [seen EXCEPT ![x] = {m \in @ : age[m] = "recent"}]
    /\ UNCHANGED <<age, newer, explorer, exploring, todo, alerts, taken, left, passed>>

\* The page of get_chat_history is there: what was missed before is in it, or behind it.
Fetches(r) ==
    /\ todo' = [todo EXCEPT ![r] = Found]
    /\ IF r = "codemon" THEN taken' = {} /\ left' = {} /\ passed' = Recent \ Found
                        ELSE UNCHANGED <<taken, left, passed>>
    /\ UNCHANGED <<age, newer, seen, alerts>>

\* Mutant: the catch-up stops at a notice it knows
UntilKnown(r, m) == IF m \in seen[ProcessOf(r)] THEN {} ELSE todo[r] \ {m}

Rest(r, m) == todo[r] \ {m}

\* One message of catch_up_with_client
CatchesUp(r, m) ==
    /\ m \in todo[r] /\ age[m] = "recent"
    /\ Handles(ProcessOf(r), m) /\ todo' = [todo EXCEPT ![r] = Rest(r, m)]
    /\ UNCHANGED <<age, newer, explorer, exploring, taken, left, passed>>

\* The catch-up comes to the end, or to a notice past the six hours
CatchUpEnds(r) == /\ todo[r] \cap Recent = {} /\ todo' = [todo EXCEPT ![r] = {}]
                  /\ UNCHANGED <<age, newer, seen, alerts, taken, left, passed>>

\* or fails, with what it has not got to (all of it, before the page is there).
CatchUpFails(r, missed) ==
    /\ todo' = [todo EXCEPT ![r] = {}]
    /\ left' = IF r = "codemon" THEN missed ELSE left
    /\ UNCHANGED <<age, newer, seen, alerts, taken, passed>>

\* _catch_up_security_messages, on a client of its own or on the running one
Explores == /\ ~exploring /\ exploring' = TRUE /\ explorer' \in Process
            /\ Fetches("explorer")

ExplorerEnds == /\ exploring /\ exploring' = FALSE /\ explorer' = "worker"
                /\ CatchUpEnds("explorer") \/ CatchUpFails("explorer", {})

MonitorFetches ==
    /\ At("codemon", "fetching") /\ Goes("codemon", "catching") /\ Fetches("codemon")
    /\ UNCHANGED <<explorer, exploring, on, subscribed, serving, attached, fails>>

MonitorCatchesUp(m) == At("codemon", "catching") /\ CatchesUp("codemon", m) /\ UNCHANGED taskVars

MonitorCaughtUp ==
    /\ \/ At("codemon", "fetching") /\ CatchUpFails("codemon", Recent)
       \/ /\ At("codemon", "catching")
          /\ CatchUpEnds("codemon") \/ CatchUpFails("codemon", todo["codemon"])
    /\ Goes("codemon", "asleep")
    /\ UNCHANGED <<explorer, exploring, on, subscribed, serving, attached, fails>>

\* The connection ends, and the catch-up of the monitor with it.
MonitorStops == /\ todo' = [todo EXCEPT !["codemon"] = {}]
                /\ UNCHANGED <<age, newer, seen, explorer, exploring, alerts, taken, left, passed>>

\* A worker that starts again has seen nothing, unless its cache outlives it.
WorkerForgets ==
    /\ \E kept \in SUBSET seen["worker"] :
          /\ seen' = [seen EXCEPT !["worker"] = kept]
          /\ alerts' = [alerts EXCEPT !["worker"] =
                          [m \in Notice |-> IF m \in kept THEN @[m] ELSE 0]]
    /\ todo' = [r \in Runner |-> IF ProcessOf(r) = "worker" THEN {} ELSE todo[r]]
    /\ exploring' = (exploring /\ explorer # "worker")
    /\ UNCHANGED <<age, newer, explorer, taken, left, passed>>
-----------------------------------------------------------------------------
\* A process forwards a notice at most once within the six hours (code_monitor.py:211),
\* from whichever of the handler, an edit and the two catch-ups comes first, in any order.
AlertedOnce == \A x \in Process, m \in Notice : alerts[x][m] <= 1

\* Handlers are attached before the catch-up looks (plugins/codewatch.py:41), so that no
\* notice falls between: once it is through, every recent notice has been handled, except
\* those that went to another plugin's listener, that the catch-up failed on, or that had
\* CATCH_UP_LIMIT messages after them when it read (code_monitor.py:392): no later
\* catch-up of this connection looks at them.
KnowsEveryNotice ==
    At("codemon", "asleep") /\ Attached("codemon")
        => Recent \subseteq seen["worker"] \cup taken \cup left \cup passed

\* "Code monitoring still forwards the same security messages" (docs/plugins.md:74);
\* "Kurigram stops after the first match in a group, then continues with the next group,
\* so listeners stay here and still receive" (plugins/listeners.py:16): no listener of
\* another plugin takes a notice from the code monitor.
NoticesReachTheMonitor == taken = {}
=============================================================================
