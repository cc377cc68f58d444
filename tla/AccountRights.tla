--------------------------- MODULE AccountRights ---------------------------
(***************************************************************************)
(* Who may do what with one managed account: its row and its owner, the    *)
(* owner's managers, the admins who may command it and the plugins it runs *)
(* (database.py, runtime/store.py, runtime/gating.py), as the control      *)
(* bot's menus and the panel change them (account_admin_menu.py,           *)
(* plugin_menu.py, panel.py, sharing.py).  A call to the database is one   *)
(* transaction and its process waits for it; adding an admin is the only   *)
(* one whose reads another process can overtake.                           *)
(***************************************************************************)
EXTENDS PlanEditing

CONSTANTS Self,         \* the Telegram user the account itself is
          MaxAdmins,    \* MAX_ACCOUNT_ADMINS
          MaxLinks,     \* bound: team links of one owner
          Columns,      \* the plugins a column of the row switches: groups, codemon
          DefaultOn     \* the others whose meta.default_enabled is set

ASSUME SelfAssumption == Self \notin User \cup {None}
ASSUME MaxAdminsAssumption == MaxAdmins \in Nat \ {0} /\ MaxLinks \in Nat

Person == User \cup {Self}

\* Each runs one database call at a time.
Process == {"bot", "worker"}

VARIABLES
    owner, deleted,     \* the row of the account
    plan,               \* user -> the plan of his active subscription
    toggle,             \* plugin -> the account's own choice
    managers,           \* account_managers: pairs of an owner and a manager
    team,               \* user -> the number of the team link that is valid
    admins,             \* account_admins: person -> added_by_telegram_id
    tx,                 \* process -> the insert it has still to commit
    looking,            \* the users whose @name the control bot is looking up
    owned               \* history: everybody who has owned the account

rowVars == <<owner, deleted, plan, owned>>
teamVars == <<managers, team>>
adminVars == <<admins, tx, looking>>
rightsVars == <<rowVars, toggle, teamVars, adminVars>>

Insert == [to : Person, by : Person]

RightsTypeOK ==
    /\ owner \in User /\ deleted \in BOOLEAN /\ owner \in owned /\ owned \subseteq User
    /\ plan \in [User -> Plan \cup {None}]
    /\ toggle \in [Plugin -> {"unset", "on", "off"}]
    /\ managers \subseteq User \X User /\ team \in [User -> 0..MaxLinks]
    /\ admins \in [Person -> Person \cup {None}]
    /\ tx \in [Process -> Insert \cup {None}]
    /\ looking \subseteq User

Admins == {x \in Person : admins[x] # None}

\* A new account; its owner may have appointed someone.
RightsInit ==
    /\ owner \in User /\ deleted = FALSE /\ owned = {owner}
    /\ \E p \in Existing : plan = [u \in User |-> p]
    /\ toggle = [g \in Plugin |-> IF g \in Columns THEN "off" ELSE "unset"]
    /\ managers = {} /\ team = [u \in User |-> 0]
    /\ \E x \in Person : admins = [y \in Person |-> IF y = x /\ x # owner THEN owner ELSE None]
    /\ tx = [p \in Process |-> None] /\ looking = {}
-----------------------------------------------------------------------------
\* _user_is_owner
IsOwner(u) == ~deleted /\ owner = u

\* _user_owns: the owner, or a manager of his
Owns(u) == ~deleted /\ (owner = u \/ <<owner, u>> \in managers)

\* panel.actor_allowed
PanelActor(x) == x = Self \/ IsOwner(x)

Free(p) == tx[p] = None
-----------------------------------------------------------------------------
(***************************************************************************)
(* The row: a transfer, a deletion, adding it again, and subscriptions.    *)
(***************************************************************************)
TransferAccount(u, v) ==
    /\ IsOwner(u) /\ v # u /\ plan[v] # None
    /\ owner' = v /\ owned' = owned \cup {v}
    /\ UNCHANGED <<deleted, plan, toggle, teamVars, adminVars>>

DeleteAccount(u) ==
    /\ Owns(u)
    /\ deleted' = TRUE
    /\ toggle' = [g \in Plugin |-> IF g = "groups" THEN "off" ELSE toggle[g]]
    /\ UNCHANGED <<owner, plan, owned, teamVars, adminVars>>

\* add_managed_account revives the row: the columns start anew, account_plugins and
\* account_admins are still there.
ReviveAccount(u) ==
    /\ deleted /\ owner = u
    /\ deleted' = FALSE
    /\ toggle' = [g \in Plugin |-> IF g \in Columns THEN "off" ELSE toggle[g]]
    /\ UNCHANGED <<owner, plan, owned, teamVars, adminVars>>

SubscriptionChanges(u) ==
    /\ \E p \in Existing \cup {None} : plan' = [plan EXCEPT ![u] = p]
    /\ UNCHANGED <<owner, deleted, owned, toggle, teamVars, adminVars>>
-----------------------------------------------------------------------------
(***************************************************************************)
(* Managers and the team link.                                             *)
(***************************************************************************)
\* team_add_start
AsksManager(u) ==
    /\ "manager" \notin waits[u] /\ Asks(u, "manager")
    /\ UNCHANGED <<planVars, rightsVars>>

\* cancel_team_add, also after 300 s
CancelsManager(u) ==
    /\ "manager" \in waits[u] /\ Drops(u, "manager")
    /\ UNCHANGED <<planVars, rightsVars>>

\* add_account_manager, of which an owner is none
AddsManager(o, m) == managers' = managers \cup ({<<o, m>>} \ {<<o, o>>})

\* team_add_receive
ReadsManager(u) ==
    /\ \/ Reads(u, "manager", TRUE) /\ UNCHANGED managers
       \/ Reads(u, "manager", FALSE) /\ \E m \in User : AddsManager(u, m)
    /\ UNCHANGED <<planVars, rowVars, toggle, team, adminVars>>

RemovesManager(u, m) ==
    /\ managers' = managers \ {<<u, m>>}
    /\ UNCHANGED <<waits, planVars, rowVars, toggle, team, adminVars>>

\* rotate_sharing_token
RotatesLink(u) ==
    /\ team[u] < MaxLinks
    /\ team' = [team EXCEPT ![u] = @ + 1]
    /\ UNCHANGED <<waits, planVars, rowVars, toggle, managers, adminVars>>

\* resolve_sharing_token
Valid(o, link) == link = team[o]

\* start_handler with a link of o, which may have been replaced: user_data is cleared,
\* with the router's two flags
OpensLink(u, o, link) ==
    /\ link <= team[o]
    /\ IF Valid(o, link) THEN AddsManager(o, u) ELSE UNCHANGED managers
    /\ waits' = [waits EXCEPT ![u] = @ \ {"admin", "setting"}]
    /\ Forgets(u)
    /\ UNCHANGED <<rowVars, toggle, team, adminVars>>
-----------------------------------------------------------------------------
(***************************************************************************)
(* Admins.                                                                 *)
(***************************************************************************)
\* Mutant: one too many
RoomForOneMore == Cardinality(Admins) <= MaxAdmins

\* "full"
RoomForAdmin == Cardinality(Admins) < MaxAdmins

\* add_account_admin up to its insert; it may find that nothing is to be done.
AddStarts(p, t, by) ==
    tx' = IF ~deleted /\ t # owner /\ t \notin Admins /\ RoomForAdmin
          THEN [tx EXCEPT ![p] = [to |-> t, by |-> by]] ELSE tx

\* Its insert and commit, which fail for a pair that another process has inserted.
AddCommits(p) ==
    /\ tx[p] # None
    /\ \/ tx[p].to \notin Admins /\ admins' = [admins EXCEPT ![tx[p].to] = tx[p].by]
       \/ UNCHANGED admins
    /\ tx' = [tx EXCEPT ![p] = None]
    /\ UNCHANGED <<waits, planVars, rowVars, toggle, teamVars, looking>>

Dismisses(t) == admins' = [admins EXCEPT ![t] = None]

\* Mutant: managers may, as they may everything else
OwnerOrManager(u) == Owns(u)

\* user_is_account_owner
MayAppoint(u) == IsOwner(u)

\* start_add_account_admin
AsksAdmin(u) ==
    /\ MayAppoint(u) /\ Asks(u, "admin")
    /\ UNCHANGED <<planVars, rightsVars>>

\* cancel_add_account_admin
CancelsAdmin(u) == Drops(u, "admin") /\ UNCHANGED <<planVars, rightsVars>>

\* receive_account_admin_text: "cancel" or no owner any more; an id; a @name, which is
\* looked up while the flag stays; or a name that cannot be one
ReadsAdmin(u) ==
    /\ \/ Reads(u, "admin", FALSE) /\ UNCHANGED <<tx, looking>>
       \/ /\ MayAppoint(u) /\ Reads(u, "admin", FALSE)
          /\ \E t \in Person : AddStarts("bot", t, u)
          /\ UNCHANGED looking
       \/ /\ MayAppoint(u) /\ Reads(u, "admin", TRUE)
          /\ \/ looking' = looking \cup {u}
             \/ UNCHANGED looking
          /\ UNCHANGED tx
    /\ UNCHANGED <<planVars, rowVars, toggle, teamVars, admins>>

\* get_chat answered, and the owner is not looked at again.
LookedUp(u) ==
    /\ u \in looking /\ looking' = looking \ {u}
    /\ \/ UNCHANGED <<waits, tx>>
       \/ Drops(u, "admin") /\ \E t \in Person : AddStarts("bot", t, u)
    /\ UNCHANGED <<planVars, rowVars, toggle, teamVars, admins>>

\* remove_listed_admin
RemovesListed(u, t) ==
    /\ MayAppoint(u) /\ Dismisses(t)
    /\ UNCHANGED <<waits, planVars, rowVars, toggle, teamVars, tx, looking>>

\* remove_panel_admin
RemovesInPanel(x, t) ==
    /\ PanelActor(x) /\ Dismisses(t)
    /\ UNCHANGED <<waits, planVars, rowVars, toggle, teamVars, tx, looking>>
-----------------------------------------------------------------------------
(***************************************************************************)
(* Plugins.                                                                *)
(***************************************************************************)
Stored(g) == IF toggle[g] = "unset" THEN g \in DefaultOn ELSE toggle[g] = "on"

InPlan(g) == plan[owner] # None /\ g \in allowed[plan[owner]]

\* plugin_is_enabled
Enabled(g) == ~deleted /\ InPlan(g) /\ Stored(g)

Turned(g) == toggle' = [toggle EXCEPT ![g] = IF Stored(g) THEN "off" ELSE "on"]

\* set_account_plugin
SetAccountPlugin(g) ==
    /\ ~deleted /\ InPlan(g) /\ Turned(g)
    /\ UNCHANGED <<waits, planVars, rowVars, teamVars, adminVars>>

\* toggle_account_plugin
MenuSetsPlugin(u, g) == Owns(u) /\ SetAccountPlugin(g)

\* on_panel_callback
PanelSetsPlugin(x, g) == PanelActor(x) /\ SetAccountPlugin(g)

\* toggle_account_status and toggle_code_monitor have buttons of their own, which ask for
\* no plan
TogglesColumn(u, g) ==
    /\ g \in Columns /\ Owns(u) /\ Turned(g)
    /\ UNCHANGED <<waits, planVars, rowVars, teamVars, adminVars>>

\* edit_plugin_setting asks for a value
AsksSetting(u) ==
    /\ Owns(u)
    /\ Asks(u, "setting")
    /\ UNCHANGED <<planVars, rightsVars>>

\* receive_plugin_setting; a value that is not valid is asked for again
ReadsSetting(u) ==
    /\ \E again \in BOOLEAN : Reads(u, "setting", again) /\ (again => Owns(u))
    /\ UNCHANGED <<planVars, rightsVars>>
-----------------------------------------------------------------------------
\* The control bot and its panel, between two calls to the database
RowStep ==
    \E u \in User : \/ \E v \in User : TransferAccount(u, v)
                    \/ DeleteAccount(u) \/ ReviveAccount(u)

TeamStep ==
    \E u \in User : \/ AsksManager(u) \/ CancelsManager(u) \/ ReadsManager(u)
                    \/ RotatesLink(u)
                    \/ \E m \in User : RemovesManager(u, m)

LinkStep(u) == \E o \in User, link \in 0..MaxLinks : OpensLink(u, o, link)

AdminStep ==
    \/ \E u \in User : AsksAdmin(u) \/ CancelsAdmin(u) \/ ReadsAdmin(u) \/ LookedUp(u)
    \/ \E u \in User, t \in Person : RemovesListed(u, t)
    \/ \E x, t \in Person : RemovesInPanel(x, t)

PluginStep ==
    \/ \E u \in User, g \in Plugin : MenuSetsPlugin(u, g) \/ TogglesColumn(u, g)
    \/ \E x \in Person, g \in Plugin : PanelSetsPlugin(x, g)
    \/ \E u \in User : AsksSetting(u) \/ ReadsSetting(u)
=============================================================================
