---------------------------- MODULE PlanEditing ----------------------------
(***************************************************************************)
(* The bot administrators' side of the plans (admin_handlers.py,           *)
(* plugin_menu.py, plan_grants.py): creating a plan in a conversation of   *)
(* six questions, editing one field of a plan, and the plugins a plan      *)
(* allows.  A handler changes state in one go.                             *)
(***************************************************************************)
EXTENDS PendingInputs

CONSTANTS Plan, Plugin,
          Name, Limit       \* values typed for a name and for a number

CONSTANT Admin              \* ADMIN_IDS

ASSUME AdminAssumption == Admin \subseteq User
ASSUME PlanNoneAssumption == None \notin Plan
ASSUME TypedAssumption == Name # {} /\ Limit # {}

\* PLAN_NAME .. PLAN_LIMIT, the questions of a new plan: a name and five numbers, the
\* last of which is the daily limit
Questions == 6

\* The fields of edit_plan_menu_handler's buttons, two for all of them; the third is what
\* edit_field_start makes of the button "Toggle Active/Inactive"
Field == {"name", "daily_group_limit", "toggle_active"}

VARIABLES
    plans,      \* plan -> its name and limit; None before it is created
    allowed,    \* plan_plugins: plan -> the plugins it allows
    step,       \* admin -> the question of the conversation, 7 to confirm, 0 for none
    draft,      \* admin -> user_data["new_plan"]
    editing,    \* admin -> user_data["edit_plan_id"]
    field,      \* admin -> user_data["edit_field"]
    shown       \* the admins who have the fields of a plan on their screen

tableVars == <<plans, allowed>>
dialogVars == <<step, draft, editing, field, shown>>
planVars == <<tableVars, dialogVars>>

Draft == [name : Name \cup {None}, limit : Limit \cup {None}]
NoDraft == [name |-> None, limit |-> None]

PlanTypeOK ==
    /\ plans \in [Plan -> [name : Name, limit : Limit] \cup {None}]
    /\ allowed \in [Plan -> SUBSET Plugin]
    /\ step \in [Admin -> 0..7] /\ draft \in [Admin -> Draft \cup {None}]
    /\ \A a \in Admin : "plan" \in waits[a] <=> step[a] \in 1..Questions
    /\ editing \in [Admin -> Plan \cup {None}] /\ field \in [Admin -> Field \cup {None}]
    /\ shown \subseteq Admin

Existing == {p \in Plan : plans[p] # None}

PlanInit ==
    /\ plans = [p \in Plan |-> IF p = CHOOSE q \in Plan : TRUE
                               THEN CHOOSE r \in [name : Name, limit : Limit] : TRUE
                               ELSE None]
    /\ allowed = [p \in Plan |-> IF plans[p] = None THEN {} ELSE Plugin]
    /\ step = [a \in Admin |-> 0] /\ draft = [a \in Admin |-> None]
    /\ editing = [a \in Admin |-> None] /\ field = [a \in Admin |-> None]
    /\ shown = {}
-----------------------------------------------------------------------------
(***************************************************************************)
(* Creating a plan.                                                        *)
(***************************************************************************)
CreateStarts(a) ==
    /\ step[a] = 0
    /\ step' = [step EXCEPT ![a] = 1]
    /\ draft' = [draft EXCEPT ![a] = NoDraft]
    /\ Asks(a, "plan")
    /\ UNCHANGED <<tableVars, editing, field, shown>>

\* What the answers to question q leave in the draft
Filled(d, q) == {e \in Draft : /\ q # 1 => e.name = d.name
                               /\ q # Questions => e.limit = d.limit
                               /\ q = 1 => e.name # None
                               /\ q = Questions => e.limit # None}

\* Mutant: user_data.setdefault("new_plan", {}), as a cautious handler would
Anyway(a) == IF draft[a] = None THEN NoDraft ELSE draft[a]

\* user_data["new_plan"] raises when it is missing, and the conversation stays where it is
NewPlan(a) == draft[a]

\* plan_create_receive_*: a name, a number, or what is no number and is asked for again
CreateReads(a) ==
    /\ step[a] \in 1..Questions
    /\ \/ /\ NewPlan(a) # None
          /\ Reads(a, "plan", step[a] < Questions)
          /\ step' = [step EXCEPT ![a] = @ + 1]
          /\ \E d \in Filled(NewPlan(a), step[a]) : draft' = [draft EXCEPT ![a] = d]
       \/ /\ step[a] # 1 \/ NewPlan(a) = None
          /\ Reads(a, "plan", TRUE)
          /\ UNCHANGED <<step, draft>>
    /\ UNCHANGED <<tableVars, editing, field, shown>>

Named(n) == {p \in Existing : plans[p].name = n}

\* add_plan refuses a name that is taken; a new plan allows every plugin there is.
AddPlan(d) ==
    /\ Named(d.name) = {}
    /\ \E p \in Plan \ Existing : /\ plans' = [plans EXCEPT ![p] = d]
                                  /\ allowed' = [allowed EXCEPT ![p] = Plugin]

\* plan_create_save
CreateSaves(a) ==
    /\ step[a] = 7
    /\ IF draft[a] = None
       THEN UNCHANGED <<step, draft, tableVars>>
       ELSE /\ step' = [step EXCEPT ![a] = 0]
            /\ draft' = [draft EXCEPT ![a] = None]
            /\ AddPlan(draft[a]) \/ UNCHANGED tableVars
    /\ UNCHANGED <<waits, editing, field, shown>>

\* Mutant: the handler does not return END
CreateStays(a) ==
    /\ step[a] # 0
    /\ draft' = [draft EXCEPT ![a] = None] /\ step' = [step EXCEPT ![a] = 0]
    /\ UNCHANGED <<waits, tableVars, editing, field, shown>>

\* plan_create_cancel, the button, and conv_cancel, the command
CreateEnds(a) ==
    /\ step[a] # 0
    /\ step' = [step EXCEPT ![a] = 0]
    /\ draft' = [draft EXCEPT ![a] = None]
    /\ Drops(a, "plan")
    /\ UNCHANGED <<tableVars, editing, field, shown>>
-----------------------------------------------------------------------------
(***************************************************************************)
(* Editing a plan.                                                         *)
(***************************************************************************)
\* edit_plan_menu_handler: a plan that user_data remembers goes before the button's
Opens(a, p) == IF editing[a] # None THEN editing[a] ELSE p

EditMenu(a, p) ==
    /\ p \in Existing
    /\ editing' = [editing EXCEPT ![a] = Opens(a, p)]
    /\ shown' = shown \cup {a}
    /\ UNCHANGED <<waits, tableVars, step, draft, field>>

\* edit_field_start; the conversation has no second entry
EditStarts(a, f) ==
    /\ a \in shown /\ "field" \notin waits[a]
    /\ field' = [field EXCEPT ![a] = f]
    /\ Asks(a, "field")
    /\ UNCHANGED <<tableVars, step, draft, editing, shown>>

\* update_plan: a name taken and a field that is not in its list change nothing
Updates(p, f, v) ==
    /\ f # "toggle_active"
    /\ f = "name" => v \in Name /\ Named(v) \subseteq {p}
    /\ f = "daily_group_limit" => v \in Limit
    /\ plans' = IF f = "name" THEN [plans EXCEPT ![p].name = v]
                              ELSE [plans EXCEPT ![p].limit = v]

\* edit_field_receive_value
EditReads(a) ==
    LET p == editing[a]
    IN /\ \/ /\ field[a] = "daily_group_limit" /\ p # None     \* not a number
             /\ Reads(a, "field", TRUE)
             /\ UNCHANGED <<plans, field>>
          \/ /\ Reads(a, "field", FALSE)
             /\ field' = IF p = None THEN field ELSE [field EXCEPT ![a] = None]
             /\ \/ UNCHANGED plans
                \/ /\ p # None /\ field[a] # None
                   /\ \E v \in Name \cup Limit : Updates(p, field[a], v)
       /\ UNCHANGED <<allowed, step, draft, editing, shown>>

\* edit_conv_cancel
EditEnds(a) ==
    /\ Cancels(a, "field") /\ step[a] = 0
    /\ field' = [field EXCEPT ![a] = None]
    /\ editing' = [editing EXCEPT ![a] = None]
    /\ UNCHANGED <<tableVars, step, draft, shown>>

\* edit_content_start to edit_content_cancel: what the pages say is left out
EditsContent(a) ==
    /\ \/ "content" \notin waits[a] /\ Asks(a, "content")
       \/ Reads(a, "content", FALSE)
       \/ Cancels(a, "content") /\ step[a] = 0
    /\ UNCHANGED planVars
-----------------------------------------------------------------------------
SetPlanPluginAllowed(p, g, on) ==
    allowed' = [allowed EXCEPT ![p] = IF on THEN @ \cup {g} ELSE @ \ {g}]

\* toggle_plan_plugin reads what the plan allows and writes the opposite
TogglePlanPlugin(p, g) ==
    /\ p \in Existing
    /\ SetPlanPluginAllowed(p, g, g \notin allowed[p])
    /\ UNCHANGED <<waits, plans, dialogVars>>

\* grant_named_plugins and revoke_named_plugins, in the migrations
MigratePlugins(names) ==
    /\ \/ allowed' = [p \in Plan |-> IF p \in Existing THEN allowed[p] \cup names ELSE {}]
       \/ allowed' = [p \in Plan |-> allowed[p] \ names]
    /\ UNCHANGED <<waits, plans, dialogVars>>

\* user_data.clear() of a start_handler with a link
Forgets(u) == IF u \in Admin
              THEN /\ draft' = [draft EXCEPT ![u] = None]
                   /\ editing' = [editing EXCEPT ![u] = None]
                   /\ field' = [field EXCEPT ![u] = None]
                   /\ UNCHANGED <<tableVars, step, shown>>
              ELSE UNCHANGED planVars

PlanStep ==
    \/ \E a \in Admin : \/ CreateStarts(a) \/ CreateReads(a)
                        \/ CreateSaves(a) \/ CreateEnds(a)
                        \/ EditReads(a) \/ EditEnds(a) \/ EditsContent(a)
                        \/ \E p \in Plan : EditMenu(a, p)
                        \/ \E f \in Field : EditStarts(a, f)
-----------------------------------------------------------------------------
\* The draft that is shown for confirmation and saved has every answer, even when
\* user_data was cleared in the middle (admin_handlers.py:769, :801).
DraftsAreComplete ==
    \A a \in Admin : step[a] = 7 /\ draft[a] # None => /\ draft[a].name # None
                                                       /\ draft[a].limit # None
=============================================================================
