--------------------------- MODULE AccountAccess ---------------------------
(***************************************************************************)
(* The control bot and the worker over one account: the plans and the      *)
(* questions of the bot (PlanEditing, PendingInputs), the rights           *)
(* (AccountRights), the cloud password (TwoStep) and the commands           *)
(* (CommandGate).                                                          *)
(***************************************************************************)
EXTENDS CommandGate, TwoStep

\* bound: which of the system's parts move together in a behaviour
CONSTANT Scenes

Part == {"plans", "row", "subscriptions", "team", "links", "admins", "plugins",
         "commands", "clock", "twostep"}

ASSUME ScenesAssumption == Scenes \subseteq SUBSET Part

VARIABLE scene

vars == <<waits, planVars, rightsVars, gateVars, twoStepVars, scene>>

TypeOK == /\ InputTypeOK /\ PlanTypeOK /\ RightsTypeOK /\ GateTypeOK /\ TwoStepTypeOK
          /\ scene \in Scenes

Init == /\ InputInit /\ PlanInit /\ RightsInit /\ GateInit /\ TwoStepInit
        /\ scene \in Scenes

\* A step of the control bot, which its database calls hold up
BotStep ==
    /\ Free("bot")
    /\ \/ "plans" \in scene /\ PlanStep /\ UNCHANGED rightsVars
       \/ "row" \in scene /\ RowStep /\ UNCHANGED <<waits, planVars>>
       \/ /\ "subscriptions" \in scene
          /\ \E u \in User : SubscriptionChanges(u)
          /\ UNCHANGED <<waits, planVars>>
       \/ "team" \in scene /\ TeamStep
       \/ "admins" \in scene /\ AdminStep
       \/ "plugins" \in scene /\ PluginStep
       \/ /\ "plugins" \in scene
          /\ \/ \E p \in Plan, g \in Plugin : TogglePlanPlugin(p, g)
             \/ \E g \in Plugin : MigratePlugins({g})
          /\ UNCHANGED rightsVars

WorkerStep ==
    /\ "commands" \in scene
    /\ \E c \in Call : \/ \E x \in Person, k \in Command : Dispatches(c, x, k)
                       \/ Resolved(c)

\* A start link, which clears user_data
OpenStep == /\ "links" \in scene /\ Free("bot")
            /\ \E u \in User : LinkStep(u) /\ ForgetsTyped(u)

PasswordStep == /\ "twostep" \in scene /\ Free("bot")
                /\ TwoStepStep
                /\ UNCHANGED <<planVars, rightsVars>>

Next ==
    /\ \/ BotStep /\ UNCHANGED <<gateVars, twoStepVars>>
       \/ (OpenStep \/ PasswordStep) /\ UNCHANGED gateVars
       \/ WorkerStep /\ UNCHANGED twoStepVars
       \/ \E p \in Process : AddCommits(p) /\ UNCHANGED <<gateVars, twoStepVars>>
       \/ "clock" \in scene /\ Ticks /\ UNCHANGED twoStepVars
    /\ UNCHANGED scene

Spec == Init /\ [][Next]_vars
-----------------------------------------------------------------------------
\* What the conversations carry out was asked for in full: a plan is saved with all its
\* answers, a password set after it was typed twice.
AnswersAreComplete == DraftsAreComplete /\ PasswordsAreTypedTwice

\* "Only the account owner can manage command admins" (account_admin_menu.py:64): every
\* admin was added by the account itself or by someone who has owned it; a manager, an
\* admin or a user who was never its owner cannot, however the account moves about while
\* names are looked up.
AppointedByOwners == \A x \in Admins : admins[x] \in owned \cup {Self}

\* Two processes count before they insert, so the limit may be missed, by one.
AdminsNearlyWithinLimit == Cardinality(Admins) <= MaxAdmins + 1

\* "a fast sender cannot flood chat" (runtime/actors.py:114): in no window does a user
\* get more answers than the owner's limit and one notice, although windows of accepted
\* commands and of notices begin at different times and a user's role may change.
AnswersPerWindow == \A u \in User : Len(answered[u]) <= OwnerLimit + 1
=============================================================================
