-------------------------- MODULE GrantConversation --------------------------
(***************************************************************************)
(* admin_grants.py: the conversation in which an admin grants a plan, and  *)
(* the buttons that end a subscription.  Updates are handled concurrently  *)
(* (main.py:167), and the state of a ConversationHandler changes when the  *)
(* handler returns: while _finish_grant waits for its notice to be sent,   *)
(* the conversation is still where it was and takes another tap.           *)
(***************************************************************************)
EXTENDS Subscriptions

CONSTANTS Admins,
          MaxSending    \* bound: confirmations of one admin waiting for their notice

ASSUME SendingAssumption == MaxSending \in Nat

VARIABLES
    conv,      \* admin -> state of the conversation and the keys in user_data
    sending    \* admin -> how many _finish_grant wait in _notify

convVars == <<conv, sending>>

Closed == [step |-> "off", target |-> None, plan |-> None, days |-> 0]

ConvTypeOK ==
    /\ conv \in [Admins -> [step : {"off", "menu", "user", "plan", "days", "mode"},
                            target : Users \cup {None}, plan : Plans \cup {None},
                            days : Days \cup {0}]]
    /\ sending \in [Admins -> 0..MaxSending]

ConvInit == /\ conv = [a \in Admins |-> Closed]
            /\ sending = [a \in Admins |-> 0]

GoTo(a, c) == /\ conv' = [conv EXCEPT ![a] = c]
              /\ UNCHANGED <<subVars, sending>>

\* grant_open, an entry point from any state
GrantOpen(a) == GoTo(a, [Closed EXCEPT !.step = "menu"])

\* grant_receive_lookup, grant_pick_user: _show_target_card
PickUser(a, u) == /\ conv[a].step = "menu"
                  /\ GoTo(a, [conv[a] EXCEPT !.step = "user", !.target = u])

\* grant_show_plans, from the card or, for another user, as an entry point
ShowPlans(a) == /\ conv[a].step = "user"
                /\ GoTo(a, [conv[a] EXCEPT !.step = "plan"])
ShowPlansFor(a, u) == GoTo(a, [conv[a] EXCEPT !.step = "plan", !.target = u])

\* grant_receive_plan
ReceivePlan(a, p) == /\ conv[a].step = "plan"
                     /\ GoTo(a, [conv[a] EXCEPT !.step = "days", !.plan = p])

\* The card that offers to extend or to replace
ModeCard(c) == [c EXCEPT !.step = "mode"]

\* _finish_grant: without the keys the step has expired; if the user has got a
\* subscription meanwhile the card is shown; else the grant is committed and
\* the notice is being sent
FinishGrant(a, c, mode) ==
    IF None \in {c.target, c.plan} \/ c.days = 0
    THEN GoTo(a, Closed)
    ELSE \/ /\ MustChooseMode(c.target, mode)
            /\ GoTo(a, ModeCard(c))
         \/ /\ sending[a] < MaxSending
            /\ ApplyGrant(c.target, c.plan, c.days, mode)
            /\ conv' = [conv EXCEPT ![a] = c]
            /\ sending' = [sending EXCEPT ![a] = @ + 1]
            /\ UNCHANGED <<now, codes, audit, redeem>>

\* grant_receive_days, grant_receive_custom_days: _after_days
ReceiveDays(a, d) ==
    LET c == [conv[a] EXCEPT !.days = d]
    IN  /\ conv[a].step = "days"
        /\ IF None \in {c.target, c.plan} THEN GoTo(a, [c EXCEPT !.step = "off", !.days = 0])
           ELSE IF HasCurrent(active[c.target], now) THEN GoTo(a, ModeCard(c))
           ELSE FinishGrant(a, c, "grant")

\* grant_receive_mode
ReceiveMode(a, mode) == /\ conv[a].step = "mode"
                        /\ FinishGrant(a, conv[a], mode)

\* A bug to be caught: an earlier confirmation ends twice
GrantSentAgain(a) == /\ conv[a].step = "off" \/ sending[a] > 0
                     /\ sending' = [sending EXCEPT ![a] = @ - 1]
                     /\ conv' = [conv EXCEPT ![a] = Closed]
                     /\ UNCHANGED subVars

\* The notice is out: _finish_grant clears the keys and ends the conversation,
\* whichever one the admin is in by now
GrantSent(a) == /\ sending[a] > 0
                /\ sending' = [sending EXCEPT ![a] = @ - 1]
                /\ conv' = [conv EXCEPT ![a] = Closed]
                /\ UNCHANGED subVars

GrantCancel(a) == conv[a].step # "off" /\ GoTo(a, Closed)

ConvNext ==
    \E a \in Admins :
        \/ GrantOpen(a) \/ ShowPlans(a) \/ GrantSent(a) \/ GrantCancel(a)
        \/ \E u \in Users : PickUser(a, u) \/ ShowPlansFor(a, u)
        \/ \E p \in Plans : ReceivePlan(a, p)
        \/ \E d \in Days : ReceiveDays(a, d)
        \/ \E m \in {"extend", "replace"} : ReceiveMode(a, m)
=============================================================================
