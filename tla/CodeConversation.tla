-------------------------- MODULE CodeConversation --------------------------
(***************************************************************************)
(* admin_grants.py: the conversation in which an admin makes activation    *)
(* codes, lists and revokes them.  As in GrantConversation the state       *)
(* changes when a handler returns: while _issue asks Telegram for the      *)
(* bot's name, the same button makes another batch.                        *)
(***************************************************************************)
EXTENDS Subscriptions

CONSTANTS Issuers,
          MaxIssuing    \* bound: batches of one admin whose links are not out

ASSUME IssuingAssumption == MaxIssuing \in Nat /\ IsFiniteSet(Codes)

VARIABLES
    batch,     \* issuer -> state of the conversation and the _CODE_KEYS in user_data
    naming,    \* issuer -> how many _issue wait for the bot's name
    showing,   \* issuer -> how many _issue show their links
    named      \* bot_data holds the bot's name

issueVars == <<naming, showing, named>>
batchVars == <<batch, issueVars>>

NoBatch == [step |-> "off", plan |-> None, days |-> 0, count |-> 0]

BatchTypeOK ==
    /\ batch \in [Issuers -> [step : {"off", "menu", "plan", "days", "count", "expiry"},
                              plan : Plans \cup {None}, days : Days \cup {0},
                              count : 0..Cardinality(Codes)]]
    /\ {naming, showing} \subseteq [Issuers -> 0..MaxIssuing] /\ named \in BOOLEAN

BatchInit == /\ batch = [a \in Issuers |-> NoBatch]
             /\ naming = [a \in Issuers |-> 0] /\ showing = naming /\ named = FALSE

TurnTo(a, b) == /\ batch' = [batch EXCEPT ![a] = b]
                /\ UNCHANGED <<subVars, issueVars>>

Step(a, step) == [batch[a] EXCEPT !.step = step]

\* codes_open, an entry point from any state
CodesOpen(a) == TurnTo(a, [NoBatch EXCEPT !.step = "menu"])

\* codes_show_plans
CodesShowPlans(a) == batch[a].step = "menu" /\ TurnTo(a, Step(a, "plan"))

\* codes_receive_plan
CodesReceivePlan(a, p) == /\ batch[a].step = "plan"
                          /\ TurnTo(a, [Step(a, "days") EXCEPT !.plan = p])

\* codes_receive_days, codes_receive_custom_days
CodesReceiveDays(a, d) == /\ batch[a].step = "days"
                          /\ TurnTo(a, [Step(a, "count") EXCEPT !.days = d])

\* codes_receive_count, codes_receive_custom_count
CodesReceiveCount(a, n) == /\ batch[a].step = "count"
                           /\ TurnTo(a, [Step(a, "expiry") EXCEPT !.count = n])

KeysThere(a) == batch[a].plan # None /\ batch[a].days # 0 /\ batch[a].count # 0

Cleared(a) == [NoBatch EXCEPT !.step = batch[a].step]

\* codes_receive_expiry, codes_receive_custom_expiry: _issue makes the codes, and clears
\* the keys at once if it knows the bot's name.
CodesIssue(a, S, expires) ==
    /\ batch[a].step = "expiry" /\ KeysThere(a) /\ naming[a] + showing[a] < MaxIssuing
    /\ Cardinality(S) = batch[a].count
    /\ IssueCodes(S, batch[a].plan, batch[a].days, expires)
    /\ IF named THEN /\ batch' = [batch EXCEPT ![a] = Cleared(a)]
                     /\ showing' = [showing EXCEPT ![a] = @ + 1]
                     /\ UNCHANGED naming
                ELSE naming' = [naming EXCEPT ![a] = @ + 1] /\ UNCHANGED <<batch, showing>>
    /\ UNCHANGED named

\* get_me has answered: the keys of the conversation the admin is in by now are cleared.
NameKnown(a) == /\ naming[a] > 0
                /\ naming' = [naming EXCEPT ![a] = @ - 1]
                /\ showing' = [showing EXCEPT ![a] = @ + 1]
                /\ named' = TRUE
                /\ batch' = [batch EXCEPT ![a] = Cleared(a)]
                /\ UNCHANGED subVars

\* Without the keys the step has expired; with them the batch may be refused.
CodesIssueFails(a) == batch[a].step = "expiry" /\ TurnTo(a, NoBatch)

\* The links are out: the conversation ends, whichever one the admin is in by now.
CodesIssued(a) == /\ showing[a] > 0
                  /\ showing' = [showing EXCEPT ![a] = @ - 1]
                  /\ batch' = [batch EXCEPT ![a].step = "off"]
                  /\ UNCHANGED <<subVars, naming, named>>

\* get_me or a message raises: the codes exist, the conversation stays where it is.
LinksLost(a) == /\ \/ naming[a] > 0 /\ naming' = [naming EXCEPT ![a] = @ - 1]
                      /\ UNCHANGED showing
                   \/ showing[a] > 0 /\ showing' = [showing EXCEPT ![a] = @ - 1]
                      /\ UNCHANGED naming
                /\ UNCHANGED <<subVars, batch, named>>

\* bot_username: a link to share makes the bot ask for its name as well.
NamedElsewhere == ~named /\ named' = TRUE /\ UNCHANGED <<subVars, batch, naming, showing>>

\* codes_cancel
CodesCancel(a) == batch[a].step # "off" /\ TurnTo(a, NoBatch)

\* codes_list, codes_view and codes_revoke_ask: an open conversation is at its menu again,
\* with the keys it had.
Menu(a) == IF batch[a].step = "off" THEN batch[a] ELSE Step(a, "menu")

CodesBrowse(a) == TurnTo(a, Menu(a))

\* codes_revoke_yes
CodesRevoke(a, c) == /\ RevokeCode(c)
                     /\ batch' = [batch EXCEPT ![a] = Menu(a)] /\ UNCHANGED issueVars

BatchNext ==
    \/ NamedElsewhere
    \/ \E a \in Issuers :
        \/ CodesOpen(a) \/ CodesShowPlans(a) \/ CodesIssueFails(a) \/ NameKnown(a)
        \/ CodesIssued(a) \/ LinksLost(a) \/ CodesCancel(a) \/ CodesBrowse(a)
        \/ \E p \in Plans : CodesReceivePlan(a, p)
        \/ \E d \in Days : CodesReceiveDays(a, d)
        \/ \E n \in 1..Cardinality(Codes) : CodesReceiveCount(a, n)
        \/ \E S \in SUBSET Codes, e \in 1..MaxNow \cup {Never} : CodesIssue(a, S, e)
        \/ \E c \in Codes : CodesRevoke(a, c)
=============================================================================
