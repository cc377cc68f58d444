------------------------------- MODULE Billing -------------------------------
(***************************************************************************)
(* Everything in the bot that writes subscriptions: the admins'            *)
(* conversations, the activation codes and the payments.                   *)
(***************************************************************************)
EXTENDS GrantConversation, CodeConversation, Payments

vars == <<subVars, convVars, batchVars, payVars>>

Init == SubInit /\ ConvInit /\ BatchInit /\ PayInit

Next == \/ SubNext /\ UNCHANGED <<convVars, batchVars, payVars>>
        \/ ConvNext /\ UNCHANGED <<batchVars, payVars>>
        \/ BatchNext /\ UNCHANGED <<convVars, payVars>>
        \/ PayNext /\ UNCHANGED <<convVars, batchVars>>

Spec == Init /\ [][Next]_vars

TypeOK == SubTypeOK /\ ConvTypeOK /\ BatchTypeOK /\ PayTypeOK

-----------------------------------------------------------------------------
\* What a user has shrinks only by an admin's decision to replace or to end it,
\* or by buying a plan: never by a grant, an extension or a code
\* (subscription_grants.py:789, admin_grants.py:508).
OnlyTheseShorten ==
    [][\A u \in Users : Entitlement(u)' < Entitlement(u) =>
          \/ RevokeSubscription(u)
          \/ \E a \in Admins : conv[a].target = u /\ ReceiveMode(a, "replace")
          \/ \E i \in Invoices : invoice[i] # None /\ invoice[i].user = u
                                 /\ invoice'[i].grants > invoice[i].grants]_vars

\* "Payload, payer, plan, currency (XTR), and star amount are checked again before a
\* subscription is granted" (README.md:83): money a user has paid in Stars is refused
\* only when an admin edited the plan between the pre-checkout's answer and the
\* payment, so that the invoice of an old price is declined before it costs anything.
RefusedOnlyForAnEdit ==
    \A i \in Invoices :
        invoice[i] # None /\ invoice[i].phase = "refused" => i \in changed
=============================================================================
