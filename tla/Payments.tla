------------------------------- MODULE Payments -------------------------------
(***************************************************************************)
(* payments.py, user_handlers.py (invoices, pre-checkout, successful       *)
(* payment) and main.crypto_webhook_handler: plans bought with Telegram    *)
(* Stars or through Crypto Pay.                                            *)
(***************************************************************************)
EXTENDS Subscriptions

CONSTANTS Invoices,
          Prices,        \* the prices an admin may set
          MaxEdits,      \* bound: edits of the offers
          MaxGrants,     \* bound: deliveries of one webhook that grant
          DbFails        \* whether a database function may fail

ASSUME PaymentsAssumption == MaxEdits \in Nat /\ MaxGrants \in Nat \ {0}

VARIABLES
    offer,      \* plan -> its price and whether it is active
    edits,      \* edits of the offers so far
    invoice,    \* invoice -> what it is for and how far it got, or None
    changed     \* history: invoices whose plan was edited after the pre-checkout's answer

payVars == <<offer, edits, invoice, changed>>

Phase == {"open", "approved", "charged", "answered", "refused", "dropped"}

InvoiceRow == [kind : {"stars", "crypto"}, user : Users, plan : Plans, amount : Prices,
               phase : Phase,
               grants : 0..MaxGrants]

PayTypeOK == /\ offer \in [Plans -> [price : Prices, active : BOOLEAN]]
             /\ edits \in 0..MaxEdits
             /\ invoice \in [Invoices -> InvoiceRow \cup {None}]
             /\ changed \subseteq Invoices

PayInit == /\ offer \in [Plans -> [price : Prices, active : {TRUE}]]
           /\ edits = 0
           /\ invoice = [i \in Invoices |-> None]
           /\ changed = {}

\* update_plan (is_active or the price)
UpdatePlan(p, price, on) ==
    /\ edits < MaxEdits /\ offer[p] # [price |-> price, active |-> on]
    /\ offer' = [offer EXCEPT ![p] = [price |-> price, active |-> on]]
    /\ edits' = edits + 1
    /\ changed' = changed \cup {i \in Invoices : invoice[i] # None /\ invoice[i].plan = p}
    /\ UNCHANGED <<subVars, invoice>>

\* pay_with_stars_callback, pay_with_crypto_callback: the plan's button may be old
OpenInvoice(i, kind, u, p) ==
    /\ invoice[i] = None /\ u \in known
    /\ invoice' = [invoice EXCEPT ![i] = [kind |-> kind, user |-> u, plan |-> p,
                       amount |-> offer[p].price, phase |-> "open", grants |-> 0]]
    /\ UNCHANGED <<subVars, offer, edits, changed>>

\* validate_stars_payment
Valid(i) == /\ invoice[i].user \in known
            /\ offer[invoice[i].plan].active
            /\ invoice[i].amount = offer[invoice[i].plan].price

To(i, phase) == invoice' = [invoice EXCEPT ![i].phase = phase]

In(i, kind, phase) == invoice[i] # None /\ invoice[i].kind = kind /\ invoice[i].phase = phase

Approved(i) == /\ In(i, "stars", "open")
               /\ To(i, "approved") /\ changed' = changed \ {i}
               /\ UNCHANGED <<subVars, offer, edits>>

\* A bug to be caught: the pre-checkout approves every payment
PreCheckoutUnchecked(i) == Approved(i)

\* precheckout_callback; a declined payment may be tried again
PreCheckout(i) == Approved(i) /\ Valid(i)

\* The payment service takes the money
Charge(i) == /\ In(i, "stars", "approved") \/ In(i, "crypto", "open")
             /\ To(i, "charged")
             /\ UNCHANGED <<subVars, offer, edits, changed>>

Granted(i) ==
    /\ GrantPaid(invoice[i].user, invoice[i].plan)
    /\ UNCHANGED <<now, known, codes, audit, redeem, offer, edits, changed>>

\* successful_payment_callback validates again.  The money has been taken: a plan
\* that is not what was paid for is refused, and a failing database, be it while
\* validating or while granting, leaves the user without it too.
SuccessfulPayment(i) ==
    /\ In(i, "stars", "charged")
    /\ \/ /\ Valid(i) /\ Granted(i)
          /\ invoice' = [invoice EXCEPT ![i].phase = "answered", ![i].grants = @ + 1]
       \/ /\ ~Valid(i) /\ To(i, "refused")
          /\ UNCHANGED <<subVars, offer, edits, changed>>
       \/ /\ DbFails /\ To(i, "dropped")
          /\ UNCHANGED <<subVars, offer, edits, changed>>

\* crypto_webhook_handler: the grant, then the message to the user, whose
\* failure answers 500, and the service delivers the webhook again
CryptoWebhook(i) ==
    /\ In(i, "crypto", "charged")
    /\ \/ /\ invoice[i].grants < MaxGrants /\ Granted(i)
          /\ \E phase \in {"answered", "charged"} :
                 invoice' = [invoice EXCEPT ![i].phase = phase, ![i].grants = @ + 1]
       \/ /\ DbFails                 \* logged, and answered with 200
          /\ To(i, "dropped")
          /\ UNCHANGED <<subVars, offer, edits, changed>>

PayNext ==
    \/ \E p \in Plans, price \in Prices, on \in BOOLEAN : UpdatePlan(p, price, on)
    \/ \E i \in Invoices :
           \/ \E k \in {"stars", "crypto"}, u \in Users, p \in Plans : OpenInvoice(i, k, u, p)
           \/ PreCheckout(i) \/ Charge(i) \/ SuccessfulPayment(i) \/ CryptoWebhook(i)
=============================================================================
