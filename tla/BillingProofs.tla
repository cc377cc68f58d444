---------------------------- MODULE BillingProofs ----------------------------
(***************************************************************************)
(* The activation codes are vouchers, whatever admins, payments and other  *)
(* redeemers do meanwhile; type correctness of Billing; and what a user    *)
(* has grows by a redemption and shrinks only by a decision or a payment.  *)
(***************************************************************************)
EXTENDS Billing, FiniteSetTheorems, WellFoundedInduction, TLAPS

\* The shape of the rows the proofs are about
Shape ==
    /\ DOMAIN active = Users
    /\ codes \in [Codes -> CodeRow \cup {None}]
    /\ audit \in [Codes -> Seq(Users)]
    /\ redeem \in [Redeemers -> Claim \cup {None}]
    /\ \A r \in Redeemers : redeem[r] # None => codes[redeem[r].code] # None
    /\ now \in Nat

\* The inductive invariant
Inv == Shape /\ RedeemedWhileValid /\ SubscribersAreKnown

\* The invariant holds when the bot starts.
LEMMA InvInitially == ASSUME Init PROVE Inv
  BY NamesAssumption
  DEF Init, SubInit, Inv, Shape, RedeemedWhileValid, SubscribersAreKnown

\* A claim keeps it: the one step that writes codes, audit and subscription.
LEMMA ClaimKeepsInv ==
    ASSUME Inv, NEW r \in Redeemers, ClaimCode(r)
    PROVE  Inv'
<1> DEFINE q == redeem[r]
           row == codes[q.code]
<1>1. q \in Claim
  BY DEF ClaimCode, Inv, Shape
<1>2. Unused(row, q.at)
  BY DEF ClaimCode, Claimable
<1>3. PICK c \in Codes, u \in Users, t \in Nat : c = q.code /\ u = q.user /\ t = q.at
  BY <1>1 DEF Claim
<1>4. codes[c] \in CodeRow
  BY <1>1, <1>3, NamesAssumption DEF Inv, Shape
<1>5. codes' = [codes EXCEPT ![c] = [@ EXCEPT !.usedBy = u, !.usedAt = t]]
  BY <1>3 DEF ClaimCode
<1>6. codes'[c] \in CodeRow /\ codes'[c].usedBy = u /\ codes'[c].usedAt = t
      /\ codes'[c].revoked = codes[c].revoked /\ codes'[c].expires = codes[c].expires
  BY <1>4, <1>5 DEF CodeRow, Inv, Shape
<1>7. audit' = [audit EXCEPT ![c] = Append(@, u)]
  BY <1>3 DEF ClaimCode
<1>8. DOMAIN active' = Users /\ (\A v \in Users \ {u} : active'[v] = active[v])
  BY <1>3 DEF ClaimCode, Inv, Shape
<1>9. known' = known \cup {u} /\ redeem' = [redeem EXCEPT ![r] = None] /\ now' = now
  BY <1>3 DEF ClaimCode, Ensured
<1>10. \A d \in Codes \ {c} : codes'[d] = codes[d] /\ audit'[d] = audit[d]
  BY <1>5, <1>7 DEF Inv, Shape
<1>11. Shape'
  <2>1. codes' \in [Codes -> CodeRow \cup {None}] /\ \A d \in Codes : codes[d] # None => codes'[d] # None
    BY <1>5, <1>6, <1>10, NamesAssumption DEF Inv, Shape
  <2>2. audit' \in [Codes -> Seq(Users)]
    BY <1>7 DEF Inv, Shape
  <2>3. redeem' \in [Redeemers -> Claim \cup {None}]
        /\ \A k \in Redeemers : redeem'[k] # None => redeem'[k] = redeem[k] /\ redeem'[k] \in Claim
    BY <1>9 DEF Inv, Shape
  <2>4. \A k \in Redeemers : redeem'[k] # None => codes'[redeem'[k].code] # None
    BY <2>1, <2>3 DEF Inv, Shape, Claim
  <2> QED BY <2>1, <2>2, <2>3, <2>4, <1>8, <1>9 DEF Inv, Shape
<1>12. audit[c] = <<>>
  BY <1>2, <1>3, <1>4 DEF Inv, RedeemedWhileValid, Unused
<1>13. audit'[c] = <<u>> /\ u # None
  BY <1>7, <1>12, NamesAssumption DEF Inv, Shape
<1>14. ~codes[c].revoked /\ (codes[c].expires # Never => codes[c].expires > t)
  BY <1>2, <1>3 DEF Unused
<1>15. RedeemedWhileValid'
  <2>1. codes'[c] # None /\ (codes'[c].expires # Never => codes'[c].usedAt < codes'[c].expires)
        /\ ~codes'[c].revoked
    BY <1>4, <1>6, <1>14, NamesAssumption DEF CodeRow
  <2> QED BY <1>6, <1>10, <1>13, <2>1 DEF Inv, RedeemedWhileValid
<1>16. SubscribersAreKnown'
  BY <1>6, <1>8, <1>9, <1>10 DEF Inv, SubscribersAreKnown
<1> QED BY <1>11, <1>15, <1>16 DEF Inv

\* Issuing a batch keeps it: the new rows are blank and their codes were unknown.
LEMMA IssueKeepsInv ==
    ASSUME Inv, NEW S \in SUBSET Codes, NEW p \in Plans, NEW d \in Days,
           NEW e \in 1..MaxNow \cup {Never}, IssueCodes(S, p, d, e)
    PROVE  Inv'
<1>1. \A c \in Codes : codes'[c] = IF c \in S
         THEN [plan |-> p, days |-> d, expires |-> e,
               usedBy |-> None, usedAt |-> 0, revoked |-> FALSE] ELSE codes[c]
  BY DEF IssueCodes
<1>2. \A c \in S : codes[c] = None /\ audit[c] = <<>>
  BY DEF IssueCodes, Inv, RedeemedWhileValid
<1>3. UNCHANGED <<now, known, active, audit, redeem>>
  BY DEF IssueCodes
<1>4. [plan |-> p, days |-> d, expires |-> e, usedBy |-> None, usedAt |-> 0,
       revoked |-> FALSE] \in CodeRow
  BY BoundsAssumption DEF CodeRow
<1>5. \A c \in S : codes'[c] \in CodeRow /\ codes'[c] # None
                    /\ codes'[c].usedBy = None /\ ~codes'[c].revoked
  BY <1>1, <1>4, NamesAssumption
<1>6. Shape'
  <2>1. codes' \in [Codes -> CodeRow \cup {None}]
    BY <1>1, <1>5 DEF IssueCodes, Inv, Shape
  <2>2. \A c \in Codes : codes[c] # None => codes'[c] # None
    BY <1>1, <1>5
  <2>3. \A k \in Redeemers : redeem[k] # None => codes'[redeem[k].code] # None
    BY <2>2 DEF Inv, Shape, Claim
  <2> QED BY <2>1, <2>3, <1>3 DEF Inv, Shape
<1>7. RedeemedWhileValid'
  BY <1>1, <1>2, <1>3, <1>5 DEF Inv, RedeemedWhileValid
<1>8. SubscribersAreKnown'
  BY <1>1, <1>3, <1>5, NamesAssumption DEF Inv, SubscribersAreKnown
<1> QED BY <1>6, <1>7, <1>8 DEF Inv

\* Revoking a code keeps it: the code was not redeemed and stays so.
LEMMA RevokeKeepsInv ==
    ASSUME Inv, NEW c \in Codes, RevokeCode(c)
    PROVE  Inv'
<1>1. codes[c] \in CodeRow /\ codes[c].usedBy = None
  BY DEF RevokeCode, Inv, Shape
<1>2. codes' = [codes EXCEPT ![c] = [@ EXCEPT !.revoked = TRUE]]
      /\ UNCHANGED <<now, known, active, audit, redeem>>
  BY DEF RevokeCode
<1>3. codes'[c] \in CodeRow /\ codes'[c].usedBy = None
      /\ \A d \in Codes \ {c} : codes'[d] = codes[d]
  BY <1>1, <1>2 DEF CodeRow, Inv, Shape
<1>4. Shape'
  <2>1. codes' \in [Codes -> CodeRow \cup {None}]
    BY <1>2, <1>3 DEF Inv, Shape
  <2>2. \A d \in Codes : codes[d] # None => codes'[d] # None
    BY <1>3, NamesAssumption
  <2>3. \A k \in Redeemers : redeem[k] # None => codes'[redeem[k].code] # None
    BY <2>2 DEF Inv, Shape, Claim
  <2> QED BY <2>1, <2>3, <1>2 DEF Inv, Shape
<1>5. RedeemedWhileValid'
  BY <1>1, <1>2, <1>3, NamesAssumption DEF Inv, RedeemedWhileValid, RevokeCode
<1>6. SubscribersAreKnown'
  BY <1>1, <1>2, <1>3, NamesAssumption DEF Inv, SubscribersAreKnown
<1> QED BY <1>4, <1>5, <1>6 DEF Inv

\* So does every step that leaves the codes alone, looks at a code or writes
\* the subscription of a user who is known afterwards.
LEMMA OthersKeepInv ==
    ASSUME Inv, UNCHANGED <<codes, audit>>, now' \in Nat, DOMAIN active' = Users,
           known \subseteq known', \A u \in Users \ known' : active'[u] = active[u],
           redeem' \in [Redeemers -> Claim \cup {None}],
           \A r \in Redeemers : redeem'[r] = redeem[r] \/ redeem'[r] = None
                                \/ codes[redeem'[r].code] # None
    PROVE  Inv'
<1>1. Shape'
  BY DEF Inv, Shape
<1>2. RedeemedWhileValid'
  BY DEF Inv, RedeemedWhileValid
<1>3. SubscribersAreKnown'
  BY DEF Inv, SubscribersAreKnown
<1> QED BY <1>1, <1>2, <1>3 DEF Inv

\* A step of the subscriptions module keeps the invariant.
LEMMA SubStepKeepsInv == ASSUME Inv, SubNext PROVE Inv'
<1> USE DEF Shape
<1>1. ASSUME NEW u \in Users, Start(u) PROVE Inv'
  BY <1>1, OthersKeepInv DEF Start, Inv
<1>2. ASSUME NEW u \in Users, RevokeSubscription(u) PROVE Inv'
  <2>1. UNCHANGED <<now, known, codes, audit, redeem>> /\ u \in known
        /\ active' = [active EXCEPT ![u] = {}]
    BY <1>2 DEF RevokeSubscription
  <2> QED BY <2>1, OthersKeepInv DEF Inv
<1>5. ASSUME NEW r \in Redeemers, NEW c \in Codes, NEW u \in Users, LookAtCode(r, c, u)
      PROVE Inv'
  <2>1. redeem' = [redeem EXCEPT ![r] = [code |-> c, user |-> u, at |-> now]]
        /\ codes[c] # None /\ UNCHANGED <<now, known, active, codes, audit>>
    BY <1>5 DEF LookAtCode
  <2>2. [code |-> c, user |-> u, at |-> now] \in Claim
    BY DEF Claim, Inv
  <2>3. \A q \in Redeemers : redeem'[q] = redeem[q] \/ codes[redeem'[q].code] # None
    BY <2>1 DEF Inv
  <2> QED BY <2>1, <2>2, <2>3, OthersKeepInv DEF Inv
<1>6. ASSUME NEW r \in Redeemers, ClaimCode(r) PROVE Inv'
  BY <1>6, ClaimKeepsInv
<1>7. ASSUME NEW r \in Redeemers, RedeemFails(r) PROVE Inv'
  <2>1. redeem' = [redeem EXCEPT ![r] = None]
        /\ UNCHANGED <<now, known, active, codes, audit>>
    BY <1>7 DEF RedeemFails
  <2> QED BY <2>1, OthersKeepInv DEF Inv
<1>8. CASE DayPasses
  BY <1>8, OthersKeepInv DEF DayPasses, Inv
<1> QED BY <1>1, <1>2, <1>5, <1>6, <1>7, <1>8 DEF SubNext

\* A step of a conversation or a payment writes at most the rows of a user it makes known.
LEMMA GrantStepKeepsInv ==
    ASSUME Inv, NEW u, UNCHANGED <<now, codes, audit, redeem>>,
           known' = known \cup {u}, NEW rows, active' = [active EXCEPT ![u] = rows]
    PROVE  Inv'
<1>1. CASE u \in Users
  BY <1>1, OthersKeepInv DEF Inv, Shape
<1>2. CASE u \notin Users
  BY <1>2, OthersKeepInv DEF Inv, Shape
<1> QED BY <1>1, <1>2

\* A tap in an admin's conversation keeps the invariant.
LEMMA ConvStepKeepsInv == ASSUME Inv, ConvNext PROVE Inv'
<1>1. ASSUME UNCHANGED subVars PROVE Inv'
  BY <1>1, OthersKeepInv DEF subVars, Inv, Shape
<1>2. ASSUME NEW a \in Admins, NEW c, NEW mode, FinishGrant(a, c, mode)
      PROVE Inv'
  <2>1. CASE UNCHANGED subVars
    BY <2>1, <1>1
  <2>2. CASE ApplyGrant(c.target, c.plan, c.days, mode)
             /\ UNCHANGED <<now, codes, audit, redeem>>
    BY <2>2, GrantStepKeepsInv DEF ApplyGrant, Ensured
  <2> QED BY <1>2, <2>1, <2>2 DEF FinishGrant, GoTo
<1>3. ASSUME NEW a \in Admins, NEW d \in Days, ReceiveDays(a, d) PROVE Inv'
  <2> DEFINE c == [conv[a] EXCEPT !.days = d]
  <2>1. CASE UNCHANGED subVars
    BY <2>1, <1>1
  <2>2. CASE FinishGrant(a, c, "grant")
    BY <2>2, <1>2
  <2> QED BY <1>3, <2>1, <2>2 DEF ReceiveDays, GoTo
<1>4. ASSUME NEW a \in Admins, NEW m \in {"extend", "replace"}, ReceiveMode(a, m) PROVE Inv'
  BY <1>2, <1>4 DEF ReceiveMode
<1>5. ASSUME NEW a \in Admins,
             \/ GrantOpen(a) \/ ShowPlans(a) \/ GrantSent(a) \/ GrantCancel(a)
             \/ \E u \in Users : PickUser(a, u) \/ ShowPlansFor(a, u)
             \/ \E p \in Plans : ReceivePlan(a, p)
      PROVE Inv'
  BY <1>1, <1>5 DEF GrantOpen, ShowPlans, GrantSent, GrantCancel, PickUser, ShowPlansFor,
                    ReceivePlan, GoTo
<1> QED BY <1>3, <1>4, <1>5 DEF ConvNext

\* What an admin has answered in the conversation about codes
BatchRow == [step : {"off", "menu", "plan", "days", "count", "expiry"},
             plan : Plans \cup {None}, days : Days \cup {0}, count : 0..Cardinality(Codes)]

BatchShape == batch \in [Issuers -> BatchRow]

\* The keys of the conversation are typed, whatever the admin taps.
LEMMA BatchShapeAlways == Spec => []BatchShape
<1>1. NoBatch \in BatchRow
  BY IssuingAssumption, FS_CardinalityType DEF NoBatch, BatchRow
<1>2. Init => BatchShape
  BY <1>1 DEF Init, BatchInit, BatchShape
<1>3. BatchShape /\ [Next]_vars => BatchShape'
  <2> SUFFICES ASSUME BatchShape, [Next]_vars PROVE BatchShape'
    OBVIOUS
  <2>1. CASE UNCHANGED batch
    BY <2>1 DEF BatchShape
  <2>2. ASSUME NEW a \in Issuers, NEW b \in BatchRow, batch' = [batch EXCEPT ![a] = b]
        PROVE  BatchShape'
    BY <2>2 DEF BatchShape
  <2>3. ASSUME NEW a \in Issuers
        PROVE  Menu(a) \in BatchRow /\ Cleared(a) \in BatchRow /\ batch[a] \in BatchRow
    BY <1>1 DEF Menu, Cleared, Step, BatchRow, BatchShape
  <2>4. ASSUME NEW a \in Issuers, \/ CodesIssueFails(a) \/ NameKnown(a) \/ CodesIssued(a)
                                  \/ LinksLost(a) \/ CodesCancel(a)
                                  \/ CodesBrowse(a) \/ \E c \in Codes : CodesRevoke(a, c)
        PROVE  BatchShape'
    <3>1. [batch[a] EXCEPT !.step = "off"] \in BatchRow
      BY <2>3 DEF BatchRow
    <3>2. CASE CodesIssued(a)
      BY <2>2, <3>1, <3>2 DEF CodesIssued, BatchShape
    <3> QED BY <1>1, <2>1, <2>2, <2>3, <2>4, <3>2
            DEF CodesIssueFails, NameKnown, LinksLost, CodesCancel, CodesBrowse, CodesRevoke,
                TurnTo
  <2>5. ASSUME NEW a \in Issuers, CodesOpen(a) \/ CodesShowPlans(a) PROVE BatchShape'
    <3>1. [NoBatch EXCEPT !.step = "menu"] \in BatchRow
      BY <1>1 DEF BatchRow
    <3>2. Step(a, "plan") \in BatchRow
      BY <2>3 DEF Step, BatchRow
    <3> QED BY <2>2, <2>5, <3>1, <3>2 DEF CodesOpen, CodesShowPlans, TurnTo
  <2>6. ASSUME NEW a \in Issuers, NEW p \in Plans, CodesReceivePlan(a, p) PROVE BatchShape'
    <3>1. [Step(a, "days") EXCEPT !.plan = p] \in BatchRow
      BY <2>3 DEF Step, BatchRow
    <3> QED BY <2>2, <2>6, <3>1 DEF CodesReceivePlan, TurnTo
  <2>7. ASSUME NEW a \in Issuers, NEW d \in Days, CodesReceiveDays(a, d) PROVE BatchShape'
    <3>1. [Step(a, "count") EXCEPT !.days = d] \in BatchRow
      BY <2>3 DEF Step, BatchRow
    <3> QED BY <2>2, <2>7, <3>1 DEF CodesReceiveDays, TurnTo
  <2>8. ASSUME NEW a \in Issuers, NEW n \in 1..Cardinality(Codes), CodesReceiveCount(a, n)
        PROVE  BatchShape'
    <3>1. n \in 0..Cardinality(Codes)
      BY IssuingAssumption, FS_CardinalityType
    <3>2. [Step(a, "expiry") EXCEPT !.count = n] \in BatchRow
      BY <2>3, <3>1 DEF Step, BatchRow
    <3> QED BY <2>2, <2>8, <3>2 DEF CodesReceiveCount, TurnTo
  <2>9. CASE BatchNext
    <3>1. ASSUME NEW a \in Issuers, NEW S, NEW e, CodesIssue(a, S, e) PROVE BatchShape'
      BY <2>1, <2>2, <2>3, <3>1 DEF CodesIssue
    <3>2. CASE NamedElsewhere
      BY <2>1, <3>2 DEF NamedElsewhere
    <3> QED BY <2>4, <2>5, <2>6, <2>7, <2>8, <2>9, <3>1, <3>2 DEF BatchNext
  <2> QED BY <2>1, <2>9 DEF Next, vars, batchVars
<1> QED BY <1>2, <1>3, PTL DEF Spec

\* A tap in the conversation about codes keeps the invariant.
LEMMA BatchStepKeepsInv == ASSUME Inv, BatchShape, BatchNext PROVE Inv'
<1>1. CASE UNCHANGED subVars
  BY <1>1, OthersKeepInv DEF subVars, Inv, Shape
<1>2. ASSUME NEW a \in Issuers, NEW S \in SUBSET Codes, NEW e \in 1..MaxNow \cup {Never},
             CodesIssue(a, S, e)
      PROVE  Inv'
  <2>1. batch[a].plan \in Plans /\ batch[a].days \in Days
    BY <1>2 DEF CodesIssue, KeysThere, BatchShape, BatchRow
  <2> QED BY <1>2, <2>1, IssueKeepsInv DEF CodesIssue
<1>3. ASSUME NEW a \in Issuers, NEW c \in Codes, CodesRevoke(a, c) PROVE Inv'
  BY <1>3, RevokeKeepsInv DEF CodesRevoke
<1>4. CASE NamedElsewhere
  BY <1>1, <1>4 DEF NamedElsewhere
<1>5. ASSUME NEW a \in Issuers,
             \/ CodesOpen(a) \/ CodesShowPlans(a) \/ CodesIssueFails(a) \/ NameKnown(a)
             \/ CodesIssued(a) \/ LinksLost(a) \/ CodesCancel(a) \/ CodesBrowse(a)
             \/ \E p \in Plans : CodesReceivePlan(a, p)
             \/ \E d \in Days : CodesReceiveDays(a, d)
             \/ \E n \in 1..Cardinality(Codes) : CodesReceiveCount(a, n)
      PROVE  Inv'
  BY <1>1, <1>5 DEF CodesOpen, CodesShowPlans, CodesIssueFails, NameKnown, CodesIssued,
     LinksLost, CodesCancel, CodesBrowse, CodesReceivePlan, CodesReceiveDays,
     CodesReceiveCount, TurnTo
<1> QED BY <1>2, <1>3, <1>4, <1>5 DEF BatchNext

\* A step of a payment keeps the invariant.
LEMMA PayStepKeepsInv == ASSUME Inv, PayNext PROVE Inv'
<1>1. ASSUME UNCHANGED subVars PROVE Inv'
  BY <1>1, OthersKeepInv DEF subVars, Inv, Shape
<1>2. ASSUME NEW i \in Invoices, Granted(i) PROVE Inv'
  <2> DEFINE u == invoice[i].user
  <2>1. u \in known /\ UNCHANGED <<now, known, codes, audit, redeem>>
    BY <1>2 DEF Granted, GrantPaid
  <2>2. PICK rows : active' = [active EXCEPT ![u] = rows]
    BY <1>2 DEF Granted, GrantPaid
  <2> QED BY <2>1, <2>2, GrantStepKeepsInv
<1>3. ASSUME NEW p \in Plans, NEW price \in Prices, NEW on \in BOOLEAN, UpdatePlan(p, price, on)
      PROVE Inv'
  BY <1>1, <1>3 DEF UpdatePlan
<1>4. ASSUME NEW i \in Invoices, NEW k, NEW u \in Users, NEW p \in Plans, OpenInvoice(i, k, u, p)
      PROVE Inv'
  BY <1>1, <1>4 DEF OpenInvoice
<1>5. ASSUME NEW i \in Invoices, PreCheckout(i) \/ Charge(i) PROVE Inv'
  BY <1>1, <1>5 DEF PreCheckout, Approved, Charge
<1>6. ASSUME NEW i \in Invoices, SuccessfulPayment(i) \/ CryptoWebhook(i) PROVE Inv'
  BY <1>1, <1>2, <1>6 DEF SuccessfulPayment, CryptoWebhook
<1> QED BY <1>3, <1>4, <1>5, <1>6 DEF PayNext

\* In every reachable state the invariant holds, whatever the constants are.
LEMMA InvAlways == Spec => []Inv
<1>1. Init => Inv
  BY InvInitially
<1>2. Inv /\ BatchShape /\ [Next]_vars => Inv'
  <2> SUFFICES ASSUME Inv, BatchShape, [Next]_vars PROVE Inv'
    OBVIOUS
  <2>1. CASE UNCHANGED vars
    BY <2>1, OthersKeepInv DEF vars, subVars, Inv, Shape
  <2>2. CASE SubNext
    BY <2>2, SubStepKeepsInv
  <2>3. CASE ConvNext
    BY <2>3, ConvStepKeepsInv
  <2>4. CASE PayNext
    BY <2>4, PayStepKeepsInv
  <2>5. CASE BatchNext
    BY <2>5, BatchStepKeepsInv
  <2> QED BY <2>1, <2>2, <2>3, <2>4, <2>5 DEF Next
<1> QED BY <1>1, <1>2, BatchShapeAlways, PTL DEF Spec

\* A redeemed code was valid by the redemption's clock, was never revoked, and
\* is named by exactly one audit row, that of the user who redeemed it.
THEOREM CodesRedeemedWhileValid == Spec => []RedeemedWhileValid
<1>1. Inv => RedeemedWhileValid
  BY DEF Inv
<1> QED BY <1>1, InvAlways, PTL

\* Whoever has a subscription or has redeemed a code is in table users.
THEOREM SubscribersKnown == Spec => []SubscribersAreKnown
<1>1. Inv => SubscribersAreKnown
  BY DEF Inv
<1> QED BY <1>1, InvAlways, PTL

-----------------------------------------------------------------------------
\* What a code looks like from outside.
StatusOf(c) == IF codes[c] = None THEN "blank"
               ELSE IF codes[c].usedBy # None THEN "used"
               ELSE IF codes[c].revoked THEN "revoked" ELSE "unused"

\* A claim is one redemption of the voucher.
LEMMA ClaimRedeems ==
    ASSUME Inv, Inv', NEW r \in Redeemers, ClaimCode(r)
    PROVE  Abstract!Next
<1>1. PICK c \in Codes, u \in Users : c = redeem[r].code /\ u = redeem[r].user
  BY DEF ClaimCode, Inv, Shape, Claim
<1>2. codes[c] \in CodeRow /\ codes[c] # None /\ codes[c].usedBy = None /\ ~codes[c].revoked
  BY <1>1, NamesAssumption DEF ClaimCode, Claimable, Unused, Inv, Shape
<1>3. codes' = [codes EXCEPT ![c] = [@ EXCEPT !.usedBy = u, !.usedAt = redeem[r].at]]
      /\ audit' = [audit EXCEPT ![c] = Append(@, u)]
  BY <1>1 DEF ClaimCode
<1>4. codes'[c].usedBy = u /\ codes'[c] # None /\ u # None
  <2>1. redeem[r].at \in Nat /\ u \in Users
    BY <1>1 DEF ClaimCode, Inv, Shape, Claim
  <2>2. codes'[c] = [codes[c] EXCEPT !.usedBy = u, !.usedAt = redeem[r].at]
    BY <1>1, <1>3 DEF Inv, Shape
  <2>3. codes'[c] \in CodeRow /\ codes'[c].usedBy = u
    BY <2>1, <2>2, <1>2 DEF CodeRow
  <2> QED BY <2>1, <2>3, NamesAssumption
<1>5. Abstract!Redeem(c, u)
  <2>1. \A d \in Codes \ {c} : codes'[d] = codes[d]
    BY <1>3 DEF Inv, Shape
  <2>2. \A d \in Codes : StatusOf(d)' = IF d = c THEN "used" ELSE StatusOf(d)
    BY <1>4, <2>1 DEF StatusOf
  <2>3. StatusOf(c) = "unused"
    BY <1>2 DEF StatusOf
  <2> QED BY <1>3, <2>2, <2>3 DEF Abstract!Redeem, StatusOf
<1> QED BY <1>5 DEF Abstract!Next

\* Issuing and revoking are steps of the voucher.
LEMMA IssueIssues ==
    ASSUME Inv, Inv', NEW S \in SUBSET Codes, NEW p \in Plans, NEW d \in Days,
           NEW e \in 1..MaxNow \cup {Never}, IssueCodes(S, p, d, e)
    PROVE  Abstract!Next
<1>1. [plan |-> p, days |-> d, expires |-> e, usedBy |-> None, usedAt |-> 0,
       revoked |-> FALSE] \in CodeRow
  BY BoundsAssumption DEF CodeRow
<1>2. \A c \in S : codes[c] = None /\ codes'[c] # None /\ codes'[c].usedBy = None
                    /\ ~codes'[c].revoked
  BY <1>1, NamesAssumption DEF IssueCodes
<1>3. audit' = audit /\ \A c \in Codes \ S : codes'[c] = codes[c]
  BY DEF IssueCodes
<1>4. \A c \in Codes : StatusOf(c)' = IF c \in S THEN "unused" ELSE StatusOf(c)
  BY <1>2, <1>3 DEF StatusOf
<1>5. \A c \in S : StatusOf(c) = "blank"
  BY <1>2 DEF StatusOf
<1>6. Abstract!Issue(S)
  BY <1>3, <1>4, <1>5 DEF Abstract!Issue, StatusOf
<1> QED BY <1>6 DEF Abstract!Next

\* A revocation is the voucher's.
LEMMA RevokeRevokes ==
    ASSUME Inv, Inv', NEW c \in Codes, RevokeCode(c)
    PROVE  Abstract!Next
<1>1. codes[c] \in CodeRow /\ codes[c] # None /\ codes[c].usedBy = None /\ ~codes[c].revoked
  BY DEF RevokeCode, Inv, Shape
<1>2. codes' = [codes EXCEPT ![c] = [@ EXCEPT !.revoked = TRUE]] /\ audit' = audit
  BY DEF RevokeCode
<1>3. codes'[c] = [codes[c] EXCEPT !.revoked = TRUE]
      /\ \A d \in Codes \ {c} : codes'[d] = codes[d]
  BY <1>2 DEF Inv, Shape
<1>4. codes'[c] \in CodeRow /\ codes'[c].usedBy = None /\ codes'[c].revoked
  BY <1>1, <1>3 DEF CodeRow
<1>5. \A d \in Codes : StatusOf(d)' = IF d = c THEN "revoked" ELSE StatusOf(d)
  BY <1>3, <1>4, NamesAssumption DEF StatusOf
<1>6. StatusOf(c) = "unused"
  BY <1>1 DEF StatusOf
<1>7. Abstract!Revoke(c)
  BY <1>2, <1>5, <1>6 DEF Abstract!Revoke, StatusOf
<1> QED BY <1>7 DEF Abstract!Next

\* Admins' conversations and payments do not touch codes or audit rows.
LEMMA OthersLeaveCodes ==
    ASSUME ConvNext \/ PayNext PROVE UNCHANGED <<codes, audit>>
<1> USE DEF subVars
<1>1. ASSUME NEW a, NEW c, NEW mode, FinishGrant(a, c, mode)
      PROVE  UNCHANGED <<codes, audit>>
  BY <1>1 DEF FinishGrant, GoTo
<1>2. CASE ConvNext
  BY <1>1, <1>2 DEF ConvNext, GrantOpen, ShowPlans, GrantSent, GrantCancel, PickUser,
       ShowPlansFor, ReceivePlan, ReceiveDays, ReceiveMode, GoTo
<1>3. CASE PayNext
  BY <1>3 DEF PayNext, UpdatePlan, OpenInvoice, PreCheckout, Approved, Charge, SuccessfulPayment,
       CryptoWebhook, Granted
<1> QED BY <1>2, <1>3

\* The activation codes implement Voucher: each is redeemed at most once, by one
\* user, credited once, and never after it was revoked.
THEOREM CodesAreVouchers == Spec => VoucherSpec
<1>1. Init => Abstract!Init
  BY DEF Init, SubInit, Abstract!Init
<1>2. ASSUME Inv, Inv', BatchShape, [Next]_vars
      PROVE  Abstract!Next \/ UNCHANGED <<codes, audit>>
  <2>1. CASE UNCHANGED vars
    BY <2>1 DEF vars, subVars
  <2>2. CASE ConvNext \/ PayNext
    BY <2>2, OthersLeaveCodes
  <2>3. ASSUME NEW a \in Issuers, NEW S \in SUBSET Codes, NEW e \in 1..MaxNow \cup {Never},
               CodesIssue(a, S, e)
        PROVE  Abstract!Next
    <3>1. batch[a].plan \in Plans /\ batch[a].days \in Days
      BY <1>2, <2>3 DEF CodesIssue, KeysThere, BatchShape, BatchRow
    <3> QED BY <1>2, <2>3, <3>1, IssueIssues DEF CodesIssue
  <2>4. ASSUME NEW a \in Issuers, NEW c \in Codes, CodesRevoke(a, c) PROVE Abstract!Next
    BY <1>2, <2>4, RevokeRevokes DEF CodesRevoke
  <2>7. CASE BatchNext
    <3>1. ASSUME NEW a \in Issuers, UNCHANGED subVars
          PROVE  UNCHANGED <<codes, audit>>
      BY <3>1 DEF subVars
    <3>2. CASE NamedElsewhere
      BY <3>2 DEF NamedElsewhere, subVars
    <3> QED BY <2>3, <2>4, <2>7, <3>1, <3>2 DEF BatchNext, CodesOpen, CodesShowPlans,
         CodesIssueFails, NameKnown, CodesIssued, LinksLost, CodesCancel, CodesBrowse,
         CodesReceivePlan,
         CodesReceiveDays, CodesReceiveCount, TurnTo
  <2>5. ASSUME NEW r \in Redeemers, ClaimCode(r) PROVE Abstract!Next
    BY <1>2, <2>5, ClaimRedeems
  <2>6. CASE \/ \E u \in Users : Start(u) \/ RevokeSubscription(u)
             \/ \E r \in Redeemers : RedeemFails(r)
             \/ \E r \in Redeemers, c \in Codes, u \in Users : LookAtCode(r, c, u)
             \/ DayPasses
    BY <2>6 DEF Start, RevokeSubscription, RedeemFails, LookAtCode, DayPasses
  <2> QED BY <1>2, <2>1, <2>2, <2>5, <2>6, <2>7 DEF Next, SubNext
<1>3. UNCHANGED <<codes, audit>> =>
        UNCHANGED <<[c \in Codes |-> StatusOf(c)], audit>>
  BY DEF StatusOf
<1>4. Inv /\ Inv' /\ BatchShape /\ [Next]_vars =>
        [Abstract!Next]_<<[c \in Codes |-> StatusOf(c)], audit>>
  BY <1>2, <1>3
<1> QED BY <1>1, <1>4, InvAlways, BatchShapeAlways, PTL DEF Spec, VoucherSpec, Abstract!Spec, StatusOf

-----------------------------------------------------------------------------
(***************************************************************************)
(* What a user has: the latest end of the active rows.                     *)
(***************************************************************************)
Row == [plan : Plans, end : Nat]

\* A bounded set of natural numbers has a greatest: what is missing to the bound
\* has a least.
LEMMA GreatestOf ==
    ASSUME NEW S \in SUBSET Nat, S # {}, NEW b \in Nat, \A x \in S : x <= b
    PROVE  Max(S) \in S /\ \A x \in S : x <= Max(S)
<1> DEFINE T == {b - x : x \in S}
<1>1. T \subseteq Nat /\ T # {}
  OBVIOUS
<1>2. PICK t \in T : \A y \in T : <<y, t>> \notin OpToRel(<, Nat)
  BY <1>1, WFMin, NatLessThanWellFounded, Zenon
<1>3. PICK m \in S : t = b - m
  BY <1>2
<1>4. \A x \in S : x <= m
  <2> SUFFICES ASSUME NEW x \in S PROVE x <= m
    OBVIOUS
  <2>1. b - x \in T /\ b - x \in Nat /\ t \in Nat
    BY <1>1
  <2>2. ~ (b - x < t)
    BY <1>2, <2>1 DEF OpToRel
  <2> QED BY <1>3, <2>2
<1>5. \E y \in S : \A x \in S : y >= x
  BY <1>4
<1> QED BY <1>5 DEF Max

\* LatestEnd is the end of a row, or 0, and no row ends later.
LEMMA LatestEndIsLatest ==
    ASSUME NEW rows \in SUBSET Row, InBounds(rows)
    PROVE  /\ LatestEnd(rows) \in Nat
           /\ LatestEnd(rows) = 0 \/ \E r \in rows : LatestEnd(rows) = r.end
           /\ \A r \in rows : r.end <= LatestEnd(rows)
<1> DEFINE S == {r.end : r \in rows} \cup {0}
<1>1. S \in SUBSET Nat /\ S # {} /\ \A x \in S : x <= MaxEnd
  BY BoundsAssumption DEF Row, InBounds
<1>2. Max(S) \in S /\ \A x \in S : x <= Max(S)
  BY <1>1, GreatestOf, BoundsAssumption
<1> QED BY <1>1, <1>2 DEF LatestEnd

\* A grant, an extension and a code leave one row.  An extension adds its days to
\* what there was and ends no earlier than its days after the clock; so does a
\* grant to a user whose rows have ended.
LEMMA ExtensionAdds ==
    ASSUME NEW rows \in SUBSET Row, InBounds(rows), NEW p \in Plans, NEW d \in Nat,
           NEW at \in Nat, NEW mode, InBounds(Applied(rows, p, d, mode, at))
    PROVE  LET new == Applied(rows, p, d, mode, at) IN
           /\ new \in SUBSET Row
           /\ mode = "extend" \/ ~HasCurrent(rows, at) =>
                 /\ LatestEnd(new) >= LatestEnd(rows) + d
                 /\ LatestEnd(new) >= at + d
<1> DEFINE new == Applied(rows, p, d, mode, at)
           n == d + IF mode = "extend" /\ HasCurrent(rows, at) THEN LatestEnd(rows) ELSE at
<1>1. /\ LatestEnd(rows) \in Nat
      /\ LatestEnd(rows) = 0 \/ \E r \in rows : LatestEnd(rows) = r.end
      /\ \A r \in rows : r.end <= LatestEnd(rows)
  BY LatestEndIsLatest
<1>2. n \in Nat /\ new = {[plan |-> p, end |-> n]}
  BY <1>1 DEF Applied
<1>3. new \in SUBSET Row
  BY <1>2 DEF Row
<1>4. LatestEnd(new) \in Nat /\ LatestEnd(new) >= n
  BY <1>2, <1>3, LatestEndIsLatest
<1>5. CASE HasCurrent(rows, at)
  <2>1. LatestEnd(rows) >= at
    BY <1>1, <1>5 DEF HasCurrent, Row
  <2> QED BY <1>1, <1>3, <1>4, <1>5, <2>1
<1>6. CASE ~HasCurrent(rows, at)
  <2>1. LatestEnd(rows) <= at
    BY <1>1, <1>6 DEF HasCurrent, Row
  <2> QED BY <1>1, <1>3, <1>4, <1>6, <2>1
<1> QED BY <1>5, <1>6

-----------------------------------------------------------------------------
(***************************************************************************)
(* Types.                                                                  *)
(***************************************************************************)
\* What Inv leaves open of the types: the clock, table users and the rows
RowsTyped == /\ now \in 0..MaxNow /\ known \subseteq Users
             /\ active \in [Users -> SUBSET Row]
             /\ \A u \in Users : InBounds(active[u])

\* A grant writes typed rows of one user.
LEMMA RowsWritten ==
    ASSUME RowsTyped, NEW u \in Users, NEW p \in Plans, NEW d \in Nat, NEW at \in Nat, NEW mode,
           InBounds(Applied(active[u], p, d, mode, at)),
           active' = [active EXCEPT ![u] = Applied(active[u], p, d, mode, at)],
           known' \subseteq Users, now' = now
    PROVE  /\ RowsTyped'
           /\ \A v \in Users \ {u} : Entitlement(v)' = Entitlement(v) /\ active'[v] = active[v]
           /\ mode = "extend" \/ ~HasCurrent(active[u], at) =>
                 /\ Entitlement(u)' >= Entitlement(u) + d
                 /\ Entitlement(u)' >= at + d
           /\ Entitlement(u) \in Nat /\ Entitlement(u)' \in Nat
<1> DEFINE rows == Applied(active[u], p, d, mode, at)
<1>1. active[u] \in SUBSET Row /\ InBounds(active[u])
  BY DEF RowsTyped
<1>2. /\ rows \in SUBSET Row
      /\ mode = "extend" \/ ~HasCurrent(active[u], at) =>
            /\ LatestEnd(rows) >= LatestEnd(active[u]) + d
            /\ LatestEnd(rows) >= at + d
  BY <1>1, ExtensionAdds
<1>3. LatestEnd(rows) \in Nat /\ LatestEnd(active[u]) \in Nat
  BY <1>1, <1>2, LatestEndIsLatest
<1> HIDE DEF rows
<1>4. active'[u] = rows /\ \A v \in Users \ {u} : active'[v] = active[v]
  BY DEF RowsTyped, rows
<1>5. RowsTyped'
  BY <1>2, <1>4 DEF RowsTyped, InBounds, rows
<1> QED BY <1>2, <1>3, <1>4, <1>5 DEF Entitlement

\* A redemption: the code and the user are those the redeemer looked at.
LEMMA ClaimWrites ==
    ASSUME Inv, RowsTyped, NEW r \in Redeemers, ClaimCode(r)
    PROVE  \E c \in Codes, u \in Users :
              /\ codes[c] \in CodeRow /\ codes'[c].usedAt = redeem[r].at
              /\ codes[c].days \in Nat /\ redeem[r].at \in Nat
              /\ codes'[c].usedBy = u /\ \A e \in Codes \ {c} : codes'[e] = codes[e]
              /\ Entitlement(u) \in Nat /\ Entitlement(u)' \in Nat
              /\ Entitlement(u)' >= Entitlement(u) + codes[c].days
              /\ Entitlement(u)' >= redeem[r].at + codes[c].days
              /\ \A v \in Users \ {u} : Entitlement(v)' = Entitlement(v) /\ active'[v] = active[v]
              /\ RowsTyped'
<1>1. redeem[r] \in Claim /\ codes[redeem[r].code] # None
  BY DEF ClaimCode, Inv, Shape
<1>2. PICK c \in Codes, u \in Users, t \in Nat :
          c = redeem[r].code /\ u = redeem[r].user /\ t = redeem[r].at
  BY <1>1 DEF Claim
<1>3. codes[c] \in CodeRow /\ codes[c].plan \in Plans /\ codes[c].days \in Nat
  BY <1>1, <1>2, PlansAssumption DEF Inv, Shape, CodeRow
<1>4. codes' = [codes EXCEPT ![c] = [codes[c] EXCEPT !.usedBy = u, !.usedAt = t]]
  BY <1>2 DEF ClaimCode
<1>5. codes'[c].usedBy = u /\ codes'[c].usedAt = t /\ \A e \in Codes \ {c} : codes'[e] = codes[e]
  <2>1. codes'[c] = [codes[c] EXCEPT !.usedBy = u, !.usedAt = t]
    BY <1>4 DEF Inv, Shape
  <2> QED BY <1>3, <1>4, <2>1 DEF CodeRow, Inv, Shape
<1>6. /\ InBounds(Applied(active[u], codes[c].plan, codes[c].days, "extend", t))
      /\ active' = [active EXCEPT ![u] =
             Applied(active[u], codes[c].plan, codes[c].days, "extend", t)]
      /\ known' \subseteq Users /\ now' = now
  BY <1>2 DEF ClaimCode, Ensured, RowsTyped
<1>7. /\ RowsTyped' /\ Entitlement(u) \in Nat /\ Entitlement(u)' \in Nat
      /\ Entitlement(u)' >= Entitlement(u) + codes[c].days
      /\ Entitlement(u)' >= t + codes[c].days
      /\ \A v \in Users \ {u} : Entitlement(v)' = Entitlement(v) /\ active'[v] = active[v]
  BY <1>3, <1>6, RowsWritten
<1> QED BY <1>2, <1>3, <1>5, <1>7

\* What RowsTyped says of a step that leaves the rows alone or empties some
LEMMA RowsStay ==
    ASSUME RowsTyped, now' \in 0..MaxNow, known' \subseteq Users,
           \/ UNCHANGED active
           \/ \E u \in Users : active' = [active EXCEPT ![u] = {}]
    PROVE  RowsTyped'
  BY DEF RowsTyped, InBounds

LEMMA SubStepTyped == ASSUME Inv, RowsTyped, SubNext PROVE RowsTyped'
<1>1. ASSUME NEW r \in Redeemers, ClaimCode(r) PROVE RowsTyped'
  BY <1>1, ClaimWrites
<1>2. ASSUME NEW r \in Redeemers, RedeemFails(r) \/ \E c \in Codes, u \in Users : LookAtCode(r, c, u)
      PROVE  RowsTyped'
  BY <1>2, RowsStay DEF RowsTyped, RedeemFails, LookAtCode
<1>3. ASSUME NEW u \in Users, Start(u) \/ RevokeSubscription(u) PROVE RowsTyped'
  BY <1>3, RowsStay DEF RowsTyped, Start, RevokeSubscription
<1>4. CASE DayPasses
  BY <1>4, RowsStay, BoundsAssumption DEF RowsTyped, DayPasses
<1> QED BY <1>1, <1>2, <1>3, <1>4 DEF SubNext

ConvRow == [step : {"off", "menu", "user", "plan", "days", "mode"},
            target : Users \cup {None}, plan : Plans \cup {None}, days : Days \cup {0}]

LEMMA GoToTyped ==
    ASSUME RowsTyped, ConvTypeOK, NEW a \in Admins, NEW c \in ConvRow, GoTo(a, c)
    PROVE  RowsTyped' /\ ConvTypeOK'
<1>1. RowsTyped'
  BY RowsStay DEF RowsTyped, GoTo, subVars
<1>2. ConvTypeOK'
  BY DEF ConvTypeOK, ConvRow, GoTo
<1> QED BY <1>1, <1>2

\* A grant is committed with the keys of the conversation.
LEMMA FinishWrites ==
    ASSUME RowsTyped, NEW c \in ConvRow, NEW mode, None \notin {c.target, c.plan}, c.days # 0,
           ApplyGrant(c.target, c.plan, c.days, mode), now' = now
    PROVE  /\ RowsTyped' /\ c.target \in Users
           /\ \A v \in Users \ {c.target} : Entitlement(v)' = Entitlement(v)
           /\ Entitlement(c.target) \in Nat /\ Entitlement(c.target)' \in Nat
           /\ mode # "replace" /\ mode \in {"grant", "extend", "replace"} =>
                  Entitlement(c.target)' >= Entitlement(c.target)
<1>1. c.target \in Users /\ c.plan \in Plans /\ c.days \in Nat /\ now \in Nat
  <2>1. c.target \in Users \cup {None} /\ c.plan \in Plans \cup {None} /\ c.days \in Days
    BY DEF ConvRow
  <2>2. c.target # None /\ c.plan # None
    OBVIOUS
  <2>3. c.target \in Users /\ c.plan \in Plans
    BY <2>1, <2>2
  <2>4. c.days \in Nat
    BY <2>1, PlansAssumption
  <2>5. now \in Nat
    BY BoundsAssumption DEF RowsTyped
  <2> QED BY <2>3, <2>4, <2>5
<1>2. /\ InBounds(Applied(active[c.target], c.plan, c.days, mode, now))
      /\ active' = [active EXCEPT ![c.target] =
             Applied(active[c.target], c.plan, c.days, mode, now)]
      /\ known' \subseteq Users
      /\ mode = "grant" => ~HasCurrent(active[c.target], now)
  BY <1>1 DEF ApplyGrant, Ensured, MustChooseMode, RowsTyped
<1>3. /\ RowsTyped'
      /\ \A v \in Users \ {c.target} : Entitlement(v)' = Entitlement(v)
      /\ Entitlement(c.target) \in Nat /\ Entitlement(c.target)' \in Nat
      /\ mode = "extend" \/ ~HasCurrent(active[c.target], now) =>
             Entitlement(c.target)' >= Entitlement(c.target) + c.days
  BY <1>1, <1>2, RowsWritten
<1> QED BY <1>1, <1>2, <1>3

LEMMA FinishTyped ==
    ASSUME RowsTyped, ConvTypeOK, NEW a \in Admins, NEW c \in ConvRow, NEW mode,
           FinishGrant(a, c, mode)
    PROVE  RowsTyped' /\ ConvTypeOK'
<1>1. Closed \in ConvRow /\ ModeCard(c) \in ConvRow
  BY DEF Closed, ModeCard, ConvRow
<1>2. CASE GoTo(a, Closed) \/ GoTo(a, ModeCard(c))
  BY <1>1, <1>2, GoToTyped
<1>3. CASE /\ None \notin {c.target, c.plan} /\ c.days # 0
           /\ sending[a] < MaxSending
           /\ ApplyGrant(c.target, c.plan, c.days, mode)
           /\ conv' = [conv EXCEPT ![a] = c]
           /\ sending' = [sending EXCEPT ![a] = @ + 1]
           /\ UNCHANGED <<now, codes, audit, redeem>>
  <2>1. RowsTyped'
    BY <1>3, FinishWrites
  <2>2. conv' \in [Admins -> ConvRow]
    BY <1>3 DEF ConvTypeOK, ConvRow
  <2>3. sending' \in [Admins -> 0..MaxSending]
    BY <1>3, SendingAssumption DEF ConvTypeOK
  <2> QED BY <2>1, <2>2, <2>3 DEF ConvTypeOK, ConvRow
<1> QED BY <1>2, <1>3 DEF FinishGrant

LEMMA ConvStepTyped ==
    ASSUME RowsTyped, ConvTypeOK, ConvNext PROVE RowsTyped' /\ ConvTypeOK'
<1>1. Closed \in ConvRow /\ \A a \in Admins : conv[a] \in ConvRow
  BY DEF Closed, ConvRow, ConvTypeOK
<1>2. ASSUME NEW a \in Admins, GrantOpen(a) \/ ShowPlans(a) \/ GrantCancel(a)
      PROVE  RowsTyped' /\ ConvTypeOK'
  <2>1. /\ [Closed EXCEPT !.step = "menu"] \in ConvRow
        /\ [conv[a] EXCEPT !.step = "plan"] \in ConvRow
    BY <1>1 DEF ConvRow
  <2> QED BY <1>1, <1>2, <2>1, GoToTyped DEF GrantOpen, ShowPlans, GrantCancel
<1>3. ASSUME NEW a \in Admins, GrantSent(a) PROVE RowsTyped' /\ ConvTypeOK'
  <2>1. RowsTyped'
    BY <1>3, RowsStay DEF RowsTyped, GrantSent, subVars
  <2>2. sending' \in [Admins -> 0..MaxSending]
    BY <1>3, SendingAssumption DEF GrantSent, ConvTypeOK
  <2>3. conv' \in [Admins -> ConvRow]
    BY <1>1, <1>3 DEF GrantSent, ConvTypeOK, ConvRow
  <2> QED BY <2>1, <2>2, <2>3 DEF ConvTypeOK, ConvRow
<1>4. ASSUME NEW a \in Admins, NEW u \in Users, PickUser(a, u) \/ ShowPlansFor(a, u)
      PROVE  RowsTyped' /\ ConvTypeOK'
  <2>1. /\ [conv[a] EXCEPT !.step = "user", !.target = u] \in ConvRow
        /\ [conv[a] EXCEPT !.step = "plan", !.target = u] \in ConvRow
    BY <1>1 DEF ConvRow
  <2> QED BY <1>4, <2>1, GoToTyped DEF PickUser, ShowPlansFor
<1>5. ASSUME NEW a \in Admins, NEW p \in Plans, ReceivePlan(a, p)
      PROVE  RowsTyped' /\ ConvTypeOK'
  <2>1. [conv[a] EXCEPT !.step = "days", !.plan = p] \in ConvRow
    BY <1>1 DEF ConvRow
  <2> QED BY <1>5, <2>1, GoToTyped DEF ReceivePlan
<1>6. ASSUME NEW a \in Admins, NEW d \in Days, ReceiveDays(a, d)
      PROVE  RowsTyped' /\ ConvTypeOK'
  <2> DEFINE c == [conv[a] EXCEPT !.days = d]
  <2>1. c \in ConvRow /\ [c EXCEPT !.step = "off", !.days = 0] \in ConvRow
        /\ ModeCard(c) \in ConvRow
    BY <1>1 DEF ConvRow, ModeCard
  <2>2. \/ GoTo(a, [c EXCEPT !.step = "off", !.days = 0]) \/ GoTo(a, ModeCard(c))
        \/ FinishGrant(a, c, "grant")
    BY <1>6 DEF ReceiveDays
  <2> QED BY <2>1, <2>2, GoToTyped, FinishTyped
<1>7. ASSUME NEW a \in Admins, NEW m \in {"extend", "replace"}, ReceiveMode(a, m)
      PROVE  RowsTyped' /\ ConvTypeOK'
  BY <1>1, <1>7, FinishTyped DEF ReceiveMode
<1> QED BY <1>2, <1>3, <1>4, <1>5, <1>6, <1>7 DEF ConvNext

\* A Stars payment is granted at most once: until it is answered it was not.
StarsOnce == \A i \in Invoices :
    invoice[i] # None /\ invoice[i].kind = "stars" /\ invoice[i].phase # "answered"
        => invoice[i].grants = 0

PayTyped == PayTypeOK /\ StarsOnce

LEMMA PhaseTyped ==
    ASSUME PayTyped, NEW i \in Invoices, invoice[i] # None,
           NEW phase \in Phase, changed' \subseteq Invoices,
           NEW n \in 0..MaxGrants,
           n = invoice[i].grants \/ invoice[i].kind = "crypto" \/ phase = "answered",
           invoice' = [invoice EXCEPT ![i].phase = phase, ![i].grants = n],
           invoice[i].phase # "answered", UNCHANGED <<offer, edits>>
    PROVE  PayTyped'
<1>1. invoice[i] \in InvoiceRow
  BY DEF PayTyped, PayTypeOK
<1>2. invoice'[i] = [invoice[i] EXCEPT !.phase = phase, !.grants = n]
  BY DEF PayTyped, PayTypeOK
<1>3. /\ invoice'[i] \in InvoiceRow /\ invoice'[i].kind = invoice[i].kind
      /\ invoice'[i].phase = phase /\ invoice'[i].grants = n
  <2>1. ASSUME NEW v \in InvoiceRow
        PROVE  LET w == [v EXCEPT !.phase = phase, !.grants = n] IN
               w \in InvoiceRow /\ w.kind = v.kind /\ w.phase = phase /\ w.grants = n
    BY DEF InvoiceRow
  <2> QED BY <1>1, <1>2, <2>1
<1>4. \A j \in Invoices \ {i} : invoice'[j] = invoice[j]
  BY DEF PayTyped, PayTypeOK
<1>5. PayTypeOK'
  BY <1>3, <1>4 DEF PayTyped, PayTypeOK
<1>6. StarsOnce'
  <2> SUFFICES ASSUME NEW j \in Invoices, invoice'[j] # None, invoice'[j].kind = "stars",
                      invoice'[j].phase # "answered"
               PROVE  invoice'[j].grants = 0
    BY DEF StarsOnce
  <2>1. CASE j = i
    BY <1>3, <2>1 DEF PayTyped, StarsOnce
  <2>2. CASE j # i
    BY <1>4, <2>2 DEF PayTyped, StarsOnce
  <2> QED BY <2>1, <2>2
<1> QED BY <1>5, <1>6 DEF PayTyped

\* A paid plan, for a user who is known
LEMMA PaidWrites ==
    ASSUME RowsTyped, PayTypeOK, NEW i \in Invoices, invoice[i] # None, Granted(i)
    PROVE  /\ RowsTyped' /\ invoice[i].user \in Users
           /\ \A v \in Users \ {invoice[i].user} : Entitlement(v)' = Entitlement(v)
<1> DEFINE u == invoice[i].user
           p == invoice[i].plan
<1>1. u \in Users /\ p \in Plans
  BY DEF PayTypeOK, InvoiceRow
<1>2. PlanDays[p] \in Nat /\ now \in Nat
  BY <1>1, PlansAssumption, BoundsAssumption DEF RowsTyped
<1>3. active' = [active EXCEPT ![u] = Applied(active[u], p, PlanDays[p], "replace", now)]
      /\ InBounds(active'[u]) /\ UNCHANGED <<now, known>>
  BY DEF Granted, GrantPaid
<1>4. InBounds(Applied(active[u], p, PlanDays[p], "replace", now))
  BY <1>1, <1>3 DEF RowsTyped
<1> HIDE DEF u, p
<1>5. RowsTyped' /\ \A v \in Users \ {u} : Entitlement(v)' = Entitlement(v)
  BY <1>1, <1>2, <1>3, <1>4, RowsWritten DEF RowsTyped
<1> QED BY <1>1, <1>5 DEF u

LEMMA PayStepTyped ==
    ASSUME RowsTyped, PayTyped, PayNext PROVE RowsTyped' /\ PayTyped'
<1>1. ASSUME UNCHANGED subVars PROVE RowsTyped'
  BY <1>1, RowsStay DEF subVars, RowsTyped
<1>2. ASSUME NEW p \in Plans, NEW price \in Prices, NEW on \in BOOLEAN, UpdatePlan(p, price, on)
      PROVE  RowsTyped' /\ PayTyped'
  BY <1>1, <1>2, PaymentsAssumption DEF UpdatePlan, PayTyped, PayTypeOK, StarsOnce
<1>3. ASSUME NEW i \in Invoices, NEW k \in {"stars", "crypto"}, NEW u \in Users, NEW p \in Plans,
             OpenInvoice(i, k, u, p)
      PROVE  RowsTyped' /\ PayTyped'
  <2> DEFINE new == [kind |-> k, user |-> u, plan |-> p, amount |-> offer[p].price,
                     phase |-> "open", grants |-> 0]
  <2>1. new \in InvoiceRow /\ new.grants = 0
    BY PaymentsAssumption DEF InvoiceRow, Phase, PayTyped, PayTypeOK
  <2> HIDE DEF new
  <2>2. invoice' = [invoice EXCEPT ![i] = new] /\ UNCHANGED <<subVars, offer, edits, changed>>
    BY <1>3 DEF OpenInvoice, new
  <2>3. PayTyped'
    BY <2>1, <2>2 DEF PayTyped, PayTypeOK, StarsOnce
  <2> QED BY <1>1, <2>2, <2>3
<1>4. ASSUME NEW i \in Invoices, NEW phase \in Phase,
             To(i, phase), invoice[i] # None, invoice[i].phase # "answered",
             UNCHANGED <<offer, edits>>, changed' \subseteq Invoices
      PROVE  PayTyped'
  <2>1. invoice[i] \in InvoiceRow
    BY <1>4 DEF PayTyped, PayTypeOK
  <2>2. invoice[i].grants \in 0..MaxGrants
        /\ [invoice[i] EXCEPT !.phase = phase]
              = [invoice[i] EXCEPT !.phase = phase, !.grants = invoice[i].grants]
    BY <2>1 DEF InvoiceRow
  <2>3. invoice' = [invoice EXCEPT ![i].phase = phase, ![i].grants = invoice[i].grants]
    BY <1>4, <2>2 DEF To
  <2> QED BY <1>4, <2>2, <2>3, PhaseTyped
<1>5. ASSUME NEW i \in Invoices, PreCheckout(i) \/ Charge(i) PROVE RowsTyped' /\ PayTyped'
  <2>1. changed' \subseteq Invoices
    BY <1>5 DEF PreCheckout, Approved, Charge, PayTyped, PayTypeOK
  <2> QED BY <1>1, <1>4, <1>5, <2>1 DEF PreCheckout, Approved, Charge, In, Phase
<1>6. ASSUME NEW i \in Invoices, invoice[i] # None, Granted(i),
             NEW phase \in {"answered", "charged"},
             invoice[i].kind = "crypto" \/ phase = "answered",
             invoice[i].phase # "answered", invoice[i].grants < MaxGrants,
             invoice' = [invoice EXCEPT ![i].phase = phase, ![i].grants = @ + 1]
      PROVE  RowsTyped' /\ PayTyped'
  <2>1. RowsTyped' /\ UNCHANGED <<offer, edits>> /\ changed' \subseteq Invoices
    BY <1>6, PaidWrites DEF PayTyped, PayTypeOK, Granted
  <2>2. invoice[i].grants + 1 \in 0..MaxGrants
    BY <1>6, PaymentsAssumption DEF PayTyped, PayTypeOK, InvoiceRow
  <2>3. PayTyped'
    BY <1>6, <2>1, <2>2, PhaseTyped DEF Phase
  <2> QED BY <2>1, <2>3
<1>7. ASSUME NEW i \in Invoices, SuccessfulPayment(i) PROVE RowsTyped' /\ PayTyped'
  <2>1. invoice[i] # None /\ invoice[i].phase = "charged" /\ invoice[i].grants < MaxGrants
    BY <1>7, PaymentsAssumption DEF SuccessfulPayment, In, PayTyped, StarsOnce
  <2>2. changed \subseteq Invoices
    BY DEF PayTyped, PayTypeOK
  <2> QED BY <1>1, <1>4, <1>6, <1>7, <2>1, <2>2 DEF SuccessfulPayment, Phase
<1>8. ASSUME NEW i \in Invoices, CryptoWebhook(i) PROVE RowsTyped' /\ PayTyped'
  <2>1. changed \subseteq Invoices
    BY DEF PayTyped, PayTypeOK
  <2> QED BY <1>1, <1>4, <1>6, <1>8, <2>1 DEF CryptoWebhook, In, Phase
<1> QED BY <1>2, <1>3, <1>5, <1>7, <1>8 DEF PayNext

\* The batches of an admin whose links are not out
InHand == /\ naming \in [Issuers -> Nat] /\ showing \in [Issuers -> Nat] /\ named \in BOOLEAN
          /\ \A a \in Issuers : naming[a] + showing[a] <= MaxIssuing

LEMMA BatchStepTyped ==
    ASSUME RowsTyped, InHand, BatchNext PROVE RowsTyped' /\ InHand'
<1>1. ASSUME UNCHANGED subVars PROVE RowsTyped'
  BY <1>1, RowsStay DEF subVars, RowsTyped
<1>2. ASSUME NEW a \in Issuers, NEW b, TurnTo(a, b) PROVE RowsTyped' /\ InHand'
  BY <1>1, <1>2 DEF TurnTo, issueVars, InHand
<1>3. ASSUME NEW a \in Issuers, NEW S, NEW e, CodesIssue(a, S, e) PROVE RowsTyped' /\ InHand'
  <2>1. RowsTyped'
    BY <1>3, RowsStay DEF CodesIssue, IssueCodes, RowsTyped
  <2>2. /\ naming[a] + showing[a] < MaxIssuing /\ UNCHANGED named
        /\ \/ UNCHANGED naming /\ showing' = [showing EXCEPT ![a] = @ + 1]
           \/ UNCHANGED showing /\ naming' = [naming EXCEPT ![a] = @ + 1]
    BY <1>3, Zenon DEF CodesIssue
  <2>3. InHand'
    BY <2>2, IssuingAssumption DEF InHand
  <2> QED BY <2>1, <2>3
<1>4. ASSUME NEW a \in Issuers, NEW c \in Codes, CodesRevoke(a, c) PROVE RowsTyped' /\ InHand'
  BY <1>4, RowsStay DEF CodesRevoke, RevokeCode, RowsTyped, issueVars, InHand
<1>5. ASSUME NEW a \in Issuers, NameKnown(a) PROVE RowsTyped' /\ InHand'
  BY <1>1, <1>5, IssuingAssumption DEF NameKnown, InHand
<1>6. ASSUME NEW a \in Issuers, CodesIssued(a) PROVE RowsTyped' /\ InHand'
  BY <1>1, <1>6, IssuingAssumption DEF CodesIssued, InHand
<1>7. ASSUME NEW a \in Issuers, LinksLost(a) PROVE RowsTyped' /\ InHand'
  BY <1>1, <1>7, IssuingAssumption DEF LinksLost, InHand
<1>8. CASE NamedElsewhere
  BY <1>1, <1>8 DEF NamedElsewhere, InHand
<1>9. ASSUME NEW a \in Issuers,
             \/ CodesOpen(a) \/ CodesShowPlans(a) \/ CodesIssueFails(a) \/ CodesCancel(a)
             \/ CodesBrowse(a)
             \/ \E p \in Plans : CodesReceivePlan(a, p)
             \/ \E d \in Days : CodesReceiveDays(a, d)
             \/ \E n \in 1..Cardinality(Codes) : CodesReceiveCount(a, n)
      PROVE  RowsTyped' /\ InHand'
  BY <1>2, <1>9 DEF CodesOpen, CodesShowPlans, CodesIssueFails, CodesCancel, CodesBrowse,
                    CodesReceivePlan, CodesReceiveDays, CodesReceiveCount
<1> QED BY <1>3, <1>4, <1>5, <1>6, <1>7, <1>8, <1>9 DEF BatchNext

Typed == RowsTyped /\ ConvTypeOK /\ InHand /\ PayTyped

LEMMA InitTyped == ASSUME Init PROVE Typed
<1>1. RowsTyped
  <2>1. \A rows \in LegacyRows : rows \in SUBSET Row /\ InBounds(rows)
    BY RowsAssumption, BoundsAssumption DEF Row, InBounds
  <2> QED BY <2>1, BoundsAssumption DEF Init, SubInit, RowsTyped
<1>2. ConvTypeOK
  BY SendingAssumption DEF Init, ConvInit, ConvTypeOK, Closed
<1>3. InHand
  <2>1. naming = [a \in Issuers |-> 0] /\ showing = [a \in Issuers |-> 0]
    BY DEF Init, BatchInit
  <2>2. named \in BOOLEAN
    BY DEF Init, BatchInit
  <2> QED BY <2>1, <2>2, IssuingAssumption DEF InHand
<1>4. PayTyped
  <2>1. offer \in [Plans -> [price : Prices, active : BOOLEAN]]
    <3>1. offer \in [Plans -> [price : Prices, active : {TRUE}]]
      BY DEF Init, PayInit
    <3>2. [price : Prices, active : {TRUE}] \subseteq [price : Prices, active : BOOLEAN]
      OBVIOUS
    <3> QED BY <3>1, <3>2
  <2>2. edits \in 0..MaxEdits /\ \A i \in Invoices : invoice[i] = None
    BY PaymentsAssumption DEF Init, PayInit
  <2>3. invoice \in [Invoices -> InvoiceRow \cup {None}] /\ changed \subseteq Invoices
    BY DEF Init, PayInit
  <2> QED BY <2>1, <2>2, <2>3 DEF PayTyped, PayTypeOK, StarsOnce
<1> QED BY <1>1, <1>2, <1>3, <1>4 DEF Typed

LEMMA NextKeepsTyped == ASSUME Inv, Typed, [Next]_vars PROVE Typed'
<1>1. UNCHANGED convVars => ConvTypeOK'
  BY DEF Typed, ConvTypeOK, convVars
<1>2. UNCHANGED batchVars => InHand'
  BY DEF Typed, InHand, batchVars, issueVars
<1>3. UNCHANGED payVars => PayTyped'
  BY DEF Typed, PayTyped, PayTypeOK, StarsOnce, payVars
<1>4. UNCHANGED subVars => RowsTyped'
  BY RowsStay DEF Typed, RowsTyped, subVars
<1>5. CASE UNCHANGED vars
  BY <1>1, <1>2, <1>3, <1>4, <1>5 DEF vars, Typed
<1>6. CASE SubNext /\ UNCHANGED <<convVars, batchVars, payVars>>
  BY <1>1, <1>2, <1>3, <1>6, SubStepTyped DEF Typed
<1>7. CASE ConvNext /\ UNCHANGED <<batchVars, payVars>>
  BY <1>2, <1>3, <1>7, ConvStepTyped DEF Typed
<1>8. CASE BatchNext /\ UNCHANGED <<convVars, payVars>>
  BY <1>1, <1>3, <1>8, BatchStepTyped DEF Typed
<1>9. CASE PayNext /\ UNCHANGED <<convVars, batchVars>>
  BY <1>1, <1>2, <1>9, PayStepTyped DEF Typed
<1> QED BY <1>5, <1>6, <1>7, <1>8, <1>9 DEF Next

LEMMA TypedAlways == Spec => []Typed
<1>1. Init => Typed
  BY InitTyped
<1>2. Inv /\ Typed /\ [Next]_vars => Typed'
  BY NextKeepsTyped
<1> QED BY <1>1, <1>2, InvAlways, PTL DEF Spec

\* Every variable of the admins' conversations, the codes and the payments keeps its
\* type: no grant is made with a key another tap of the admin has cleared
\* (admin_grants.py:628), and no Stars payment is granted twice (payments.py).
THEOREM BillingTypes == Spec => []TypeOK
<1>1. Inv /\ Typed /\ BatchShape => TypeOK
  <2> SUFFICES ASSUME Inv, Typed, BatchShape PROVE TypeOK
    OBVIOUS
  <2>1. SubTypeOK
    BY DEF Inv, Shape, Typed, RowsTyped, Row, SubTypeOK
  <2>2. \A a \in Issuers : naming[a] \in 0..MaxIssuing /\ showing[a] \in 0..MaxIssuing
    BY IssuingAssumption DEF Typed, InHand
  <2>3. BatchTypeOK
    BY <2>2 DEF Typed, InHand, BatchTypeOK, BatchShape, BatchRow
  <2> QED BY <2>1, <2>3 DEF Typed, PayTyped, TypeOK
<1> QED BY <1>1, InvAlways, TypedAlways, BatchShapeAlways, PTL

-----------------------------------------------------------------------------
(***************************************************************************)
(* What a step does to what the users have.                                *)
(***************************************************************************)
\* Redeeming a code adds its days to the subscription, or counts them from the
\* redemption's clock, whichever is later (subscription_grants.py:604), and leaves
\* everybody else's alone: whatever was bought, granted or ended since it was read.
THEOREM RedemptionAddsItsDays == Spec => RedeemAddsItsDays
<1> DEFINE Adds(c, u) ==
          codes[c] # None /\ codes[c].usedBy = None /\ codes'[c].usedBy = u =>
              /\ Entitlement(u)' >= Entitlement(u) + codes[c].days
              /\ Entitlement(u)' >= codes'[c].usedAt + codes[c].days
              /\ \A v \in Users \ {u} : active'[v] = active[v]
<1>1. ASSUME Inv, Typed, [Next]_vars, ~UNCHANGED subVars, NEW c \in Codes, NEW u \in Users
      PROVE  Adds(c, u)
  <2>0. u # None /\ codes \in [Codes -> CodeRow \cup {None}]
    BY <1>1, NamesAssumption DEF Inv, Shape
  <2>1. CASE UNCHANGED codes
    BY <2>0, <2>1
  <2>2. ASSUME NEW S, NEW p, NEW d, NEW e, IssueCodes(S, p, d, e) PROVE Adds(c, u)
    BY <2>0, <2>2 DEF IssueCodes
  <2>3. ASSUME NEW e \in Codes, RevokeCode(e) PROVE Adds(c, u)
    <3>1. codes[e] \in CodeRow /\ codes'[e] = [codes[e] EXCEPT !.revoked = TRUE]
      BY <2>0, <2>3 DEF RevokeCode
    <3>2. codes'[e].usedBy = codes[e].usedBy
      BY <3>1 DEF CodeRow
    <3>3. \A k \in Codes \ {e} : codes'[k] = codes[k]
      BY <2>0, <2>3 DEF RevokeCode
    <3> QED BY <2>0, <3>2, <3>3
  <2>4. ASSUME NEW r \in Redeemers, ClaimCode(r) PROVE Adds(c, u)
    BY <1>1, <2>0, <2>4, ClaimWrites DEF Typed
  <2>5. CASE ConvNext \/ PayNext
    BY <2>1, <2>5, OthersLeaveCodes
  <2>6. CASE SubNext
    BY <2>1, <2>4, <2>6 DEF SubNext, Start, RevokeSubscription, LookAtCode, RedeemFails, DayPasses
  <2>7. CASE BatchNext
    <3>1. UNCHANGED subVars => UNCHANGED codes
      BY DEF subVars
    <3> QED BY <2>1, <2>2, <2>3, <2>7, <3>1
            DEF BatchNext, CodesOpen, CodesShowPlans, CodesIssueFails, NameKnown, CodesIssued,
                LinksLost, CodesCancel, CodesBrowse, CodesReceivePlan, CodesReceiveDays,
                CodesReceiveCount, CodesIssue, CodesRevoke, TurnTo, NamedElsewhere
  <2>8. CASE UNCHANGED vars
    BY <1>1, <2>8 DEF vars
  <2> QED BY <1>1, <2>5, <2>6, <2>7, <2>8 DEF Next
<1>2. Inv /\ Typed /\ [Next]_vars => [\A c \in Codes, u \in Users : Adds(c, u)]_subVars
  BY <1>1
<1> QED BY <1>2, InvAlways, TypedAlways, PTL DEF Spec, RedeemAddsItsDays

\* No user has less after the step.
Kept == \A u \in Users : Entitlement(u)' >= Entitlement(u)

LEMMA RowsKept == ASSUME RowsTyped, UNCHANGED active PROVE Kept
<1>1. ASSUME NEW u \in Users PROVE Entitlement(u) \in Nat
  BY LatestEndIsLatest DEF RowsTyped, Entitlement
<1> QED BY <1>1 DEF Kept, Entitlement

\* A tap in an admin's conversation shortens a subscription only to replace it.
LEMMA OnlyReplacingShortens ==
    ASSUME RowsTyped, ConvTypeOK, ConvNext, NEW u \in Users,
           ~(Entitlement(u)' >= Entitlement(u))
    PROVE  \E a \in Admins : conv[a].target = u /\ ReceiveMode(a, "replace")
<1>1. ~UNCHANGED active
  BY RowsKept DEF Kept
<1>2. ASSUME NEW a \in Admins, NEW c \in ConvRow, NEW mode \in {"grant", "extend", "replace"},
             FinishGrant(a, c, mode)
      PROVE  mode = "replace" /\ c.target = u
  <2>1. /\ None \notin {c.target, c.plan} /\ c.days # 0
        /\ ApplyGrant(c.target, c.plan, c.days, mode) /\ now' = now
    BY <1>1, <1>2 DEF FinishGrant, GoTo, subVars
  <2>2. /\ c.target \in Users /\ \A v \in Users \ {c.target} : Entitlement(v)' = Entitlement(v)
        /\ mode # "replace" => Entitlement(c.target)' >= Entitlement(c.target)
    BY <2>1, FinishWrites
  <2>3. Entitlement(u) \in Nat
    BY LatestEndIsLatest DEF RowsTyped, Entitlement
  <2> QED BY <2>2, <2>3
<1>3. \A a \in Admins : conv[a] \in ConvRow
  BY DEF ConvTypeOK, ConvRow
<1>4. ASSUME NEW a \in Admins, NEW d \in Days, ReceiveDays(a, d) PROVE FALSE
  <2>1. [conv[a] EXCEPT !.days = d] \in ConvRow
    BY <1>3 DEF ConvRow
  <2> QED BY <1>1, <1>2, <1>4, <2>1 DEF ReceiveDays, GoTo, subVars
<1>5. ASSUME NEW a \in Admins, NEW m \in {"extend", "replace"}, ReceiveMode(a, m)
      PROVE  conv[a].target = u /\ m = "replace"
  BY <1>2, <1>3, <1>5 DEF ReceiveMode
<1> QED BY <1>1, <1>4, <1>5
    DEF ConvNext, GrantOpen, ShowPlans, GrantSent, GrantCancel, PickUser, ShowPlansFor,
        ReceivePlan, GoTo, subVars

\* A step of a payment shortens only the subscription of the user who paid.
LEMMA OnlyPaidShortens ==
    ASSUME RowsTyped, PayTypeOK, PayNext, NEW u \in Users,
           ~(Entitlement(u)' >= Entitlement(u))
    PROVE  \E i \in Invoices : /\ invoice[i] # None /\ invoice[i].user = u
                               /\ invoice'[i].grants > invoice[i].grants
<1>1. ~UNCHANGED active /\ Entitlement(u) \in Nat
  BY RowsKept, LatestEndIsLatest DEF Kept, RowsTyped, Entitlement
<1>2. ASSUME NEW i \in Invoices, SuccessfulPayment(i) \/ CryptoWebhook(i)
      PROVE  /\ invoice[i] # None /\ invoice[i].user = u
             /\ invoice'[i].grants > invoice[i].grants
  <2>1. invoice[i] # None /\ Granted(i)
        /\ \E phase \in {"answered", "charged"} :
               invoice' = [invoice EXCEPT ![i].phase = phase, ![i].grants = @ + 1]
    BY <1>1, <1>2 DEF SuccessfulPayment, CryptoWebhook, In, subVars
  <2>2. invoice[i].user = u
    BY <1>1, <2>1, PaidWrites
  <2>3. invoice[i] \in InvoiceRow /\ invoice[i].grants \in Nat
    BY <2>1, PaymentsAssumption DEF PayTypeOK, InvoiceRow
  <2>4. PICK phase \in {"answered", "charged"} :
            invoice'[i] = [invoice[i] EXCEPT !.phase = phase, !.grants = @ + 1]
    BY <2>1 DEF PayTypeOK
  <2>5. invoice'[i].grants = invoice[i].grants + 1
    BY <2>3, <2>4 DEF InvoiceRow
  <2> QED BY <2>1, <2>2, <2>3, <2>5
<1> QED BY <1>1, <1>2
    DEF PayNext, UpdatePlan, OpenInvoice, PreCheckout, Approved, Charge, subVars

\* Nobody's subscription ends earlier than before except by an admin's decision to
\* end or to replace it, or for a plan the user has paid: the grant that is refused
\* while a subscription is current (subscription_grants.py:789), the extension and
\* the code never shorten one, whatever happened since the card was shown.
THEOREM NothingElseShortens == Spec => OnlyTheseShorten
<1> DEFINE Decided(u) ==
          \/ RevokeSubscription(u)
          \/ \E a \in Admins : conv[a].target = u /\ ReceiveMode(a, "replace")
          \/ \E i \in Invoices : invoice[i] # None /\ invoice[i].user = u
                                 /\ invoice'[i].grants > invoice[i].grants
<1>1. ASSUME Inv, Typed, [Next]_vars, NEW u \in Users, Entitlement(u)' < Entitlement(u)
      PROVE  Decided(u)
  <2>1. RowsTyped /\ ConvTypeOK /\ PayTypeOK /\ RowsTyped'
    BY <1>1, NextKeepsTyped DEF Typed, PayTyped
  <2>2. Entitlement(u) \in Nat /\ Entitlement(u)' \in Nat
    BY <2>1, LatestEndIsLatest DEF RowsTyped, Entitlement
  <2>3. ~(Entitlement(u)' >= Entitlement(u))
    BY <1>1, <2>2
  <2>4. ~UNCHANGED active
    BY <2>1, <2>3, RowsKept DEF Kept
  <2>5. CASE ConvNext
    BY <2>1, <2>3, <2>5, OnlyReplacingShortens
  <2>6. CASE PayNext
    BY <2>1, <2>3, <2>6, OnlyPaidShortens
  <2>7. CASE SubNext
    <3>1. ASSUME NEW r \in Redeemers, ClaimCode(r) PROVE FALSE
      BY <1>1, <2>1, <2>2, <2>3, <3>1, ClaimWrites
    <3>2. ASSUME NEW v \in Users, RevokeSubscription(v) PROVE v = u
      BY <2>1, <2>2, <2>3, <3>2 DEF RevokeSubscription, RowsTyped, Entitlement
    <3> QED BY <2>4, <2>7, <3>1, <3>2 DEF SubNext, Start, LookAtCode, RedeemFails, DayPasses
  <2>8. CASE BatchNext
    <3>1. UNCHANGED active
      BY <2>8 DEF BatchNext, CodesOpen, CodesShowPlans, CodesIssueFails, NameKnown,
         CodesIssued, LinksLost, CodesCancel, CodesBrowse, CodesReceivePlan, CodesReceiveDays,
         CodesReceiveCount, CodesIssue, IssueCodes, CodesRevoke, RevokeCode, TurnTo,
         NamedElsewhere, subVars
    <3> QED BY <2>4, <3>1
  <2>9. CASE UNCHANGED vars
    BY <2>4, <2>9 DEF vars, subVars
  <2> QED BY <1>1, <2>5, <2>6, <2>7, <2>8, <2>9 DEF Next
<1>2. Inv /\ Typed /\ [Next]_vars =>
          [\A u \in Users : Entitlement(u)' < Entitlement(u) => Decided(u)]_vars
  BY <1>1
<1> QED BY <1>2, InvAlways, TypedAlways, PTL DEF Spec, OnlyTheseShorten

-----------------------------------------------------------------------------
(***************************************************************************)
(* The two looks at a Stars payment.                                       *)
(***************************************************************************)
\* A payment that was approved is still valid, unless its plan was edited.
StillValid ==
    \A i \in Invoices :
        /\ invoice[i] # None
        /\ invoice[i].kind = "stars" /\ invoice[i].phase \in {"approved", "charged"}
        => Valid(i) \/ i \in changed

LEMMA EditIsNoted ==
    ASSUME PayTypeOK, StillValid, RefusedOnlyForAnEdit,
           NEW p \in Plans, NEW price \in Prices, NEW on \in BOOLEAN, UpdatePlan(p, price, on)
    PROVE  StillValid' /\ RefusedOnlyForAnEdit'
<1>1. /\ UNCHANGED <<invoice, known>> /\ changed \subseteq changed'
      /\ \A q \in Plans \ {p} : offer'[q] = offer[q]
      /\ \A i \in Invoices : invoice[i] # None /\ invoice[i].plan = p => i \in changed'
  BY DEF UpdatePlan, PayTypeOK, subVars
<1>2. \A i \in Invoices : invoice[i] # None => invoice[i].plan \in Plans
  BY DEF PayTypeOK, InvoiceRow
<1> QED BY <1>1, <1>2 DEF StillValid, RefusedOnlyForAnEdit, Valid

\* A step of one invoice: its record changes, and the offers do not.
LEMMA StepOfOneInvoice ==
    ASSUME PayTypeOK, StillValid, RefusedOnlyForAnEdit, NEW i \in Invoices,
           \A j \in Invoices \ {i} : invoice'[j] = invoice[j] /\ (j \in changed' <=> j \in changed),
           offer' = offer, known \subseteq known',
           /\ invoice'[i] # None /\ invoice'[i].kind = "stars"
           /\ invoice'[i].phase \in {"approved", "charged"}
           => Valid(i)' \/ i \in changed',
           invoice'[i] # None /\ invoice'[i].phase = "refused" => i \in changed'
    PROVE  StillValid' /\ RefusedOnlyForAnEdit'
<1>1. ASSUME NEW j \in Invoices \ {i}, Valid(j) PROVE Valid(j)'
  BY <1>1 DEF Valid
<1> QED BY <1>1 DEF StillValid, RefusedOnlyForAnEdit

LEMMA PaymentIsNoted ==
    ASSUME PayTypeOK, StillValid, RefusedOnlyForAnEdit, PayNext
    PROVE  StillValid' /\ RefusedOnlyForAnEdit'
<1>1. ASSUME NEW i \in Invoices, NEW phase \in Phase, invoice[i] # None, To(i, phase)
      PROVE  /\ invoice'[i] = [invoice[i] EXCEPT !.phase = phase]
             /\ invoice'[i].phase = phase /\ invoice'[i].kind = invoice[i].kind
             /\ invoice'[i].user = invoice[i].user /\ invoice'[i].plan = invoice[i].plan
             /\ invoice'[i].amount = invoice[i].amount
             /\ \A j \in Invoices \ {i} : invoice'[j] = invoice[j]
  <2>1. invoice[i] \in InvoiceRow
    BY <1>1 DEF PayTypeOK
  <2>2. /\ invoice'[i] = [invoice[i] EXCEPT !.phase = phase]
        /\ \A j \in Invoices \ {i} : invoice'[j] = invoice[j]
    BY <1>1 DEF To, PayTypeOK
  <2> QED BY <2>1, <2>2 DEF InvoiceRow
<1>2. ASSUME NEW i \in Invoices, NEW k, NEW u \in Users, NEW p \in Plans,
             OpenInvoice(i, k, u, p)
      PROVE  StillValid' /\ RefusedOnlyForAnEdit'
  <2>1. /\ invoice'[i].phase = "open" /\ UNCHANGED <<offer, changed, known>>
        /\ \A j \in Invoices \ {i} : invoice'[j] = invoice[j]
    BY <1>2 DEF OpenInvoice, PayTypeOK, subVars
  <2> QED BY <2>1, StepOfOneInvoice
<1>3. ASSUME NEW i \in Invoices, PreCheckout(i)
      PROVE  StillValid' /\ RefusedOnlyForAnEdit'
  <2>1. /\ invoice[i] # None /\ To(i, "approved") /\ Valid(i) /\ UNCHANGED <<offer, known>>
        /\ changed' = changed \ {i}
    BY <1>3 DEF PreCheckout, Approved, In, subVars
  <2>2. Valid(i)' /\ invoice'[i].phase = "approved"
    BY <1>1, <2>1 DEF Valid, Phase
  <2> QED BY <1>1, <2>1, <2>2, StepOfOneInvoice DEF Phase
<1>4. ASSUME NEW i \in Invoices, Charge(i)
      PROVE  StillValid' /\ RefusedOnlyForAnEdit'
  <2>1. /\ invoice[i] # None /\ To(i, "charged") /\ UNCHANGED <<offer, changed, known>>
        /\ invoice[i].kind = "stars" => invoice[i].phase = "approved"
    BY <1>4 DEF Charge, In, subVars
  <2>2. invoice[i].kind = "stars" => Valid(i)' \/ i \in changed'
    BY <1>1, <2>1 DEF Valid, Phase, StillValid
  <2>3. invoice'[i].kind = invoice[i].kind /\ invoice'[i].phase = "charged"
    BY <1>1, <2>1 DEF Phase
  <2> QED BY <1>1, <2>1, <2>2, <2>3, StepOfOneInvoice DEF Phase
<1>5. ASSUME NEW i \in Invoices, invoice[i] # None, Granted(i), NEW phase \in {"answered", "charged"},
             invoice[i].kind = "stars" => phase = "answered",
             invoice' = [invoice EXCEPT ![i].phase = phase, ![i].grants = @ + 1]
      PROVE  StillValid' /\ RefusedOnlyForAnEdit'
  <2>1. UNCHANGED <<offer, changed, known>>
    BY <1>5 DEF Granted
  <2>2. invoice[i] \in InvoiceRow
    BY <1>5 DEF PayTypeOK
  <2>3. /\ invoice'[i] = [invoice[i] EXCEPT !.phase = phase, !.grants = @ + 1]
        /\ \A j \in Invoices \ {i} : invoice'[j] = invoice[j]
    BY <1>5 DEF PayTypeOK
  <2>4. invoice'[i].phase = phase /\ invoice'[i].kind = invoice[i].kind
    BY <2>2, <2>3 DEF InvoiceRow
  <2> QED BY <1>5, <2>1, <2>3, <2>4, StepOfOneInvoice
<1>6. ASSUME NEW i \in Invoices, invoice[i] # None, To(i, "dropped"),
             UNCHANGED <<offer, changed, known>>
      PROVE  StillValid' /\ RefusedOnlyForAnEdit'
  <2>1. invoice'[i].phase = "dropped" /\ \A j \in Invoices \ {i} : invoice'[j] = invoice[j]
    BY <1>1, <1>6 DEF Phase
  <2> QED BY <1>6, <2>1, StepOfOneInvoice
<1>7. ASSUME NEW i \in Invoices, SuccessfulPayment(i)
      PROVE  StillValid' /\ RefusedOnlyForAnEdit'
  <2>1. invoice[i] # None /\ invoice[i].kind = "stars" /\ invoice[i].phase = "charged"
    BY <1>7 DEF SuccessfulPayment, In
  <2>2. ASSUME ~Valid(i), To(i, "refused"), UNCHANGED <<offer, changed, known>>
        PROVE  StillValid' /\ RefusedOnlyForAnEdit'
    <3>1. i \in changed /\ invoice'[i].phase = "refused"
      BY <1>1, <2>1, <2>2 DEF StillValid, Phase
    <3> QED BY <1>1, <2>1, <2>2, <3>1, StepOfOneInvoice DEF Phase
  <2> QED BY <1>5, <1>6, <1>7, <2>1, <2>2 DEF SuccessfulPayment, subVars
<1>8. ASSUME NEW i \in Invoices, CryptoWebhook(i)
      PROVE  StillValid' /\ RefusedOnlyForAnEdit'
  BY <1>5, <1>6, <1>8 DEF CryptoWebhook, In, subVars
<1> QED BY <1>2, <1>3, <1>4, <1>7, <1>8, EditIsNoted DEF PayNext

\* The table of users only grows.
LEMMA KnownStays ==
    ASSUME ConvNext \/ BatchNext \/ SubNext PROVE known \subseteq known'
<1>1. ASSUME NEW u, NEW p, NEW d, NEW mode, ApplyGrant(u, p, d, mode) PROVE known \subseteq known'
  BY <1>1 DEF ApplyGrant, Ensured
<1>2. ASSUME NEW a, NEW c, NEW mode, FinishGrant(a, c, mode) PROVE known \subseteq known'
  BY <1>1, <1>2 DEF FinishGrant, GoTo, subVars
<1>3. CASE ConvNext
  BY <1>2, <1>3 DEF ConvNext, GrantOpen, ShowPlans, GrantSent, GrantCancel, PickUser,
     ShowPlansFor, ReceivePlan, ReceiveDays, ReceiveMode, GoTo, subVars
<1>4. CASE BatchNext
  BY <1>4 DEF BatchNext, CodesOpen, CodesShowPlans, CodesIssueFails, NameKnown,
     CodesIssued, LinksLost, CodesCancel, CodesBrowse, CodesReceivePlan, CodesReceiveDays,
     CodesReceiveCount, CodesIssue, IssueCodes, CodesRevoke, RevokeCode, TurnTo,
     NamedElsewhere, subVars
<1>5. CASE SubNext
  BY <1>5 DEF SubNext, Start, RevokeSubscription, LookAtCode, ClaimCode, Ensured, RedeemFails,
     DayPasses
<1> QED BY <1>3, <1>4, <1>5

\* What the pre-checkout approved is granted when it is paid, unless an admin edited
\* the plan in between or the database failed: for any number of invoices, users,
\* plans and edits (README.md:83).
THEOREM ApprovedIsNotRefused == Spec => []RefusedOnlyForAnEdit
<1> DEFINE Noted == StillValid /\ RefusedOnlyForAnEdit
<1>1. Init => Noted
  BY DEF Init, PayInit, StillValid, RefusedOnlyForAnEdit
<1>2. Inv /\ Typed /\ Noted /\ [Next]_vars => Noted'
  <2> SUFFICES ASSUME Inv, Typed, Noted, [Next]_vars PROVE Noted'
    OBVIOUS
  <2>1. CASE PayNext
    BY <2>1, PaymentIsNoted DEF Typed, PayTyped
  <2>2. ASSUME UNCHANGED payVars, known \subseteq known' PROVE Noted'
    BY <2>2 DEF payVars, StillValid, RefusedOnlyForAnEdit, Valid
  <2>3. ASSUME ConvNext \/ BatchNext \/ SubNext PROVE known \subseteq known'
    BY <2>3, KnownStays
  <2>4. CASE UNCHANGED vars
    BY <2>2, <2>4 DEF vars, subVars
  <2> QED BY <2>1, <2>2, <2>3, <2>4 DEF Next
<1> QED BY <1>1, <1>2, InvAlways, TypedAlways, PTL DEF Spec
====
