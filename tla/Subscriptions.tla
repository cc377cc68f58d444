---------------------------- MODULE Subscriptions ----------------------------
(***************************************************************************)
(* subscription_grants.py, database.grant_subscription: the subscription   *)
(* rows of each user, the activation codes and their audit rows.  A        *)
(* database function is one transaction and one step, except a redemption, *)
(* whose first look at the code and conditional UPDATE are two: the tests   *)
(* run redeemers in threads, and the UPDATE is "the race gate".            *)
(***************************************************************************)
EXTENDS Integers, FiniteSets, Sequences, FiniteSetsExt

CONSTANTS Users, Plans, Codes, Redeemers,
          PlanDays,      \* plan -> its duration_days
          Days,          \* the numbers of days an admin may choose
          LegacyRows,    \* the active rows a user may have before the bot starts
          MaxNow, MaxEnd, \* bounds: the days that pass, the latest end of a row
          None, Never

ASSUME PlansAssumption == PlanDays \in [Plans -> Nat \ {0}] /\ Days \subseteq Nat \ {0}
ASSUME BoundsAssumption == MaxNow \in Nat /\ MaxEnd \in Nat
ASSUME RowsAssumption == LegacyRows \subseteq SUBSET [plan : Plans, end : 0..MaxEnd]

VARIABLES
    now,      \* utcnow(), in days
    known,    \* the users with a row in table users
    active,   \* user -> the rows of subscriptions with is_active, as [plan, end]
    codes,    \* code -> its activation_codes row, or None
    audit,    \* code -> the users of the plan_grants rows that name it, in order
    redeem    \* redeemer -> the code, user and clock of its transaction, or None

subVars == <<now, known, active, codes, audit, redeem>>

CodeRow == [plan : Plans, days : Days, expires : Nat \cup {Never},
            usedBy : Users \cup {None}, usedAt : Nat, revoked : BOOLEAN]
Claim == [code : Codes, user : Users, at : Nat]

\* None and Never are names of their own
ASSUME NamesAssumption == /\ None \notin Users \cup CodeRow \cup Claim
                          /\ Never \notin Nat

SubTypeOK ==
    /\ now \in 0..MaxNow /\ known \subseteq Users
    /\ active \in [Users -> SUBSET [plan : Plans, end : Nat]]
    /\ codes \in [Codes -> CodeRow \cup {None}]
    /\ audit \in [Codes -> Seq(Users)]
    /\ redeem \in [Redeemers -> Claim \cup {None}]

SubInit ==
    /\ now = 0 /\ known \in SUBSET Users
    /\ active \in [Users -> LegacyRows]
    /\ \A u \in Users \ known : active[u] = {}
    /\ codes = [c \in Codes |-> None]
    /\ audit = [c \in Codes |-> <<>>]
    /\ redeem = [r \in Redeemers |-> None]

-----------------------------------------------------------------------------
LatestEnd(rows) == Max({r.end : r \in rows} \cup {0})

\* A bug to be caught: the comparison with the clock is turned around
HasExpired(rows, at) == \E r \in rows : r.end <= at

\* _current_subscription: some active row has not ended
HasCurrent(rows, at) == \E r \in rows : r.end >= at

\* A bug to be caught: an extension counts from today, not from the expiry
AppliedFromToday(rows, plan, days, mode, at) == {[plan |-> plan, end |-> days + at]}

\* _apply_subscription: the rows that remain active
Applied(rows, plan, days, mode, at) ==
    {[plan |-> plan,
      end |-> days + IF mode = "extend" /\ HasCurrent(rows, at) THEN LatestEnd(rows) ELSE at]}

\* A bug to be caught: the user row is looked up and never created
EnsuredBefore(u) == known

\* _ensure_user, and the creation of the user in apply_plan_grant
Ensured(u) == known \cup {u}

InBounds(rows) == \A r \in rows : r.end <= MaxEnd

\* apply_plan_grant with create_user, as the admin's conversation calls it;
\* mode "grant" is refused (ERR_CHOOSE_MODE) while a subscription is current
MustChooseMode(u, mode) == mode = "grant" /\ HasCurrent(active[u], now)

ApplyGrant(u, plan, days, mode) ==
    LET rows == Applied(active[u], plan, days, mode, now)
    IN  /\ ~MustChooseMode(u, mode) /\ InBounds(rows)
        /\ active' = [active EXCEPT ![u] = rows]
        /\ known' = Ensured(u)

\* grant_subscription: a paid plan replaces whatever is active
GrantPaid(u, plan) ==
    /\ u \in known
    /\ active' = [active EXCEPT ![u] = Applied(@, plan, PlanDays[plan], "replace", now)]
    /\ InBounds(active'[u])

\* revoke_subscription
RevokeSubscription(u) ==
    /\ u \in known /\ active[u] # {}
    /\ active' = [active EXCEPT ![u] = {}]
    /\ UNCHANGED <<now, known, codes, audit, redeem>>

-----------------------------------------------------------------------------
\* issue_activation_codes: one transaction for the whole batch
IssueCodes(S, plan, days, expires) ==
    /\ S # {} /\ \A c \in S : codes[c] = None
    /\ expires # Never => expires > now
    /\ codes' = [c \in Codes |->
           IF c \in S THEN [plan |-> plan, days |-> days, expires |-> expires,
                            usedBy |-> None, usedAt |-> 0, revoked |-> FALSE]
           ELSE codes[c]]
    /\ UNCHANGED <<now, known, active, audit, redeem>>

\* revoke_activation_code: its WHERE does not ask for the expiry
RevokeCode(c) ==
    /\ codes[c] # None /\ codes[c].usedBy = None /\ ~codes[c].revoked
    /\ codes' = [codes EXCEPT ![c].revoked = TRUE]
    /\ UNCHANGED <<now, known, active, audit, redeem>>

\* _code_status(code, at) = "unused"
Unused(row, at) ==
    row.usedBy = None /\ ~row.revoked /\ (row.expires # Never => row.expires > at)

\* redeem_activation_code up to the claim: the clock and the code are read
LookAtCode(r, c, u) ==
    /\ redeem[r] = None /\ codes[c] # None /\ Unused(codes[c], now)
    /\ redeem' = [redeem EXCEPT ![r] = [code |-> c, user |-> u, at |-> now]]
    /\ UNCHANGED <<now, known, active, codes, audit>>

\* Bugs to be caught: the UPDATE names the code by its id alone, or forgets
\* that it may have been revoked or have expired
ClaimableById(row, at) == row # None
ClaimableUnlessUsed(row, at) == row.usedBy = None

\* The WHERE of the conditional UPDATE, evaluated on the row as it is now
Claimable(row, at) == Unused(row, at)

\* The claim, the extension and the audit row, committed together
ClaimCode(r) ==
    LET q == redeem[r]
        row == codes[q.code]
        rows == Applied(active[q.user], row.plan, row.days, "extend", q.at)
    IN  /\ q # None /\ Claimable(row, q.at) /\ InBounds(rows)
        /\ codes' = [codes EXCEPT ![q.code].usedBy = q.user, ![q.code].usedAt = q.at]
        /\ active' = [active EXCEPT ![q.user] = rows]
        /\ audit' = [audit EXCEPT ![q.code] = Append(@, q.user)]
        /\ known' = Ensured(q.user)
        /\ redeem' = [redeem EXCEPT ![r] = None]
        /\ UNCHANGED now

\* The claim finds no row, or the transaction fails: everything is rolled back
RedeemFails(r) ==
    /\ redeem[r] # None
    /\ redeem' = [redeem EXCEPT ![r] = None]
    /\ UNCHANGED <<now, known, active, codes, audit>>

\* start_handler's update_user_details
Start(u) ==
    /\ u \notin known
    /\ known' = known \cup {u}
    /\ UNCHANGED <<now, active, codes, audit, redeem>>

DayPasses == now < MaxNow /\ now' = now + 1
             /\ UNCHANGED <<known, active, codes, audit, redeem>>

SubNext ==
    \/ \E u \in Users : Start(u) \/ RevokeSubscription(u)
    \/ \E r \in Redeemers :
           \/ \E c \in Codes, u \in Users : LookAtCode(r, c, u)
           \/ ClaimCode(r) \/ RedeemFails(r)
    \/ DayPasses

-----------------------------------------------------------------------------
\* The codes as vouchers.  Single use: two redeemers, a revocation and an
\* audit row never disagree about who redeemed a code (subscription_grants.py:604).
Abstract == INSTANCE Voucher WITH
    status <- [c \in Codes |->
        IF codes[c] = None THEN "blank"
        ELSE IF codes[c].usedBy # None THEN "used"
        ELSE IF codes[c].revoked THEN "revoked" ELSE "unused"],
    credited <- audit

VoucherSpec == Abstract!Spec

\* A redeemed code had not expired by the redemption's clock, was not revoked
\* before or after, and its one audit row names the user who holds it.
RedeemedWhileValid ==
    \A c \in Codes :
        /\ codes[c] # None /\ codes[c].usedBy # None =>
              /\ ~codes[c].revoked
              /\ codes[c].expires # Never => codes[c].usedAt < codes[c].expires
        /\ audit[c] = IF codes[c] = None THEN <<>>
                      ELSE IF codes[c].usedBy = None THEN <<>> ELSE <<codes[c].usedBy>>

Entitlement(u) == LatestEnd(active[u])

\* Redeeming a code adds its days to what the user has, or counts them from
\* the clock the redemption read, whichever is later: nobody loses days to a
\* revocation, a payment or midnight between the look and the claim.
RedeemAddsItsDays ==
    [][\A c \in Codes, u \in Users :
          codes[c] # None /\ codes[c].usedBy = None /\ codes'[c].usedBy = u =>
              /\ Entitlement(u)' >= Entitlement(u) + codes[c].days
              /\ Entitlement(u)' >= codes'[c].usedAt + codes[c].days
              /\ \A v \in Users \ {u} : active'[v] = active[v]]_subVars

\* A user whom the table does not know has no subscription and holds no code.
SubscribersAreKnown ==
    \A u \in Users \ known : active[u] = {} /\ \A c \in Codes :
        codes[c] # None => codes[c].usedBy # u
=============================================================================
