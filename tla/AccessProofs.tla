---------------------------- MODULE AccessProofs ----------------------------
(***************************************************************************)
(* Who may appoint admins and how many there are, that what the            *)
(* conversations carry out was asked for in full, how many answers a user  *)
(* gets, and the types of all variables: for any users, plans, passwords,  *)
(* limits and scenes.                                                      *)
(***************************************************************************)
EXTENDS AccountAccess, FiniteSetTheorems, WellFoundedInduction, TLAPS

(***************************************************************************)
(* Admins.                                                                 *)
(***************************************************************************)
Calls == [kind : {"addadmin", "deladmin"}, by : Person] \cup {Idle}

Appointer == owned \cup {Self}

\* Whoever is about to appoint someone, having been looked at before a name was looked
\* up, has owned the account.
RightsInv ==
    /\ owner \in owned /\ owned \subseteq User
    /\ admins \in [Person -> Person \cup {None}]
    /\ tx \in [Process -> Insert \cup {None}]
    /\ looking \subseteq owned
    /\ call \in [Call -> Calls]
    /\ \A p \in Process : tx[p] # None => tx[p].by \in Appointer
    /\ \A c \in Call : call[c] # Idle => call[c].by \in Appointer
    /\ AppointedByOwners

PendingOf(p) == IF tx[p] # None THEN 1 ELSE 0

\* Every insert under way was begun with room for one.
CountInv == /\ IsFiniteSet(Admins)
            /\ Cardinality(Admins) + PendingOf("bot") + PendingOf("worker") <= MaxAdmins + 1

\* A new account has at most one admin, whom its owner has appointed.
LEMMA RightsInitially == Init => RightsInv /\ CountInv
<1> SUFFICES ASSUME Init PROVE RightsInv /\ CountInv
  OBVIOUS
<1>1. PICK x \in Person :
        admins = [y \in Person |-> IF y = x /\ x # owner THEN owner ELSE None]
  BY DEF Init, RightsInit
<1>2. owner \in User /\ owned = {owner} /\ tx = [p \in Process |-> None] /\ looking = {}
      /\ call = [c \in Call |-> Idle]
  BY DEF Init, RightsInit, GateInit
<1>3. Admins \subseteq {x}
  BY <1>1 DEF Admins
<1>4. RightsInv
  BY <1>1, <1>2 DEF RightsInv, Calls, Admins, AppointedByOwners, Appointer, Person
<1>5. IsFiniteSet(Admins) /\ Cardinality(Admins) <= 1
  <2>1. IsFiniteSet({x}) /\ Cardinality({x}) = 1
    BY FS_Singleton
  <2> QED BY <1>3, <2>1, FS_Subset
<1>6. PendingOf("bot") = 0 /\ PendingOf("worker") = 0
  BY <1>2 DEF PendingOf, Process
<1>7. Cardinality(Admins) \in Nat
  BY <1>5, FS_CardinalityType
<1> QED BY <1>4, <1>5, <1>6, <1>7, MaxAdminsAssumption DEF CountInv

\* Steps that appoint and dismiss nobody keep the invariants, whoever owns the account.
LEMMA NobodyAppointed ==
    ASSUME RightsInv, CountInv, UNCHANGED <<admins, tx, call>>, looking' \subseteq owned',
           owner' \in owned', owned \subseteq owned', owned' \subseteq User
    PROVE  RightsInv' /\ CountInv'
<1>1. RightsInv'
  BY DEF RightsInv, Appointer, AppointedByOwners, Admins, Calls
<1>2. CountInv'
  BY DEF CountInv, Admins, PendingOf
<1> QED BY <1>1, <1>2

\* Dismissing someone keeps them.
LEMMA Dismissed ==
    ASSUME RightsInv, CountInv, NEW t \in Person, Dismisses(t),
           UNCHANGED <<owner, owned, tx, looking>>, call' \in [Call -> Calls],
           \A c \in Call : call'[c] # Idle => call'[c] = call[c]
    PROVE  RightsInv' /\ CountInv'
<1>1. admins' \in [Person -> Person \cup {None}]
      /\ \A x \in Person : admins'[x] = IF x = t THEN None ELSE admins[x]
  BY DEF Dismisses, RightsInv
<1>2. Admins' \subseteq Admins
  BY <1>1 DEF Admins
<1>3. RightsInv'
  BY <1>1, <1>2 DEF RightsInv, Appointer, AppointedByOwners, Admins
<1>4. CountInv'
  <2>1. IsFiniteSet(Admins') /\ Cardinality(Admins') <= Cardinality(Admins)
    BY <1>2, FS_Subset DEF CountInv
  <2>2. Cardinality(Admins') \in Nat /\ Cardinality(Admins) \in Nat
    BY <2>1, FS_CardinalityType DEF CountInv
  <2>3. UNCHANGED <<PendingOf("bot"), PendingOf("worker")>>
    BY DEF PendingOf
  <2>4. PendingOf("bot") \in Nat /\ PendingOf("worker") \in Nat
    BY DEF PendingOf
  <2> QED BY <2>1, <2>2, <2>3, <2>4, MaxAdminsAssumption DEF CountInv
<1> QED BY <1>3, <1>4

\* Beginning to appoint someone keeps them: there is room for one.
LEMMA AddBegun ==
    ASSUME RightsInv, CountInv, NEW p \in Process, NEW t \in Person, NEW x \in Appointer,
           Free(p), AddStarts(p, t, x),
           UNCHANGED <<owner, owned, admins>>, looking' \subseteq owned,
           call' \in [Call -> Calls],
           \A c \in Call : call'[c] # Idle => call'[c] = call[c]
    PROVE  RightsInv' /\ CountInv'
<1>1. x \in Person
  BY DEF RightsInv, Appointer, Person
<1>2. [to |-> t, by |-> x] \in Insert
  BY <1>1 DEF Insert
<1>3. CASE UNCHANGED tx
  <2>1. RightsInv'
    BY <1>3 DEF RightsInv, Appointer, AppointedByOwners, Admins
  <2>2. CountInv'
    BY <1>3 DEF CountInv, Admins, PendingOf
  <2> QED BY <2>1, <2>2
<1>4. CASE RoomForAdmin /\ tx' = [tx EXCEPT ![p] = [to |-> t, by |-> x]]
  <2>1. tx' \in [Process -> Insert \cup {None}]
        /\ \A q \in Process : tx'[q] # None => tx'[q].by \in Appointer
    BY <1>2, <1>4 DEF RightsInv
  <2>2. RightsInv'
    BY <2>1 DEF RightsInv, Appointer, AppointedByOwners, Admins
  <2>3. Cardinality(Admins) \in Nat /\ Cardinality(Admins) < MaxAdmins
    BY <1>4, FS_CardinalityType DEF RoomForAdmin, CountInv
  <2>4. PendingOf("bot")' \in 0..1 /\ PendingOf("worker")' \in 0..1
    BY DEF PendingOf
  <2>5. Admins' = Admins
    BY DEF Admins
  <2>6. Cardinality(Admins) + PendingOf("bot")' + PendingOf("worker")' <= MaxAdmins + 1
    BY <2>3, <2>4, MaxAdminsAssumption
  <2>7. CountInv'
    BY <2>5, <2>6 DEF CountInv
  <2> QED BY <2>2, <2>7
<1> QED BY <1>3, <1>4 DEF AddStarts

\* The commit keeps them: the insert becomes an admin, or nothing.
LEMMA Committed ==
    ASSUME RightsInv, CountInv, NEW p \in Process, AddCommits(p), UNCHANGED call
    PROVE  RightsInv' /\ CountInv'
<1>1. tx[p] \in Insert /\ tx[p] # None /\ tx[p].by \in Appointer
  BY DEF AddCommits, RightsInv
<1>2. PICK t \in Person, x \in Appointer : tx[p].to = t /\ tx[p].by = x
  BY <1>1 DEF Insert
<1>3. x \in Person
  BY DEF RightsInv, Appointer, Person
<1>4. UNCHANGED <<owner, owned, looking>>
  BY DEF AddCommits, rowVars
<1>5. tx' = [tx EXCEPT ![p] = None]
  BY DEF AddCommits
<1>6. tx' \in [Process -> Insert \cup {None}]
      /\ \A q \in Process : tx'[q] # None => tx'[q] = tx[q]
  BY <1>5 DEF RightsInv
<1>7. PendingOf(p) = 1 /\ PendingOf(p)' = 0
      /\ \A q \in Process \ {p} : PendingOf(q)' = PendingOf(q)
  BY <1>1, <1>5 DEF PendingOf, RightsInv
<1>8. PendingOf("bot")' + PendingOf("worker")' + 1 = PendingOf("bot") + PendingOf("worker")
      /\ PendingOf("bot")' \in Nat /\ PendingOf("worker")' \in Nat
  <2>1. \A q \in Process : PendingOf(q) \in 0..1 /\ PendingOf(q)' \in 0..1
    BY DEF PendingOf
  <2>2. p = "bot" \/ p = "worker"
    BY DEF Process
  <2> QED BY <1>7, <2>1, <2>2 DEF Process
<1>9. CASE UNCHANGED admins
  <2>1. RightsInv'
    BY <1>4, <1>6, <1>9 DEF RightsInv, Appointer, AppointedByOwners, Admins
  <2>2. Admins' = Admins
    BY <1>9 DEF Admins
  <2>3. Cardinality(Admins) \in Nat
    BY FS_CardinalityType DEF CountInv
  <2>4. CountInv'
    BY <1>8, <2>2, <2>3, MaxAdminsAssumption DEF CountInv, PendingOf
  <2> QED BY <2>1, <2>4
<1>10. CASE admins' = [admins EXCEPT ![tx[p].to] = tx[p].by]
  <2>1. admins' \in [Person -> Person \cup {None}]
        /\ \A y \in Person : admins'[y] = IF y = t THEN x ELSE admins[y]
    BY <1>2, <1>3, <1>10 DEF RightsInv
  <2>2. RightsInv'
    BY <1>4, <1>6, <2>1 DEF RightsInv, Appointer, AppointedByOwners, Admins
  <2>3. Admins' \subseteq Admins \cup {t}
    BY <2>1 DEF Admins
  <2>4. IsFiniteSet(Admins \cup {t}) /\ Cardinality(Admins \cup {t}) <= Cardinality(Admins) + 1
    <3>1. IsFiniteSet(Admins) /\ Cardinality(Admins) \in Nat
      BY FS_CardinalityType DEF CountInv
    <3>2. IsFiniteSet(Admins \cup {t})
          /\ Cardinality(Admins \cup {t})
                = IF t \in Admins THEN Cardinality(Admins) ELSE Cardinality(Admins) + 1
      BY <3>1, FS_AddElement
    <3> QED BY <3>1, <3>2
  <2>5. IsFiniteSet(Admins') /\ Cardinality(Admins') <= Cardinality(Admins \cup {t})
    BY <2>3, <2>4, FS_Subset
  <2>6. Cardinality(Admins) \in Nat /\ Cardinality(Admins') \in Nat
        /\ Cardinality(Admins \cup {t}) \in Nat
    BY <2>4, <2>5, FS_CardinalityType DEF CountInv
  <2>7. Cardinality(Admins) + PendingOf("bot") + PendingOf("worker") <= MaxAdmins + 1
    BY DEF CountInv
  <2>8. PendingOf("bot") \in Nat /\ PendingOf("worker") \in Nat
    BY DEF PendingOf
  <2>9. Cardinality(Admins') + PendingOf("bot")' + PendingOf("worker")' <= MaxAdmins + 1
    BY <1>8, <2>4, <2>5, <2>6, <2>7, <2>8, MaxAdminsAssumption
  <2>10. CountInv'
    BY <2>5, <2>9 DEF CountInv
  <2> QED BY <2>2, <2>10
<1> QED BY <1>9, <1>10 DEF AddCommits

\* A tap in the control bot's menus keeps them.
LEMMA AdminStepKeeps ==
    ASSUME RightsInv, CountInv, AdminStep, Free("bot"), UNCHANGED call
    PROVE  RightsInv' /\ CountInv'
<1> USE DEF rowVars
<1>1. call' \in [Call -> Calls] /\ \A c \in Call : call'[c] # Idle => call'[c] = call[c]
  BY DEF RightsInv
<1>2. ASSUME UNCHANGED <<admins, tx, owner, owned>>, looking' \subseteq owned
      PROVE  RightsInv' /\ CountInv'
  BY <1>2, NobodyAppointed DEF RightsInv
<1>3. ASSUME NEW u \in User, AsksAdmin(u) \/ CancelsAdmin(u) PROVE RightsInv' /\ CountInv'
  BY <1>2, <1>3 DEF AsksAdmin, CancelsAdmin, rightsVars, adminVars, RightsInv
<1>4. ASSUME NEW u \in User, ReadsAdmin(u) PROVE RightsInv' /\ CountInv'
  <2>1. UNCHANGED <<owner, owned, admins>>
    BY <1>4 DEF ReadsAdmin
  <2>2. CASE UNCHANGED tx /\ UNCHANGED looking
    BY <1>2, <2>1, <2>2 DEF RightsInv
  <2>3. CASE MayAppoint(u) /\ UNCHANGED tx /\ looking' = looking \cup {u}
    BY <1>2, <2>1, <2>3 DEF RightsInv, MayAppoint, IsOwner
  <2>4. ASSUME MayAppoint(u), UNCHANGED looking, NEW t \in Person, AddStarts("bot", t, u)
        PROVE  RightsInv' /\ CountInv'
    <3>1. u \in Appointer /\ looking' \subseteq owned
      BY <2>4 DEF MayAppoint, IsOwner, RightsInv, Appointer
    <3> QED BY <1>1, <2>1, <2>4, <3>1, AddBegun DEF Process
  <2> QED BY <1>4, <2>2, <2>3, <2>4 DEF ReadsAdmin
<1>5. ASSUME NEW u \in User, LookedUp(u) PROVE RightsInv' /\ CountInv'
  <2>1. UNCHANGED <<owner, owned, admins>> /\ looking' \subseteq owned /\ u \in Appointer
    BY <1>5 DEF LookedUp, RightsInv, Appointer
  <2>2. CASE UNCHANGED tx
    BY <1>2, <2>1, <2>2
  <2>3. ASSUME NEW t \in Person, AddStarts("bot", t, u) PROVE RightsInv' /\ CountInv'
    BY <1>1, <2>1, <2>3, AddBegun DEF Process
  <2> QED BY <1>5, <2>2, <2>3 DEF LookedUp
<1>6. ASSUME NEW t \in Person, Dismisses(t), UNCHANGED <<rowVars, tx, looking>>
      PROVE  RightsInv' /\ CountInv'
  BY <1>1, <1>6, Dismissed
<1>7. ASSUME NEW u \in User, NEW t \in Person, RemovesListed(u, t)
      PROVE  RightsInv' /\ CountInv'
  BY <1>6, <1>7 DEF RemovesListed
<1>8. ASSUME NEW x \in Person, NEW t \in Person, RemovesInPanel(x, t)
      PROVE  RightsInv' /\ CountInv'
  BY <1>6, <1>8 DEF RemovesInPanel
<1> QED BY <1>3, <1>4, <1>5, <1>7, <1>8 DEF AdminStep

\* So does a command of the account, whose sender was looked at when it arrived.
LEMMA CommandKeeps ==
    ASSUME RightsInv, CountInv, WorkerStep
    PROVE  RightsInv' /\ CountInv'
<1> USE DEF rowVars
<1>1. PICK c \in Call : \/ \E x \in Person, k \in Command : Dispatches(c, x, k)
                        \/ Resolved(c)
  BY DEF WorkerStep
<1>2. UNCHANGED <<owner, owned, looking>> /\ Free("worker") /\ looking' \subseteq owned
  BY <1>1 DEF Dispatches, Resolved, RightsInv
<1>3. ASSUME NEW x \in Appointer, NEW k, NEW t \in Person, CarriesOut(k, x, t),
             call' \in [Call -> Calls],
             \A d \in Call : call'[d] # Idle => call'[d] = call[d]
      PROVE  RightsInv' /\ CountInv'
  <2>1. CASE k = "addadmin" /\ t # Self
    BY <1>2, <1>3, <2>1, AddBegun DEF CarriesOut, Process
  <2>2. CASE k = "addadmin" /\ t = Self
    <3>1. UNCHANGED <<admins, tx>>
      BY <1>3, <2>2 DEF CarriesOut
    <3>2. RightsInv'
      BY <1>2, <1>3, <3>1 DEF RightsInv, Appointer, AppointedByOwners, Admins
    <3>3. CountInv'
      BY <3>1 DEF CountInv, Admins, PendingOf
    <3> QED BY <3>2, <3>3
  <2>3. CASE k # "addadmin"
    BY <1>2, <1>3, <2>3, Dismissed DEF CarriesOut
  <2> QED BY <2>1, <2>2, <2>3
<1>4. ASSUME UNCHANGED <<admins, tx>>, call' \in [Call -> Calls],
             \A d \in Call : call'[d] # Idle => call'[d].by \in Appointer
      PROVE  RightsInv' /\ CountInv'
  <2>1. RightsInv'
    BY <1>2, <1>4 DEF RightsInv, Appointer, AppointedByOwners, Admins
  <2>2. CountInv'
    BY <1>4 DEF CountInv, Admins, PendingOf
  <2> QED BY <2>1, <2>2
<1>5. ASSUME NEW x \in Person, NEW k \in Command, Dispatches(c, x, k)
      PROVE  RightsInv' /\ CountInv'
  <2>1. CASE UNCHANGED <<call, admins, tx>>
    BY <1>4, <2>1 DEF RightsInv
  <2>2. CASE ~UNCHANGED <<call, admins, tx>>
    <3>1. PluginOf(k) = "delegates" /\ (Role(x) = "admin" => k \notin OwnerOnly)
          /\ \/ call' = [call EXCEPT ![c] = [kind |-> k, by |-> x]] /\ UNCHANGED <<admins, tx>>
             \/ UNCHANGED call /\ \E t \in Person : CarriesOut(k, x, t)
      BY <1>5, <2>2 DEF Dispatches
    <3>2. k \in {"addadmin", "deladmin"}
      BY <3>1 DEF PluginOf
    <3>3. x \in Appointer
      BY <3>1, <3>2 DEF Role, OwnerOnly, Command, Appointer, RightsInv
    <3>4. CASE call' = [call EXCEPT ![c] = [kind |-> k, by |-> x]] /\ UNCHANGED <<admins, tx>>
      <4>1. [kind |-> k, by |-> x] \in Calls
        BY <3>2 DEF Calls
      <4> QED BY <1>4, <3>3, <3>4, <4>1 DEF RightsInv
    <3>5. ASSUME UNCHANGED call, NEW t \in Person, CarriesOut(k, x, t)
          PROVE  RightsInv' /\ CountInv'
      BY <1>3, <3>3, <3>5 DEF RightsInv
    <3> QED BY <3>1, <3>4, <3>5
  <2> QED BY <2>1, <2>2
<1>6. ASSUME Resolved(c) PROVE RightsInv' /\ CountInv'
  <2>1. call[c] # Idle /\ call' = [call EXCEPT ![c] = Idle] /\ call[c].by \in Appointer
    BY <1>6 DEF Resolved, RightsInv
  <2>2. call' \in [Call -> Calls] /\ \A d \in Call : call'[d] # Idle => call'[d] = call[d]
    BY <2>1 DEF RightsInv, Calls
  <2>3. CASE UNCHANGED <<admins, tx>>
    BY <1>4, <2>2, <2>3 DEF RightsInv
  <2>4. ASSUME NEW t \in Person, CarriesOut(call[c].kind, call[c].by, t)
        PROVE  RightsInv' /\ CountInv'
    BY <1>3, <2>1, <2>2, <2>4
  <2> QED BY <1>6, <2>3, <2>4 DEF Resolved
<1> QED BY <1>1, <1>5, <1>6

\* Everything else appoints nobody.
LEMMA RightsKept ==
    ASSUME RightsInv, CountInv, [Next]_vars
    PROVE  RightsInv' /\ CountInv'
<1> USE DEF rightsVars, rowVars, teamVars, adminVars, gateVars
<1>1. ASSUME UNCHANGED <<admins, tx, call, looking, owner, owned>>
      PROVE  RightsInv' /\ CountInv'
  BY <1>1, NobodyAppointed DEF RightsInv
<1>2. CASE UNCHANGED vars
  BY <1>1, <1>2 DEF vars
<1>3. CASE BotStep /\ UNCHANGED gateVars
  <2>1. CASE PlanStep /\ UNCHANGED rightsVars
    BY <1>1, <1>3, <2>1
  <2>2. CASE RowStep
    <3>1. UNCHANGED <<admins, tx, looking>> /\ owner' \in owned' /\ owned \subseteq owned'
          /\ owned' \subseteq User
      BY <2>2 DEF RowStep, TransferAccount, DeleteAccount, ReviveAccount, RightsInv
    <3> QED BY <1>3, <3>1, NobodyAppointed DEF RightsInv
  <2>3. CASE \E u \in User : SubscriptionChanges(u)
    BY <1>1, <1>3, <2>3 DEF SubscriptionChanges
  <2>4. CASE TeamStep
    BY <1>1, <1>3, <2>4 DEF TeamStep, AsksManager, CancelsManager, ReadsManager, RotatesLink,
                            RemovesManager
  <2>5. CASE AdminStep /\ Free("bot")
    BY <1>3, <2>5, AdminStepKeeps
  <2>6. CASE PluginStep
    BY <1>1, <1>3, <2>6 DEF PluginStep, MenuSetsPlugin, TogglesColumn, PanelSetsPlugin,
                            SetAccountPlugin, AsksSetting, ReadsSetting
  <2>7. CASE UNCHANGED rightsVars
    BY <1>1, <1>3, <2>7
  <2> QED BY <1>3, <2>1, <2>2, <2>3, <2>4, <2>5, <2>6, <2>7 DEF BotStep
<1>4. CASE (OpenStep \/ PasswordStep) /\ UNCHANGED gateVars
  BY <1>1, <1>4 DEF OpenStep, LinkStep, OpensLink, PasswordStep
<1>5. CASE WorkerStep
  BY <1>5, CommandKeeps
<1>6. ASSUME NEW p \in Process, AddCommits(p), UNCHANGED gateVars
      PROVE  RightsInv' /\ CountInv'
  BY <1>6, Committed
<1>7. CASE Ticks
  BY <1>1, <1>7 DEF Ticks
<1> QED BY <1>2, <1>3, <1>4, <1>5, <1>6, <1>7 DEF Next

\* Every admin was appointed by the account itself or by someone who has owned it.
THEOREM OwnersAppoint == Spec => []AppointedByOwners
<1>1. RightsInv /\ CountInv => AppointedByOwners
  BY DEF RightsInv
<1> QED BY <1>1, RightsInitially, RightsKept, PTL DEF Spec

\* Two processes that count before they insert miss the limit by one at most, however
\* many people there are.
THEOREM LimitMissedByOne == Spec => []AdminsNearlyWithinLimit
<1>1. RightsInv /\ CountInv => AdminsNearlyWithinLimit
  <2> SUFFICES ASSUME CountInv PROVE AdminsNearlyWithinLimit
    OBVIOUS
  <2>1. Cardinality(Admins) \in Nat /\ PendingOf("bot") \in Nat /\ PendingOf("worker") \in Nat
    BY FS_CardinalityType DEF CountInv, PendingOf
  <2> QED BY <2>1, MaxAdminsAssumption DEF CountInv, AdminsNearlyWithinLimit
<1> QED BY <1>1, RightsInitially, RightsKept, PTL DEF Spec
-----------------------------------------------------------------------------
(***************************************************************************)
(* What was asked for in full.                                             *)
(***************************************************************************)
\* Every question that lies behind has its answer in the draft, if there is one.
DraftsInv ==
    /\ step \in [Admin -> 0..7] /\ draft \in [Admin -> Draft \cup {None}]
    /\ \A a \in Admin : draft[a] # None =>
          /\ step[a] \in 2..7 => draft[a].name # None
          /\ step[a] = 7 => draft[a].limit # None

Typed == [account : BOOLEAN, new : Maybe, current : Maybe]

\* A password that waits to be confirmed is the last text that was read.
PasswordsInv ==
    /\ prompt \in [User -> Prompt \cup {None}]
    /\ typed \in [User -> Typed] /\ last \in [User -> Maybe]
    /\ work \in [Task -> Handling \cup {None}]
    /\ \A u \in User : prompt[u] \in DOMAIN Before /\ typed[u].new # None
                        => last[u] = typed[u].new
    /\ PasswordsAreTypedTwice

\* Nobody has been asked for anything.
LEMMA AskedInitially == Init => DraftsInv /\ PasswordsInv
<1> SUFFICES ASSUME Init PROVE DraftsInv /\ PasswordsInv
  OBVIOUS
<1>1. DraftsInv
  BY DEF Init, PlanInit, DraftsInv
<1>2. Blank \in Typed
  BY DEF Blank, Typed, Maybe
<1>3. /\ prompt = [u \in User |-> None] /\ typed = [u \in User |-> Blank]
      /\ work = [t \in Task |-> None] /\ last = [u \in User |-> None]
  BY DEF Init, TwoStepInit
<1>4. Blank.new = None
  BY DEF Blank
<1>5. PasswordsInv
  BY <1>2, <1>3, <1>4 DEF PasswordsInv, PasswordsAreTypedTwice, Maybe
<1> QED BY <1>1, <1>5

\* The conversation that creates a plan keeps its invariant.
LEMMA PlanStepKeeps ==
    ASSUME DraftsInv, PlanStep
    PROVE  DraftsInv'
<1> USE DEF DraftsInv
<1>1. PICK a \in Admin : \/ CreateStarts(a) \/ CreateReads(a)
                         \/ CreateSaves(a) \/ CreateEnds(a)
                         \/ EditReads(a) \/ EditEnds(a) \/ EditsContent(a)
                         \/ \E p \in Plan : EditMenu(a, p)
                         \/ \E f \in Field : EditStarts(a, f)
  BY DEF PlanStep
<1>2. CASE UNCHANGED <<step, draft>>
  BY <1>2
<1>3. CASE CreateStarts(a)
  <2>1. NoDraft \in Draft
    BY DEF NoDraft, Draft
  <2> QED BY <1>3, <2>1 DEF CreateStarts
<1>4. CASE CreateReads(a) /\ ~UNCHANGED <<step, draft>>
  <2>1. PICK d \in Filled(draft[a], step[a]) :
          draft' = [draft EXCEPT ![a] = d] /\ draft[a] # None
          /\ step[a] \in 1..6 /\ step' = [step EXCEPT ![a] = @ + 1]
    BY <1>4 DEF CreateReads, NewPlan, Questions
  <2>2. d \in Draft /\ (step[a] # 1 => d.name = draft[a].name)
        /\ (step[a] = 1 => d.name # None) /\ (step[a] = 6 => d.limit # None)
    BY <2>1 DEF Filled, Questions
  <2>3. step'[a] = step[a] + 1 /\ step' \in [Admin -> 0..7]
    BY <2>1
  <2>4. draft'[a] = d /\ draft' \in [Admin -> Draft \cup {None}]
    BY <2>1, <2>2
  <2>5. \A b \in Admin \ {a} : step'[b] = step[b] /\ draft'[b] = draft[b]
    BY <2>1
  <2>6. d.name # None
    BY <2>1, <2>2
  <2>7. step'[a] = 7 => d.limit # None
    BY <2>1, <2>2, <2>3
  <2> QED BY <2>3, <2>4, <2>5, <2>6, <2>7
<1>5. CASE CreateSaves(a) \/ CreateEnds(a)
  BY <1>5, <1>2 DEF CreateSaves, CreateEnds
<1>6. CASE EditReads(a) \/ EditEnds(a) \/ EditsContent(a)
  BY <1>6, <1>2 DEF EditReads, EditEnds, EditsContent, planVars, dialogVars
<1>7. CASE (\E p \in Plan : EditMenu(a, p)) \/ (\E f \in Field : EditStarts(a, f))
  BY <1>7, <1>2 DEF EditMenu, EditStarts
<1> QED BY <1>1, <1>2, <1>3, <1>4, <1>5, <1>6, <1>7

\* Nothing else touches a draft, but a start link, which forgets it.
LEMMA DraftsKept ==
    ASSUME DraftsInv, [Next]_vars
    PROVE  DraftsInv'
<1> USE DEF planVars, dialogVars
<1>1. ASSUME UNCHANGED <<step, draft>> PROVE DraftsInv'
  BY <1>1 DEF DraftsInv
<1>2. CASE UNCHANGED vars
  BY <1>1, <1>2 DEF vars
<1>3. CASE BotStep
  <2>1. CASE PlanStep
    BY <2>1, PlanStepKeeps
  <2>2. CASE UNCHANGED planVars
    BY <1>1, <2>2
  <2>3. CASE TeamStep
    BY <1>1, <2>3 DEF TeamStep, AsksManager, CancelsManager, ReadsManager, RotatesLink,
                      RemovesManager
  <2>4. CASE AdminStep
    BY <1>1, <2>4 DEF AdminStep, AsksAdmin, CancelsAdmin, ReadsAdmin, LookedUp, RemovesListed,
                      RemovesInPanel
  <2>5. CASE PluginStep
    BY <1>1, <2>5 DEF PluginStep, MenuSetsPlugin, TogglesColumn, PanelSetsPlugin,
                      SetAccountPlugin, AsksSetting, ReadsSetting
  <2>6. CASE \/ \E p \in Plan, g \in Plugin : TogglePlanPlugin(p, g)
             \/ \E g \in Plugin : MigratePlugins({g})
    BY <1>1, <2>6 DEF TogglePlanPlugin, MigratePlugins
  <2> QED BY <1>3, <2>1, <2>2, <2>3, <2>4, <2>5, <2>6 DEF BotStep
<1>4. ASSUME NEW u \in User, LinkStep(u) PROVE DraftsInv'
  <2>1. Forgets(u)
    BY <1>4 DEF LinkStep, OpensLink
  <2> QED BY <2>1 DEF Forgets, DraftsInv
<1>5. CASE PasswordStep
  BY <1>1, <1>5 DEF PasswordStep
<1>6. CASE WorkerStep
  BY <1>1, <1>6 DEF WorkerStep, Dispatches, Resolved
<1>7. ASSUME NEW p \in Process, AddCommits(p) PROVE DraftsInv'
  BY <1>1, <1>7 DEF AddCommits
<1>8. CASE Ticks
  BY <1>1, <1>8 DEF Ticks
<1> QED BY <1>2, <1>3, <1>4, <1>5, <1>6, <1>7, <1>8 DEF Next, OpenStep

\* A handler that is taken up, or goes on, is as those of the type are.
LEMMA WorkTyped ==
    ASSUME NEW h \in Handling, work \in [Task -> Handling \cup {None}], Works(h)
    PROVE  /\ work' \in [Task -> Handling \cup {None}]
           /\ \A t \in Task : work'[t] = work[t] \/ work'[t] = h
<1> DEFINE k == CHOOSE t \in Task : Unused(t)
<1>1. k \in Task /\ work' = [work EXCEPT ![k] = h]
  BY DEF Works
<1> HIDE DEF k
<1> QED BY <1>1

\* A conversation that goes to another prompt, or ends
LEMMA PromptTyped ==
    ASSUME PasswordsInv, NEW u \in User, NEW q \in Prompt \cup {None},
           prompt' = [prompt EXCEPT ![u] = q]
    PROVE  /\ prompt' \in [User -> Prompt \cup {None}]
           /\ \A v \in User : prompt'[v] = IF v = u THEN q ELSE prompt[v]
BY DEF PasswordsInv

\* A handler that changes no password that is typed, nor works, keeps the invariant
\* when its user is no longer asked to confirm.
LEMMA NothingTyped ==
    ASSUME PasswordsInv, UNCHANGED last,
           prompt' \in [User -> Prompt \cup {None}],
           \A v \in User : \/ prompt'[v] = prompt[v] \/ prompt'[v] \notin DOMAIN Before
                           \/ typed'[v].new = None,
           typed' \in [User -> Typed],
           \A v \in User : typed'[v].new = typed[v].new \/ typed'[v].new = None,
           work' \in [Task -> Handling \cup {None}],
           \A t \in Task : \/ work'[t] = work[t] \/ work'[t] = None
                           \/ work'[t].at # "apply"
    PROVE  PasswordsInv'
BY DEF PasswordsInv, PasswordsAreTypedTwice

\* _clear_two_step_data leaves no password to confirm.
LEMMA ClearedTyped ==
    ASSUME PasswordsInv, NEW u \in User, ClearsTyped(u)
    PROVE  /\ typed' \in [User -> Typed]
           /\ \A v \in User : typed'[v].new = typed[v].new \/ typed'[v].new = None
          /\ typed'[u].new = None
<1>1. Blank \in Typed /\ Blank.new = None
  BY DEF Blank, Typed, Maybe
<1> QED BY <1>1 DEF ClearsTyped, PasswordsInv

\* A text of a user.
LEMMA TextKeeps ==
    ASSUME PasswordsInv, NEW u \in User, ReadsPassword(u)
    PROVE  PasswordsInv'
<1>1. PICK p \in Maybe : /\ ReadsAnswer(u, p) \/ ReadsConfirmation(u, p)
                         /\ last' = [last EXCEPT ![u] = p]
  BY DEF ReadsPassword
<1>2. last' \in [User -> Maybe] /\ last'[u] = p /\ \A v \in User \ {u} : last'[v] = last[v]
  BY <1>1 DEF PasswordsInv
<1>3. typed[u] \in Typed /\ prompt[u] \in Prompt \cup {None}
  BY DEF PasswordsInv
<1>4. ASSUME NEW f \in {"new", "current"}, NEW q \in Maybe,
             typed' = [typed EXCEPT ![u][f] = q]
      PROVE  /\ typed' \in [User -> Typed]
             /\ \A v \in User \ {u} : typed'[v] = typed[v]
             /\ typed'[u].new = IF f = "new" THEN q ELSE typed[u].new
  <2>1. [typed[u] EXCEPT ![f] = q] \in Typed
    BY <1>3 DEF Typed
  <2>2. typed' = [typed EXCEPT ![u] = [typed[u] EXCEPT ![f] = q]]
    BY <1>4 DEF PasswordsInv
  <2>3. [typed[u] EXCEPT ![f] = q].new = IF f = "new" THEN q ELSE typed[u].new
    BY <1>3 DEF Typed
  <2> QED BY <2>1, <2>2, <2>3 DEF PasswordsInv
<1>5. CASE ReadsAnswer(u, p) /\ p = None
  BY <1>2, <1>5 DEF ReadsAnswer, PasswordsInv, After, Before, PasswordsAreTypedTwice
<1>6. CASE ReadsAnswer(u, p) /\ p # None
  <2>1. UNCHANGED work /\ prompt[u] \in DOMAIN After
        /\ \/ prompt' = [prompt EXCEPT ![u] = After[prompt[u]]]
           \/ UNCHANGED prompt
    BY <1>6 DEF ReadsAnswer, ConversationGoesTo, ConversationStays
  <2>2. prompt[u] \in {"new", "current", "new_change"}
    BY <2>1 DEF After
  <2>3. After[prompt[u]] \in Prompt
        /\ (After[prompt[u]] \in DOMAIN Before => prompt[u] # "current")
    BY <2>2 DEF After, Before, Prompt
  <2>4. /\ prompt' \in [User -> Prompt \cup {None}]
        /\ \A v \in User \ {u} : prompt'[v] = prompt[v]
        /\ prompt'[u] = prompt[u] \/ prompt'[u] = After[prompt[u]]
    BY <2>1, <2>3, PromptTyped DEF PasswordsInv
  <2>5. typed' = IF prompt[u] = "current" THEN [typed EXCEPT ![u]["current"] = p]
                                          ELSE [typed EXCEPT ![u]["new"] = p]
    BY <1>6 DEF ReadsAnswer
  <2>6. /\ typed' \in [User -> Typed] /\ \A v \in User \ {u} : typed'[v] = typed[v]
        /\ prompt[u] # "current" => typed'[u].new = p
    BY <1>4, <2>5
  <2>7. prompt'[u] \in DOMAIN Before => prompt[u] # "current"
    BY <2>2, <2>3, <2>4 DEF Before
  <2>8. \A v \in User : prompt'[v] \in DOMAIN Before /\ typed'[v].new # None
                        => last'[v] = typed'[v].new
    BY <1>2, <2>4, <2>6, <2>7 DEF PasswordsInv
  <2> QED BY <1>2, <2>1, <2>4, <2>6, <2>8 DEF PasswordsInv, PasswordsAreTypedTwice
<1>7. CASE ReadsConfirmation(u, p) /\ ~SamePassword(u, p)
  <2>1. UNCHANGED work /\ prompt[u] \in DOMAIN Before
        /\ typed' = [typed EXCEPT ![u]["new"] = None]
        /\ \/ prompt' = [prompt EXCEPT ![u] = Before[prompt[u]]]
           \/ UNCHANGED prompt
    BY <1>7 DEF ReadsConfirmation, ConversationGoesTo, ConversationStays
  <2>2. Before[prompt[u]] \in Prompt
    BY <2>1 DEF Before, Prompt
  <2>3. /\ prompt' \in [User -> Prompt \cup {None}]
        /\ \A v \in User \ {u} : prompt'[v] = prompt[v]
    BY <2>1, <2>2, PromptTyped DEF PasswordsInv
  <2>4. /\ typed' \in [User -> Typed] /\ \A v \in User \ {u} : typed'[v] = typed[v]
        /\ typed'[u].new = None
    BY <1>4, <2>1 DEF Maybe
  <2> QED BY <1>2, <2>1, <2>3, <2>4 DEF PasswordsInv, PasswordsAreTypedTwice
<1>8. CASE ReadsConfirmation(u, p) /\ SamePassword(u, p)
  <2>1. prompt[u] \in DOMAIN Before /\ p # None /\ typed[u].new = p /\ last[u] = p
    BY <1>8 DEF ReadsConfirmation, SamePassword, PasswordsInv
  <2>2. UNCHANGED last
    BY <1>1, <2>1 DEF PasswordsInv
  <2>3. CASE ClearsTyped(u) /\ ConversationEnds(u) /\ UNCHANGED work
    <3>1. prompt' = [prompt EXCEPT ![u] = None]
      BY <2>3 DEF ConversationEnds
    <3>2. /\ prompt' \in [User -> Prompt \cup {None}]
          /\ \A v \in User \ {u} : prompt'[v] = prompt[v]
      BY <3>1, PromptTyped
    <3>3. work' \in [Task -> Handling \cup {None}] /\ \A t \in Task : work'[t] = work[t]
      BY <2>3 DEF PasswordsInv
    <3>4. /\ typed' \in [User -> Typed]
          /\ \A v \in User : typed'[v].new = typed[v].new \/ typed'[v].new = None
          /\ typed'[u].new = None
      BY <2>3, ClearedTyped
    <3> QED BY <2>2, <3>2, <3>3, <3>4, NothingTyped
  <2>4. CASE /\ Works([user |-> u, at |-> "apply", new |-> p, twice |-> last[u] = p,
                       current |-> IF prompt[u] = "confirm" THEN None ELSE typed[u].current])
             /\ ConversationStays /\ UNCHANGED typed
    <3> DEFINE c == IF prompt[u] = "confirm" THEN None ELSE typed[u].current
               h == [user |-> u, at |-> "apply", new |-> p, twice |-> last[u] = p,
                     current |-> c]
    <3>1. c \in Maybe /\ p \in Maybe
      BY <1>3 DEF Typed, Maybe
    <3>2. h \in Handling /\ h.twice = TRUE
      BY <2>1, <3>1 DEF Handling
    <3>3. Works(h)
      BY <2>4
    <3> HIDE DEF h
    <3>4. work' \in [Task -> Handling \cup {None}]
          /\ \A t \in Task : work'[t] = work[t] \/ work'[t] = h
      BY <3>2, <3>3, WorkTyped DEF PasswordsInv
    <3>5. PasswordsAreTypedTwice'
      BY <3>2, <3>4 DEF PasswordsInv, PasswordsAreTypedTwice
    <3> QED BY <2>2, <2>4, <3>4, <3>5 DEF ConversationStays, PasswordsInv
  <2> QED BY <1>8, <2>3, <2>4 DEF ReadsConfirmation
<1> QED BY <1>1, <1>5, <1>6, <1>7, <1>8

\* A handler that works on the account.
LEMMA WorkKeeps ==
    ASSUME PasswordsInv, NEW t \in Task,
           StatusAnswers(t) \/ SetsPassword(t) \/ TellsResult(t)
    PROVE  PasswordsInv'
<1>1. work[t] # None /\ work[t] \in Handling /\ UNCHANGED last
  BY DEF PasswordsInv, StatusAnswers, SetsPassword, TellsResult
<1>2. PICK u \in User : work[t].user = u
  BY <1>1 DEF Handling
<1>3. ASSUME NEW h \in Handling \cup {None}, h # None => h.at # "apply",
             work' = [work EXCEPT ![t] = h]
      PROVE  /\ work' \in [Task -> Handling \cup {None}]
             /\ \A s \in Task : work'[s] = work[s] \/ work'[s] = None \/ work'[s].at # "apply"
  BY <1>3 DEF PasswordsInv
<1>4. /\ work' \in [Task -> Handling \cup {None}]
      /\ \A s \in Task : work'[s] = work[s] \/ work'[s] = None \/ work'[s].at # "apply"
  <2>1. CASE work' = [work EXCEPT ![t] = None]
    BY <1>3, <2>1
  <2>2. ASSUME NEW a \in {"told", "wrong"}, work' = [work EXCEPT ![t].at = a]
        PROVE  /\ work' \in [Task -> Handling \cup {None}]
               /\ \A s \in Task : work'[s] = work[s] \/ work'[s] = None \/ work'[s].at # "apply"
    <3>1. [work[t] EXCEPT !.at = a] \in Handling
      BY <1>1 DEF Handling
    <3>2. [work[t] EXCEPT !.at = a].at = a
      BY <1>1 DEF Handling
    <3>3. work' = [work EXCEPT ![t] = [work[t] EXCEPT !.at = a]]
      BY <2>2
    <3> QED BY <1>3, <3>1, <3>2, <3>3
  <2> QED BY <2>1, <2>2 DEF StatusAnswers, SetsPassword, TellsResult
<1>5. CASE UNCHANGED <<prompt, typed>>
  BY <1>1, <1>4, <1>5, NothingTyped DEF PasswordsInv
<1>6. CASE ClearsTyped(u) /\ ConversationEnds(u)
  <2>1. /\ prompt' \in [User -> Prompt \cup {None}]
        /\ \A v \in User \ {u} : prompt'[v] = prompt[v]
    BY <1>6, PromptTyped DEF ConversationEnds
  <2>2. /\ typed' \in [User -> Typed]
        /\ \A v \in User : typed'[v].new = typed[v].new \/ typed'[v].new = None
        /\ typed'[u].new = None
    BY <1>6, ClearedTyped
  <2> QED BY <1>1, <1>4, <2>1, <2>2, NothingTyped
<1>7. ASSUME NEW q \in {"current", "new"}, ConversationGoesTo(u, q), UNCHANGED typed
      PROVE  PasswordsInv'
  <2>1. q \in Prompt /\ q \notin DOMAIN Before
    BY DEF Prompt, Before
  <2>2. /\ prompt' \in [User -> Prompt \cup {None}]
        /\ \A v \in User : prompt'[v] = prompt[v] \/ prompt'[v] \notin DOMAIN Before
    BY <1>7, <2>1, PromptTyped DEF ConversationGoesTo
  <2> QED BY <1>1, <1>4, <1>7, <2>2, NothingTyped DEF PasswordsInv
<1>8. CASE /\ typed' = [typed EXCEPT ![u].new = None, ![u].current = None]
           /\ UNCHANGED prompt
  <2>1. typed[u] \in Typed
    BY DEF PasswordsInv
  <2>2. [typed[u] EXCEPT !.new = None, !.current = None] \in Typed
        /\ [typed[u] EXCEPT !.new = None, !.current = None].new = None
    BY <2>1 DEF Typed, Maybe
  <2>3. typed' = [typed EXCEPT ![u] = [typed[u] EXCEPT !.new = None, !.current = None]]
    BY <1>8 DEF PasswordsInv
  <2>4. /\ typed' \in [User -> Typed]
        /\ \A v \in User : typed'[v].new = typed[v].new \/ typed'[v].new = None
    BY <2>2, <2>3 DEF PasswordsInv
  <2> QED BY <1>1, <1>4, <1>8, <2>4, NothingTyped DEF PasswordsInv
<1> QED BY <1>2, <1>5, <1>6, <1>7, <1>8
        DEF StatusAnswers, SetsPassword, TellsResult, ConversationStays

\* Nothing else touches a password that is typed, but a start link, which forgets it.
LEMMA PasswordsKept ==
    ASSUME PasswordsInv, [Next]_vars
    PROVE  PasswordsInv'
<1> USE DEF twoStepVars
<1>1. CASE UNCHANGED twoStepVars
  BY <1>1 DEF PasswordsInv, PasswordsAreTypedTwice
<1>2. ASSUME NEW u \in User, ForgetsTyped(u) PROVE PasswordsInv'
  <2>1. UNCHANGED <<prompt, work, last>> /\ ClearsTyped(u)
    BY <1>2 DEF ForgetsTyped
  <2>2. /\ typed' \in [User -> Typed]
        /\ \A v \in User : typed'[v].new = typed[v].new \/ typed'[v].new = None
    BY <2>1, ClearedTyped
  <2> QED BY <2>1, <2>2, NothingTyped DEF PasswordsInv
<1>3. CASE TwoStepStep
  <2>1. ASSUME NEW u \in User, TwoStepStarts(u) PROVE PasswordsInv'
    <3> DEFINE b == [Blank EXCEPT !.account = TRUE]
               h == [user |-> u, at |-> "status", new |-> None, current |-> None,
                     twice |-> FALSE]
    <3>1. b \in Typed /\ b.new = None
      BY DEF Blank, Typed, Maybe
    <3>2. h \in Handling /\ h.at # "apply"
      BY DEF Handling, Maybe
    <3>3. Works(h) /\ typed' = [typed EXCEPT ![u] = b] /\ UNCHANGED prompt
          /\ last' = [last EXCEPT ![u] = None]
      BY <2>1 DEF TwoStepStarts
    <3> HIDE DEF b, h
    <3>4. work' \in [Task -> Handling \cup {None}]
          /\ \A t \in Task : work'[t] = work[t] \/ work'[t] = h
      BY <3>2, <3>3, WorkTyped DEF PasswordsInv
    <3>5. /\ typed' \in [User -> Typed] /\ typed'[u].new = None
          /\ \A v \in User \ {u} : typed'[v] = typed[v] /\ last'[v] = last[v]
          /\ last' \in [User -> Maybe]
      BY <3>1, <3>3 DEF PasswordsInv, Maybe
    <3> QED BY <3>2, <3>3, <3>4, <3>5 DEF PasswordsInv, PasswordsAreTypedTwice
  <2>2. ASSUME NEW u \in User, ReadsPassword(u) PROVE PasswordsInv'
    BY <2>2, TextKeeps
  <2>3. ASSUME NEW u \in User, CancelsTwoStep(u) PROVE PasswordsInv'
    <3>1. UNCHANGED <<work, last>> /\ ClearsTyped(u) /\ prompt' = [prompt EXCEPT ![u] = None]
      BY <2>3 DEF CancelsTwoStep, ConversationEnds
    <3>2. /\ prompt' \in [User -> Prompt \cup {None}]
          /\ \A v \in User \ {u} : prompt'[v] = prompt[v]
      BY <3>1, PromptTyped
    <3>3. /\ typed' \in [User -> Typed] /\ typed'[u].new = None
          /\ \A v \in User : typed'[v].new = typed[v].new \/ typed'[v].new = None
      BY <3>1, ClearedTyped
    <3> QED BY <3>1, <3>2, <3>3, NothingTyped DEF PasswordsInv
  <2>4. ASSUME NEW t \in Task, StatusAnswers(t) \/ SetsPassword(t) \/ TellsResult(t)
        PROVE  PasswordsInv'
    BY <2>4, WorkKeeps
  <2>5. CASE OtherDevice
    BY <2>5 DEF OtherDevice, PasswordsInv, PasswordsAreTypedTwice
  <2> QED BY <1>3, <2>1, <2>2, <2>3, <2>4, <2>5, TypistAssumption DEF TwoStepStep
<1> QED BY <1>1, <1>2, <1>3 DEF Next, vars, OpenStep, PasswordStep

\* A plan is saved with all its answers and a password set after it was typed twice,
\* whatever handlers of a user overlap and whenever his data is cleared.
THEOREM AskedInFull == Spec => []AnswersAreComplete
<1>1. DraftsInv /\ PasswordsInv => AnswersAreComplete
  BY DEF DraftsInv, PasswordsInv, AnswersAreComplete, DraftsAreComplete
<1>2. DraftsInv /\ PasswordsInv /\ [Next]_vars => DraftsInv' /\ PasswordsInv'
  BY DraftsKept, PasswordsKept
<1> QED BY <1>1, <1>2, AskedInitially, PTL DEF Spec
-----------------------------------------------------------------------------
(***************************************************************************)
(* The questions that wait for a text.                                     *)
(***************************************************************************)
\* The conversation of a new plan waits for a text while it has a question, and that of the
\* password while it has a prompt.
WaitsInv ==
    /\ InputTypeOK
    /\ \A a \in Admin : "plan" \in waits[a] <=> step[a] \in 1..Questions
    /\ \A u \in User : "password" \in waits[u] <=> prompt[u] # None

\* A question that is asked, or waited for no more, concerns no other question or user.
LEMMA OneInput ==
    ASSUME InputTypeOK, NEW u \in User, NEW i \in Input,
           Asks(u, i) \/ Drops(u, i) \/ UNCHANGED waits
    PROVE  /\ InputTypeOK'
           /\ \A v \in User, j \in Input : v # u \/ j # i => (j \in waits'[v] <=> j \in waits[v])
           /\ Asks(u, i) => i \in waits'[u]
           /\ Drops(u, i) => i \notin waits'[u]
<1>1. CASE Asks(u, i)
  BY <1>1 DEF InputTypeOK, Asks, Drops
<1>2. CASE Drops(u, i)
  BY <1>2 DEF InputTypeOK, Asks, Drops
<1>3. CASE UNCHANGED waits
  BY <1>3 DEF InputTypeOK, Asks, Drops
<1> QED BY <1>1, <1>2, <1>3

\* Questions of the other conversations, and the router's flags
Others == {"field", "content", "manager", "admin", "setting"}

\* All of them are inputs.
LEMMA Questioned == {"plan", "password"} \cup Others \subseteq Input
BY DEF Input, Turn, Others

\* They leave the two alone.
LEMMA OthersAsked ==
    ASSUME WaitsInv, UNCHANGED <<step, prompt>>,
           \/ UNCHANGED waits
           \/ \E u \in User, i \in Others : Asks(u, i) \/ Drops(u, i)
    PROVE  WaitsInv'
<1>1. CASE UNCHANGED waits
  BY <1>1 DEF WaitsInv, InputTypeOK
<1>2. ASSUME NEW u \in User, NEW i \in Others, Asks(u, i) \/ Drops(u, i) PROVE WaitsInv'
  <2>1. i \in Input /\ i # "plan" /\ i # "password" /\ "plan" \in Input /\ "password" \in Input
    BY Questioned DEF Others
  <2>2. /\ InputTypeOK'
        /\ \A v \in User, j \in Input : v # u \/ j # i => (j \in waits'[v] <=> j \in waits[v])
    BY <1>2, <2>1, OneInput DEF WaitsInv
  <2> QED BY <2>1, <2>2, AdminAssumption DEF WaitsInv
<1> QED BY <1>1, <1>2

\* The conversation of a new plan
LEMMA PlanAsked ==
    ASSUME WaitsInv, step \in [Admin -> 0..7], NEW a \in Admin, UNCHANGED prompt,
           CreateStarts(a) \/ CreateReads(a) \/ CreateSaves(a) \/ CreateEnds(a)
    PROVE  WaitsInv'
<1>1. a \in User /\ "plan" \in Input /\ "password" \in Input
  BY AdminAssumption, Questioned
<1>2. ASSUME NEW q \in 0..7, step' = [step EXCEPT ![a] = q],
             \/ Asks(a, "plan") /\ q \in 1..Questions
             \/ Drops(a, "plan") /\ q \notin 1..Questions
             \/ UNCHANGED waits /\ (q \in 1..Questions <=> step[a] \in 1..Questions)
      PROVE  WaitsInv'
  <2>1. /\ InputTypeOK'
        /\ \A v \in User, j \in Input :
              v # a \/ j # "plan" => (j \in waits'[v] <=> j \in waits[v])
        /\ Asks(a, "plan") => "plan" \in waits'[a]
        /\ Drops(a, "plan") => "plan" \notin waits'[a]
    BY <1>1, <1>2, OneInput DEF WaitsInv
  <2>2. \A b \in Admin : step'[b] = IF b = a THEN q ELSE step[b]
    BY <1>2
  <2>3. "plan" \in waits'[a] <=> q \in 1..Questions
    BY <1>2, <2>1 DEF WaitsInv
  <2> QED BY <1>1, <2>1, <2>2, <2>3, AdminAssumption DEF WaitsInv
<1>3. CASE UNCHANGED <<step, waits>>
  BY <1>3, OthersAsked
<1>4. CASE CreateStarts(a)
  BY <1>2, <1>4 DEF CreateStarts, Questions
<1>5. CASE CreateReads(a) /\ ~UNCHANGED <<step, waits>>
  <2>1. /\ step[a] \in 1..6 /\ step' = [step EXCEPT ![a] = step[a] + 1]
        /\ IF step[a] < 6 THEN UNCHANGED waits ELSE Drops(a, "plan")
    BY <1>5 DEF CreateReads, Reads, Questions
  <2>2. /\ step[a] + 1 \in 0..7 /\ step[a] \in 1..Questions
        /\ (step[a] < 6 => step[a] + 1 \in 1..Questions)
        /\ (~(step[a] < 6) => step[a] + 1 \notin 1..Questions)
    BY <2>1 DEF Questions
  <2> QED BY <1>2, <2>1, <2>2
<1>6. CASE CreateSaves(a) /\ ~UNCHANGED <<step, waits>>
  <2>1. step' = [step EXCEPT ![a] = 0] /\ UNCHANGED waits /\ step[a] = 7
    BY <1>6 DEF CreateSaves
  <2> QED BY <1>2, <2>1 DEF Questions
<1>7. CASE CreateEnds(a)
  BY <1>2, <1>7 DEF CreateEnds, Questions
<1> QED BY <1>3, <1>4, <1>5, <1>6, <1>7

\* The conversation of the password
LEMMA PasswordAsked ==
    ASSUME WaitsInv, PasswordsInv, UNCHANGED step, TwoStepStep
    PROVE  WaitsInv'
<1>1. ASSUME NEW u \in User, NEW q \in Prompt \cup {None}, prompt' = [prompt EXCEPT ![u] = q],
             \/ Asks(u, "password") /\ q \in Prompt
             \/ Drops(u, "password") /\ q = None
      PROVE  WaitsInv'
  <2>1. "plan" \in Input /\ "password" \in Input
    BY Questioned
  <2>2. /\ InputTypeOK'
        /\ \A v \in User, j \in Input :
              v # u \/ j # "password" => (j \in waits'[v] <=> j \in waits[v])
        /\ Asks(u, "password") => "password" \in waits'[u]
        /\ Drops(u, "password") => "password" \notin waits'[u]
    BY <1>1, <2>1, OneInput DEF WaitsInv
  <2>3. \A v \in User : prompt'[v] = IF v = u THEN q ELSE prompt[v]
    BY <1>1, PromptTyped
  <2>4. "password" \in waits'[u] <=> q # None
    BY <1>1, <2>2, PromptAssumption
  <2>5. \A a \in Admin : a \in User
    BY AdminAssumption
  <2>6. \A a \in Admin : "plan" \in waits'[a] <=> step'[a] \in 1..Questions
    BY <2>1, <2>2, <2>5 DEF WaitsInv
  <2>7. \A v \in User : "password" \in waits'[v] <=> prompt'[v] # None
    BY <2>1, <2>2, <2>3, <2>4 DEF WaitsInv
  <2> QED BY <2>2, <2>6, <2>7 DEF WaitsInv
<1>2. CASE ConversationStays
  BY <1>2, OthersAsked DEF ConversationStays
<1>3. ASSUME NEW u \in User, ConversationEnds(u) PROVE WaitsInv'
  BY <1>1, <1>3 DEF ConversationEnds
<1>4. ASSUME NEW u \in User, NEW q \in Prompt, ConversationGoesTo(u, q) PROVE WaitsInv'
  BY <1>1, <1>4 DEF ConversationGoesTo
<1>5. ASSUME NEW u \in User, ReadsPassword(u) PROVE WaitsInv'
  <2>1. PICK p \in Maybe : ReadsAnswer(u, p) \/ ReadsConfirmation(u, p)
    BY <1>5 DEF ReadsPassword
  <2>2. \A q \in DOMAIN After : After[q] \in Prompt
    BY DEF After, Prompt
  <2>3. \A q \in DOMAIN Before : Before[q] \in Prompt
    BY DEF Before, Prompt
  <2>4. CASE ReadsAnswer(u, p)
    BY <1>2, <1>4, <2>2, <2>4 DEF ReadsAnswer, ConversationStays
  <2>5. CASE ReadsConfirmation(u, p)
    BY <1>2, <1>3, <1>4, <2>3, <2>5 DEF ReadsConfirmation
  <2> QED BY <2>1, <2>4, <2>5
<1>6. ASSUME NEW t \in Task, StatusAnswers(t) \/ SetsPassword(t) \/ TellsResult(t)
      PROVE  WaitsInv'
  <2>1. PICK u \in User : work[t].user = u
    BY <1>6 DEF PasswordsInv, Handling, StatusAnswers, SetsPassword, TellsResult
  <2>2. "current" \in Prompt /\ "new" \in Prompt
    BY DEF Prompt
  <2>3. CASE StatusAnswers(t)
    BY <1>2, <1>3, <1>4, <2>1, <2>2, <2>3 DEF StatusAnswers
  <2>4. CASE SetsPassword(t)
    BY <1>2, <2>4 DEF SetsPassword, ConversationStays
  <2>5. CASE TellsResult(t)
    BY <1>2, <1>3, <1>4, <2>1, <2>2, <2>5 DEF TellsResult
  <2> QED BY <1>6, <2>3, <2>4, <2>5
<1>7. ASSUME NEW u \in User, TwoStepStarts(u) \/ CancelsTwoStep(u) PROVE WaitsInv'
  BY <1>2, <1>3, <1>7 DEF TwoStepStarts, CancelsTwoStep, ConversationStays
<1>8. CASE OtherDevice
  BY <1>2, <1>8 DEF OtherDevice, ConversationStays
<1> QED BY <1>5, <1>6, <1>7, <1>8, TypistAssumption DEF TwoStepStep

\* Nobody is asked anything yet.
LEMMA WaitsInitially == Init => WaitsInv
<1> SUFFICES ASSUME Init PROVE WaitsInv
  OBVIOUS
<1>1. /\ waits = [u \in User |-> {}] /\ step = [a \in Admin |-> 0]
      /\ prompt = [u \in User |-> None]
  BY DEF Init, InputInit, PlanInit, TwoStepInit
<1> QED BY <1>1, AdminAssumption DEF WaitsInv, InputTypeOK, Questions

\* Every step of the bot and of the worker keeps it.
LEMMA WaitsKept ==
    ASSUME WaitsInv, DraftsInv, PasswordsInv, [Next]_vars
    PROVE  WaitsInv'
<1> USE DEF planVars, dialogVars, twoStepVars
<1>1. CASE UNCHANGED vars
  BY <1>1, OthersAsked DEF vars
<1>2. ASSUME NEW u \in User, NEW i \in Others,
             \/ UNCHANGED waits \/ Asks(u, i) \/ Drops(u, i)
             \/ Cancels(u, i)
             \/ \E again \in BOOLEAN : Reads(u, i, again),
             UNCHANGED <<step, prompt>>
      PROVE  WaitsInv'
  BY <1>2, OthersAsked DEF Cancels, Reads
<1>3. CASE BotStep /\ UNCHANGED twoStepVars
  <2>1. CASE PlanStep
    <3>1. PICK a \in Admin : \/ CreateStarts(a) \/ CreateReads(a)
                             \/ CreateSaves(a) \/ CreateEnds(a)
                             \/ EditReads(a) \/ EditEnds(a) \/ EditsContent(a)
                             \/ \E p \in Plan : EditMenu(a, p)
                             \/ \E f \in Field : EditStarts(a, f)
      BY <2>1 DEF PlanStep
    <3>2. a \in User /\ "field" \in Others /\ "content" \in Others
      BY AdminAssumption DEF Others
    <3>3. CASE CreateStarts(a) \/ CreateReads(a) \/ CreateSaves(a) \/ CreateEnds(a)
      BY <1>3, <3>3, PlanAsked DEF DraftsInv
    <3>4. CASE EditReads(a) \/ EditEnds(a)
      BY <1>2, <1>3, <3>2, <3>4 DEF EditReads, EditEnds
    <3>5. CASE EditsContent(a)
      BY <1>2, <1>3, <3>2, <3>5 DEF EditsContent
    <3>6. CASE (\E p \in Plan : EditMenu(a, p)) \/ (\E f \in Field : EditStarts(a, f))
      BY <1>2, <1>3, <3>2, <3>6 DEF EditMenu, EditStarts
    <3> QED BY <3>1, <3>3, <3>4, <3>5, <3>6
  <2>2. CASE UNCHANGED <<waits, planVars>>
    BY <1>3, <2>2, OthersAsked
  <2>3. CASE TeamStep
    <3>1. UNCHANGED <<step, prompt>> /\ "manager" \in Others
      BY <1>3, <2>3 DEF TeamStep, AsksManager, CancelsManager, ReadsManager, RotatesLink,
                        RemovesManager, Others
    <3>2. PICK u \in User : \/ AsksManager(u) \/ CancelsManager(u) \/ ReadsManager(u)
                            \/ RotatesLink(u)
                            \/ \E m \in User : RemovesManager(u, m)
      BY <2>3 DEF TeamStep
    <3> QED BY <1>2, <3>1, <3>2 DEF AsksManager, CancelsManager, ReadsManager, RotatesLink,
                                    RemovesManager
  <2>4. CASE AdminStep
    <3>1. UNCHANGED <<step, prompt>> /\ "admin" \in Others
      BY <1>3, <2>4 DEF AdminStep, AsksAdmin, CancelsAdmin, ReadsAdmin, LookedUp,
                        RemovesListed, RemovesInPanel, Others
    <3>2. CASE UNCHANGED waits
      BY <3>1, <3>2, OthersAsked
    <3>3. ASSUME NEW u \in User, AsksAdmin(u) \/ CancelsAdmin(u) \/ ReadsAdmin(u) \/ LookedUp(u)
          PROVE  WaitsInv'
      BY <1>2, <3>1, <3>2, <3>3 DEF AsksAdmin, CancelsAdmin, ReadsAdmin, LookedUp
    <3> QED BY <2>4, <3>2, <3>3 DEF AdminStep, RemovesListed, RemovesInPanel
  <2>5. CASE PluginStep
    <3>1. UNCHANGED <<step, prompt>> /\ "setting" \in Others
      BY <1>3, <2>5 DEF PluginStep, MenuSetsPlugin, TogglesColumn, PanelSetsPlugin,
                        SetAccountPlugin, AsksSetting, ReadsSetting, Others
    <3>2. CASE UNCHANGED waits
      BY <3>1, <3>2, OthersAsked
    <3>3. ASSUME NEW u \in User, AsksSetting(u) \/ ReadsSetting(u) PROVE WaitsInv'
      BY <1>2, <3>1, <3>3 DEF AsksSetting, ReadsSetting
    <3> QED BY <2>5, <3>2, <3>3 DEF PluginStep, MenuSetsPlugin, TogglesColumn,
                                    PanelSetsPlugin, SetAccountPlugin
  <2>6. CASE \/ \E p \in Plan, g \in Plugin : TogglePlanPlugin(p, g)
             \/ \E g \in Plugin : MigratePlugins({g})
    BY <1>3, <2>6, OthersAsked DEF TogglePlanPlugin, MigratePlugins
  <2> QED BY <1>3, <2>1, <2>2, <2>3, <2>4, <2>5, <2>6 DEF BotStep
<1>4. CASE OpenStep
  <2>1. PICK u \in User : LinkStep(u) /\ ForgetsTyped(u)
    BY <1>4 DEF OpenStep
  <2>2. waits' = [waits EXCEPT ![u] = @ \ {"admin", "setting"}] /\ UNCHANGED <<step, prompt>>
    BY <2>1 DEF LinkStep, OpensLink, Forgets, ForgetsTyped
  <2>3. InputTypeOK'
    BY <2>2 DEF WaitsInv, InputTypeOK
  <2>4. \A v \in User : /\ "plan" \in waits'[v] <=> "plan" \in waits[v]
                        /\ "password" \in waits'[v] <=> "password" \in waits[v]
    BY <2>2 DEF WaitsInv, InputTypeOK
  <2> QED BY <2>2, <2>3, <2>4, AdminAssumption DEF WaitsInv
<1>5. CASE PasswordStep
  BY <1>5, PasswordAsked DEF PasswordStep
<1>6. CASE UNCHANGED <<waits, planVars, twoStepVars>>
  BY <1>6, OthersAsked
<1> QED BY <1>1, <1>3, <1>4, <1>5, <1>6
        DEF Next, WorkerStep, Dispatches, Resolved, AddCommits, Ticks
-----------------------------------------------------------------------------
(***************************************************************************)
(* The limit on answers.  Fresh is a recursive function of a sequence:     *)
(* what it computes is proved by induction over a set of numbers.          *)
(***************************************************************************)
\* A set of natural numbers has a least one, so that it can be inducted over.
LEMMA LeastNumber ==
    ASSUME NEW T, T \subseteq Nat, T # {}
    PROVE  \E n \in T : \A m \in T : n <= m
<1> DEFINE R == {ss \in Nat \X Nat : ss[1] < ss[2]}
<1>1. OpToRel(<, Nat) = R
  BY Zenon DEF OpToRel
<1>2. IsWellFoundedOn(OpToRel(<, Nat), Nat)
  BY NatLessThanWellFounded
<1>3. IsWellFoundedOn(R, Nat)
  BY <1>1, <1>2, Zenon
<1>4. \A m, n \in Nat : m < n => <<m, n>> \in R
  OBVIOUS
<1> HIDE DEF R
<1>5. PICK n \in T : \A m \in T : ~ (<<m, n>> \in R)
  BY <1>3, WFMin
<1>6. ASSUME NEW m \in T PROVE n <= m
  <2>1. m \in Nat /\ n \in Nat /\ ~ (<<m, n>> \in R)
    BY <1>5
  <2>2. ~ (m < n)
    BY <1>4, <2>1
  <2> QED BY <2>1, <2>2
<1> QED BY <1>6

\* What holds of 0, and of n + 1 if of n, holds of every number.
LEMMA Induction ==
    ASSUME NEW T, 0 \in T, \A n \in Nat : n \in T => n + 1 \in T
    PROVE  Nat \subseteq T
<1> SUFFICES ASSUME Nat \ T # {} PROVE FALSE
  OBVIOUS
<1>1. Nat \ T \subseteq Nat
  OBVIOUS
<1>2. PICK n \in Nat \ T : \A m \in Nat \ T : n <= m
  BY <1>1, LeastNumber
<1>3. n - 1 \in Nat /\ n - 1 + 1 = n /\ ~(n <= n - 1)
  BY <1>2
<1>4. n - 1 \in T
  BY <1>2, <1>3
<1> QED BY <1>2, <1>3, <1>4

\* The recursive function behind Fresh, which exists for a sequence of any length
Keeps(k, s, n) == k = [i \in 0..n |-> IF i = 0 THEN <<>>
                                     ELSE IF s[i] < Window THEN Append(k[i - 1], s[i])
                                     ELSE k[i - 1]]

LEMMA KeptExists ==
    ASSUME NEW s, NEW n \in Nat
    PROVE  \E k : Keeps(k, s, n)
<1> DEFINE Grown(k, i) == IF i = 0 THEN <<>>
                          ELSE IF s[i] < Window THEN Append(k[i - 1], s[i]) ELSE k[i - 1]
           T == {m \in Nat : \E k : k = [i \in 0..m |-> Grown(k, i)]}
<1>1. 0 \in T
  <2> DEFINE k == [i \in 0..0 |-> <<>>]
  <2>1. k = [i \in 0..0 |-> Grown(k, i)]
    OBVIOUS
  <2> QED BY <2>1
<1>2. ASSUME NEW m \in Nat, m \in T PROVE m + 1 \in T
  <2>1. PICK k : k = [i \in 0..m |-> Grown(k, i)]
    BY <1>2
  <2> DEFINE h == [i \in 0..m + 1 |-> IF i = m + 1 THEN Grown(k, i) ELSE k[i]]
  <2>2. ASSUME NEW i \in 0..m + 1 PROVE h[i] = Grown(h, i)
    <3>1. CASE i = 0
      BY <2>1, <3>1
    <3>2. CASE i # 0
      <4>1. i - 1 \in 0..m /\ i - 1 # m + 1 /\ i - 1 \in 0..m + 1
        BY <3>2
      <4>2. h[i - 1] = k[i - 1]
        BY <4>1
      <4>3. Grown(h, i) = Grown(k, i)
        BY <3>2, <4>2
      <4>4. CASE i = m + 1
        BY <4>3, <4>4
      <4>5. CASE i # m + 1
        <5>1. i \in 0..m
          BY <4>5
        <5>2. k[i] = Grown(k, i)
          BY <2>1, <5>1
        <5> QED BY <4>3, <4>5, <5>2
      <4> QED BY <4>4, <4>5
    <3> QED BY <3>1, <3>2
  <2>3. h = [i \in 0..m + 1 |-> Grown(h, i)]
    <3> DEFINE D == 0..m + 1
               g == [i \in D |-> Grown(h, i)]
    <3>1. h = [i \in D |-> h[i]] 
      OBVIOUS
    <3>2. \A i \in D : h[i] = Grown(h, i)
      BY <2>2
    <3> HIDE DEF h, D
    <3>3. h = [i \in D |-> Grown(h, i)]
      BY <3>1, <3>2
    <3> QED BY <3>3 DEF D
  <2> HIDE DEF h, Grown
  <2>4. m + 1 \in Nat
    OBVIOUS
  <2> QED BY <2>3, <2>4
<1>3. Nat \subseteq T
  <2> HIDE DEF T
  <2> QED BY <1>1, <1>2, Induction
<1>4. n \in T
  <2> HIDE DEF T
  <2> QED BY <1>3
<1> QED BY <1>4 DEF Keeps

\* What Fresh computes, prefix by prefix
LEMMA FreshEquation ==
    ASSUME NEW s, Len(s) \in Nat
    PROVE  \E k : /\ DOMAIN k = 0..Len(s) /\ k[0] = <<>>
                  /\ \A i \in 1..Len(s) : k[i] = IF s[i] < Window THEN Append(k[i - 1], s[i])
                                                 ELSE k[i - 1]
                  /\ Fresh(s) = k[Len(s)]
<1> DEFINE n == Len(s)
           k == CHOOSE k : Keeps(k, s, n)
<1>1. n \in Nat
  OBVIOUS
<1>2. \E f : Keeps(f, s, n)
  BY <1>1, KeptExists
<1>3. Fresh(s) = k[n]
  BY DEF Fresh, Keeps
<1>4. Keeps(k, s, n)
  BY <1>2
<1> HIDE DEF k
<1>5. DOMAIN k = 0..n
  BY <1>4 DEF Keeps
<1>6. k[0] = <<>>
  BY <1>1, <1>4 DEF Keeps
<1>7. ASSUME NEW i \in 1..n
      PROVE  k[i] = IF s[i] < Window THEN Append(k[i - 1], s[i]) ELSE k[i - 1]
  <2>1. i \in 0..n /\ i # 0
    BY <1>1
  <2> QED BY <1>4, <2>1 DEF Keeps
<1> QED BY <1>3, <1>5, <1>6, <1>7

\* How many ages are at most a
AtMost(s, a) == Cardinality({i \in DOMAIN s : s[i] <= a})

\* It is a number.
LEMMA AtMostTyped ==
    ASSUME NEW s \in Seq(Nat), NEW a \in Nat
    PROVE  IsFiniteSet({i \in DOMAIN s : s[i] <= a}) /\ AtMost(s, a) \in Nat
<1>1. DOMAIN s = 1..Len(s) /\ Len(s) \in Nat
  OBVIOUS
<1>2. IsFiniteSet(1..Len(s))
  BY <1>1, FS_Interval
<1>3. IsFiniteSet({i \in DOMAIN s : s[i] <= a})
  BY <1>1, <1>2, FS_Subset
<1> QED BY <1>3, FS_CardinalityType DEF AtMost

\* No ages
LEMMA AtMostEmpty ==
    ASSUME NEW a \in Nat
    PROVE  AtMost(<<>>, a) = 0
<1>1. {i \in DOMAIN <<>> : <<>>[i] <= a} = {}
  OBVIOUS
<1> QED BY <1>1, FS_EmptySet DEF AtMost

\* One more age
LEMMA AtMostAppend ==
    ASSUME NEW s \in Seq(Nat), NEW x \in Nat, NEW a \in Nat
    PROVE  AtMost(Append(s, x), a) = AtMost(s, a) + IF x <= a THEN 1 ELSE 0
<1> DEFINE t == Append(s, x)
           n == Len(s)
           A == {i \in DOMAIN s : s[i] <= a}
           B == {i \in DOMAIN t : t[i] <= a}
<1>1. n \in Nat /\ DOMAIN s = 1..n /\ DOMAIN t = 1..n + 1 /\ t[n + 1] = x
      /\ \A i \in 1..n : t[i] = s[i]
  OBVIOUS
<1>2. IsFiniteSet(A) /\ Cardinality(A) \in Nat
  BY AtMostTyped DEF AtMost
<1> HIDE DEF t
<1>3. CASE x <= a
  <2>1. B = A \cup {n + 1} /\ n + 1 \notin A
    BY <1>1, <1>3
  <2>2. Cardinality(B) = Cardinality(A) + 1
    BY <1>2, <2>1, FS_AddElement
  <2> QED BY <1>3, <2>2 DEF AtMost, t
<1>4. CASE ~(x <= a)
  <2>1. B = A
    BY <1>1, <1>4
  <2>2. AtMost(t, a) = Cardinality(B) /\ AtMost(s, a) = Cardinality(A)
    BY DEF AtMost
  <2>3. Cardinality(B) = Cardinality(A)
    BY <2>1
  <2> HIDE DEF A, B
  <2> QED BY <1>2, <1>4, <2>2, <2>3 DEF t
<1> QED BY <1>3, <1>4

\* When all are, it is the length.
LEMMA AtMostAll ==
    ASSUME NEW s \in Seq(Nat), NEW a \in Nat, \A i \in DOMAIN s : s[i] <= a
    PROVE  AtMost(s, a) = Len(s)
<1>1. DOMAIN s = 1..Len(s) /\ Len(s) \in Nat
  OBVIOUS
<1>2. {i \in DOMAIN s : s[i] <= a} = 1..Len(s)
  BY <1>1
<1>3. Cardinality(1..Len(s)) = Len(s)
  BY <1>1, FS_Interval
<1> QED BY <1>2, <1>3 DEF AtMost

\* A sequence over a set is one over any larger set.
LEMMA SeqWider ==
    ASSUME NEW S, NEW U, S \subseteq U, NEW s \in Seq(S)
    PROVE  s \in Seq(U)
<1>1. Len(s) \in Nat /\ s = [i \in 1..Len(s) |-> s[i]] /\ \A i \in 1..Len(s) : s[i] \in U
  OBVIOUS
<1> QED BY <1>1

\* Pruning keeps what is asked for and loses no age within the window.
LEMMA FreshCounts ==
    ASSUME NEW S, S \subseteq Nat, NEW s \in Seq(S)
    PROVE  /\ Fresh(s) \in Seq(S)
           /\ \A i \in DOMAIN Fresh(s) : Fresh(s)[i] < Window
           /\ \A a \in 0..Window - 1 : AtMost(Fresh(s), a) = AtMost(s, a)
<1> DEFINE n == Len(s)
           Part1(i, a) == {j \in 1..i : s[j] <= a}
<1>1. n \in Nat /\ DOMAIN s = 1..n /\ (\A i \in 1..n : s[i] \in S) /\ Window \in Nat
  BY LimitAssumption
<1>2. PICK k : /\ DOMAIN k = 0..n /\ k[0] = <<>>
               /\ \A i \in 1..n : k[i] = IF s[i] < Window THEN Append(k[i - 1], s[i])
                                         ELSE k[i - 1]
               /\ Fresh(s) = k[n]
  BY <1>1, FreshEquation
<1> DEFINE Good(i) == /\ k[i] \in Seq(S)
                      /\ \A j \in DOMAIN k[i] : k[i][j] < Window
                      /\ \A a \in 0..Window - 1 : AtMost(k[i], a) = Cardinality(Part1(i, a))
           T == {i \in Nat : i <= n => Good(i)}
<1>3. 0 \in T
  <2>1. <<>> \in Seq(S) /\ DOMAIN <<>> = {}
    OBVIOUS
  <2>2. \A a \in 0..Window - 1 : Part1(0, a) = {} /\ a \in Nat
    BY <1>1
  <2>3. \A a \in 0..Window - 1 : AtMost(<<>>, a) = Cardinality(Part1(0, a))
    BY <2>2, AtMostEmpty, FS_EmptySet
  <2>4. Good(0)
    BY <1>2, <2>1, <2>3
  <2> QED BY <2>4
<1>4. ASSUME NEW i \in Nat, i \in T PROVE i + 1 \in T
  <2> SUFFICES ASSUME i + 1 <= n PROVE Good(i + 1)
    BY <1>4
  <2>1. Good(i)
    BY <1>1, <1>4
  <2>2. i + 1 \in 1..n /\ i + 1 - 1 = i
    BY <1>1
  <2>3. k[i + 1] = IF s[i + 1] < Window THEN Append(k[i], s[i + 1]) ELSE k[i]
    BY <1>2, <2>2
  <2>4. s[i + 1] \in S /\ s[i + 1] \in Nat /\ k[i] \in Seq(S) /\ k[i] \in Seq(Nat)
    <3>1. s[i + 1] \in S /\ s[i + 1] \in Nat
      BY <1>1, <2>2
    <3> QED BY <2>1, <3>1, SeqWider
  <2>5. ASSUME NEW a \in 0..Window - 1
        PROVE  Cardinality(Part1(i + 1, a))
                  = Cardinality(Part1(i, a)) + IF s[i + 1] <= a THEN 1 ELSE 0
    <3>1. Part1(i + 1, a) = Part1(i, a) \cup (IF s[i + 1] <= a THEN {i + 1} ELSE {})
          /\ i + 1 \notin Part1(i, a)
      OBVIOUS
    <3>2. IsFiniteSet(1..i)
      BY FS_Interval
    <3>3. IsFiniteSet(Part1(i, a)) /\ Cardinality(Part1(i, a)) \in Nat
      BY <3>2, FS_Subset, FS_CardinalityType
    <3> HIDE DEF Part1
    <3>4. CASE s[i + 1] <= a
      BY <3>1, <3>3, <3>4, FS_AddElement
    <3>5. CASE ~(s[i + 1] <= a)
      <4>1. Part1(i + 1, a) = Part1(i, a)
        BY <3>1, <3>5
      <4> QED BY <3>3, <3>5, <4>1
    <3> QED BY <3>4, <3>5
  <2> HIDE DEF Part1
  <2>6. CASE s[i + 1] < Window
    <3>1. k[i + 1] = Append(k[i], s[i + 1])
      BY <2>3, <2>6
    <3>2. Append(k[i], s[i + 1]) \in Seq(S)
      BY <2>4
    <3>3. \A j \in DOMAIN Append(k[i], s[i + 1]) : Append(k[i], s[i + 1])[j] < Window
      BY <2>1, <2>4, <2>6
    <3>4. ASSUME NEW a \in 0..Window - 1
          PROVE  AtMost(k[i + 1], a) = Cardinality(Part1(i + 1, a))
      <4>1. AtMost(k[i + 1], a) = AtMost(k[i], a) + IF s[i + 1] <= a THEN 1 ELSE 0
        BY <1>1, <2>4, <3>1, AtMostAppend
      <4> QED BY <2>1, <2>5, <4>1
    <3> QED BY <3>1, <3>2, <3>3, <3>4
  <2>7. CASE ~(s[i + 1] < Window)
    <3>1. k[i + 1] = k[i]
      BY <2>3, <2>7
    <3>2. ASSUME NEW a \in 0..Window - 1
          PROVE  AtMost(k[i + 1], a) = Cardinality(Part1(i + 1, a))
      <4>1. ~(s[i + 1] <= a)
        BY <1>1, <2>4, <2>7
      <4>2. AtMost(k[i], a) = Cardinality(Part1(i, a)) /\ a \in Nat
        BY <1>1, <2>1
      <4>3. AtMost(k[i], a) \in Nat
        BY <2>4, <4>2, AtMostTyped
      <4> QED BY <2>5, <3>1, <4>1, <4>2, <4>3
    <3> QED BY <2>1, <3>1, <3>2
  <2> QED BY <2>6, <2>7
<1>5. Nat \subseteq T
  <2> HIDE DEF T
  <2> QED BY <1>3, <1>4, Induction
<1>6. Good(n)
  <2> HIDE DEF Good
  <2> QED BY <1>1, <1>5
<1>7. \A a \in 0..Window - 1 : AtMost(s, a) = Cardinality(Part1(n, a))
  BY <1>1 DEF AtMost
<1> QED BY <1>2, <1>6, <1>7

\* A tick of the clock
LEMMA OlderCounts ==
    ASSUME NEW s \in Seq(Nat)
    PROVE  /\ Older(s) \in Seq(0..Window)
           /\ \A a \in 0..Window - 1 :
                 AtMost(Older(s), a) = IF a = 0 THEN 0 ELSE AtMost(s, a - 1)
<1> DEFINE n == Len(s)
<1>1. n \in Nat /\ DOMAIN s = 1..n /\ (\A i \in 1..n : s[i] \in Nat) /\ Window \in Nat
  BY LimitAssumption
<1>2. Older(s) = [i \in 1..n |-> IF s[i] < Window THEN s[i] + 1 ELSE Window]
  BY <1>1 DEF Older
<1>3. \A i \in 1..n : (IF s[i] < Window THEN s[i] + 1 ELSE Window) \in 0..Window
  BY <1>1
<1>4. Older(s) \in Seq(0..Window)
  <2> DEFINE D == 0..Window
  <2> HIDE DEF D
  <2>1. \A i \in 1..n : (IF s[i] < Window THEN s[i] + 1 ELSE Window) \in D
    BY <1>3 DEF D
  <2>2. Older(s) \in Seq(D)
    BY <1>1, <1>2, <2>1
  <2> QED BY <2>2 DEF D
<1>5. ASSUME NEW a \in 0..Window - 1
      PROVE  AtMost(Older(s), a) = IF a = 0 THEN 0 ELSE AtMost(s, a - 1)
  <2>1. DOMAIN Older(s) = 1..n
    BY <1>2
  <2>2. CASE a = 0
    <3>1. {i \in DOMAIN Older(s) : Older(s)[i] <= a} = {}
      <4>1. \A i \in 1..n : ~ (Older(s)[i] <= 0)
        BY <1>1, <1>2, LimitAssumption
      <4> QED BY <2>1, <2>2, <4>1
    <3> QED BY <2>2, <3>1, FS_EmptySet DEF AtMost
  <2>3. CASE a # 0
    <3>1. \A i \in 1..n : Older(s)[i] <= a <=> s[i] <= a - 1
      BY <1>1, <1>2, <2>3
    <3>2. {i \in DOMAIN Older(s) : Older(s)[i] <= a} = {i \in DOMAIN s : s[i] <= a - 1}
      BY <1>1, <2>1, <3>1
    <3> QED BY <2>3, <3>2 DEF AtMost
  <2> QED BY <2>2, <2>3
<1> QED BY <1>4, <1>5

\* The ages h of a user's accepted commands, the time q without a notice and the ages s of
\* his answers: within the last a ticks there were no more answers than accepted commands,
\* and the notice that q stems from.
Limits(h, q, s) ==
    /\ \A i \in DOMAIN s : s[i] < Window
    /\ AtMost(h, Window - 1) <= OwnerLimit
    /\ \A a \in 0..Window - 1 :
          AtMost(s, a) <= AtMost(h, a) + IF q + a >= Window THEN 1 ELSE 0

GateInv ==
    /\ hits \in [Person -> Seq(0..Window)] /\ quiet \in [User -> 0..Window]
    /\ answered \in [User -> Seq(Nat)]
    /\ \A u \in User : Limits(hits[u], quiet[u], answered[u])

\* The bounds of the window, which the arithmetic below rests on
LEMMA WindowBounds ==
    /\ Window \in Nat /\ Window # 0 /\ Window - 1 \in Nat /\ Window - 1 \in 0..Window - 1
    /\ OwnerLimit \in Nat
BY LimitAssumption

\* More ages are at most a greater number.
LEMMA AtMostGrows ==
    ASSUME NEW s \in Seq(Nat), NEW a \in Nat, NEW b \in Nat, a <= b
    PROVE  AtMost(s, a) <= AtMost(s, b)
<1> DEFINE A == {i \in DOMAIN s : s[i] <= a}
           B == {i \in DOMAIN s : s[i] <= b}
<1>1. DOMAIN s = 1..Len(s) /\ \A i \in 1..Len(s) : s[i] \in Nat
  OBVIOUS
<1>2. A \subseteq B
  BY <1>1
<1>3. IsFiniteSet(B)
  BY AtMostTyped
<1> QED BY <1>2, <1>3, FS_Subset DEF AtMost

\* Pruning, and one more command
LEMMA PrunedCounts ==
    ASSUME NEW h \in Seq(0..Window)
    PROVE  /\ Fresh(h) \o <<>> \in Seq(0..Window) /\ Fresh(h) \o <<0>> \in Seq(0..Window)
           /\ \A a \in 0..Window - 1 :
                 /\ AtMost(Fresh(h) \o <<>>, a) = AtMost(h, a) /\ AtMost(h, a) \in Nat
                 /\ AtMost(Fresh(h) \o <<0>>, a) = AtMost(h, a) + 1
           /\ Len(Fresh(h)) = AtMost(h, Window - 1)
<1> DEFINE S == 0..Window
<1>1. S \subseteq Nat /\ 0 \in S
  BY WindowBounds
<1> HIDE DEF S
<1>2. h \in Seq(S)
  BY DEF S
<1>3. /\ Fresh(h) \in Seq(S)
      /\ \A i \in DOMAIN Fresh(h) : Fresh(h)[i] < Window
      /\ \A a \in 0..Window - 1 : AtMost(Fresh(h), a) = AtMost(h, a)
  BY <1>1, <1>2, FreshCounts
<1>4. Fresh(h) \in Seq(Nat) /\ h \in Seq(Nat)
  BY <1>1, <1>2, <1>3, SeqWider
<1> DEFINE f == Fresh(h)
<1> HIDE DEF f
<1>5. f \o <<>> = f /\ f \o <<0>> = Append(f, 0)
  BY <1>4 DEF f
<1>6. f \o <<>> \in Seq(S) /\ f \o <<0>> \in Seq(S)
  BY <1>1, <1>3, <1>5 DEF f
<1>7. ASSUME NEW a \in 0..Window - 1
      PROVE  /\ AtMost(f \o <<>>, a) = AtMost(h, a) /\ AtMost(h, a) \in Nat
             /\ AtMost(f \o <<0>>, a) = AtMost(h, a) + 1
  <2>1. a \in Nat /\ 0 <= a
    BY WindowBounds
  <2>2. AtMost(h, a) \in Nat /\ AtMost(f, a) = AtMost(h, a)
    BY <1>3, <1>4, <2>1, AtMostTyped DEF f
  <2>3. AtMost(Append(f, 0), a) = AtMost(f, a) + IF 0 <= a THEN 1 ELSE 0
    BY <1>4, <2>1, AtMostAppend DEF f
  <2> QED BY <1>5, <2>1, <2>2, <2>3
<1>8. Len(f) = AtMost(h, Window - 1)
  <2>1. \A i \in DOMAIN f : f[i] \in Nat /\ f[i] <= Window - 1
    <3>1. \A i \in DOMAIN f : f[i] \in Nat /\ f[i] < Window
      BY <1>3, <1>4 DEF f
    <3> QED BY <3>1, WindowBounds
  <2>2. AtMost(f, Window - 1) = Len(f)
    BY <1>4, <2>1, AtMostAll, WindowBounds DEF f
  <2> QED BY <1>3, <2>2, WindowBounds DEF f
<1> QED BY <1>6, <1>7, <1>8 DEF f, S

\* An answer: one more age 0
LEMMA AnsweredCounts ==
    ASSUME NEW s \in Seq(Nat), \A i \in DOMAIN s : s[i] < Window
    PROVE  /\ Append(s, 0) \in Seq(Nat)
           /\ \A i \in DOMAIN Append(s, 0) : Append(s, 0)[i] < Window
           /\ \A a \in 0..Window - 1 : /\ AtMost(Append(s, 0), a) = AtMost(s, a) + 1
                                       /\ AtMost(s, a) \in Nat
<1>1. Append(s, 0) \in Seq(Nat) /\ \A i \in DOMAIN Append(s, 0) : Append(s, 0)[i] < Window
  BY WindowBounds
<1>2. ASSUME NEW a \in 0..Window - 1
      PROVE  AtMost(Append(s, 0), a) = AtMost(s, a) + 1 /\ AtMost(s, a) \in Nat
  <2>1. a \in Nat /\ 0 <= a
    BY WindowBounds
  <2>2. AtMost(s, a) \in Nat /\ 0 \in Nat
    BY <2>1, AtMostTyped
  <2>3. AtMost(Append(s, 0), a) = AtMost(s, a) + IF 0 <= a THEN 1 ELSE 0
    BY <2>1, <2>2, AtMostAppend
  <2> QED BY <2>1, <2>2, <2>3
<1> QED BY <1>1, <1>2

\* A decision of the limiter: a command is accepted, refused with a notice, or refused
LEMMA DecisionLimited ==
    ASSUME NEW h \in Seq(0..Window), NEW q \in 0..Window, NEW s \in Seq(Nat), Limits(h, q, s)
    PROVE  /\ Len(Fresh(h)) < OwnerLimit => Limits(Fresh(h) \o <<0>>, q, Append(s, 0))
           /\ q = 0 => Limits(Fresh(h) \o <<>>, Window, Append(s, 0))
           /\ Limits(Fresh(h) \o <<>>, q, s)
<1> DEFINE more == Fresh(h) \o <<0>>
           same == Fresh(h) \o <<>>
           answers == Append(s, 0)
<1>1. /\ \A a \in 0..Window - 1 : /\ AtMost(same, a) = AtMost(h, a) /\ AtMost(h, a) \in Nat
                                  /\ AtMost(more, a) = AtMost(h, a) + 1
      /\ Len(Fresh(h)) = AtMost(h, Window - 1)
  BY PrunedCounts
<1>2. /\ \A i \in DOMAIN answers : answers[i] < Window
      /\ \A a \in 0..Window - 1 : AtMost(answers, a) = AtMost(s, a) + 1 /\ AtMost(s, a) \in Nat
  BY AnsweredCounts DEF Limits
<1> HIDE DEF more, same, answers
<1>3. Len(Fresh(h)) < OwnerLimit => Limits(more, q, answers)
  <2> SUFFICES ASSUME AtMost(h, Window - 1) < OwnerLimit PROVE Limits(more, q, answers)
    BY <1>1
  <2>1. AtMost(more, Window - 1) <= OwnerLimit
    BY <1>1, WindowBounds
  <2>2. ASSUME NEW a \in 0..Window - 1
        PROVE  AtMost(answers, a) <= AtMost(more, a) + IF q + a >= Window THEN 1 ELSE 0
    <3>1. AtMost(s, a) <= AtMost(h, a) + IF q + a >= Window THEN 1 ELSE 0
      BY DEF Limits
    <3>2. /\ AtMost(answers, a) = AtMost(s, a) + 1 /\ AtMost(s, a) \in Nat
          /\ AtMost(more, a) = AtMost(h, a) + 1 /\ AtMost(h, a) \in Nat
      BY <1>1, <1>2
    <3>3. CASE q + a >= Window
      BY <3>1, <3>2, <3>3
    <3>4. CASE ~(q + a >= Window)
      BY <3>1, <3>2, <3>4
    <3> QED BY <3>3, <3>4
  <2> QED BY <1>2, <2>1, <2>2 DEF Limits
<1>4. q = 0 => Limits(same, Window, answers)
  <2> SUFFICES ASSUME q = 0 PROVE Limits(same, Window, answers)
    OBVIOUS
  <2>1. AtMost(same, Window - 1) <= OwnerLimit
    BY <1>1, WindowBounds DEF Limits
  <2>2. ASSUME NEW a \in 0..Window - 1
        PROVE  AtMost(answers, a) <= AtMost(same, a) + IF Window + a >= Window THEN 1 ELSE 0
    <3>1. Window + a >= Window /\ ~(0 + a >= Window)
      BY WindowBounds
    <3>2. AtMost(s, a) <= AtMost(h, a) + IF 0 + a >= Window THEN 1 ELSE 0
      BY DEF Limits
    <3>3. /\ AtMost(answers, a) = AtMost(s, a) + 1 /\ AtMost(s, a) \in Nat
          /\ AtMost(same, a) = AtMost(h, a) /\ AtMost(h, a) \in Nat
      BY <1>1, <1>2
    <3> QED BY <3>1, <3>2, <3>3
  <2> QED BY <1>2, <2>1, <2>2 DEF Limits
<1>5. Limits(same, q, s)
  <2>1. AtMost(same, Window - 1) <= OwnerLimit
    BY <1>1, WindowBounds DEF Limits
  <2>2. ASSUME NEW a \in 0..Window - 1
        PROVE  AtMost(s, a) <= AtMost(same, a) + IF q + a >= Window THEN 1 ELSE 0
    BY <1>1 DEF Limits
  <2> QED BY <2>1, <2>2 DEF Limits
<1> QED BY <1>3, <1>4, <1>5 DEF more, same, answers

\* A tick of the clock
LEMMA TickLimited ==
    ASSUME NEW h \in Seq(0..Window), NEW q \in 0..Window, NEW s \in Seq(Nat), Limits(h, q, s)
    PROVE  /\ Limits(Older(h), IF q > 0 THEN q - 1 ELSE 0, Fresh(Older(s)))
           /\ Older(h) \in Seq(0..Window) /\ Fresh(Older(s)) \in Seq(Nat)
<1> DEFINE r == IF q > 0 THEN q - 1 ELSE 0
           f == Fresh(Older(s))
           S == 0..Window
<1>1. S \subseteq Nat
  BY WindowBounds
<1> HIDE DEF S
<1>2. h \in Seq(Nat)
  <2>1. h \in Seq(S)
    BY DEF S
  <2> QED BY <1>1, <2>1, SeqWider
<1>3. /\ Older(h) \in Seq(S)
      /\ \A a \in 0..Window - 1 : AtMost(Older(h), a) = IF a = 0 THEN 0 ELSE AtMost(h, a - 1)
  BY <1>2, OlderCounts DEF S
<1>4. /\ Older(s) \in Seq(S)
      /\ \A a \in 0..Window - 1 : AtMost(Older(s), a) = IF a = 0 THEN 0 ELSE AtMost(s, a - 1)
  BY OlderCounts DEF S
<1>5. /\ f \in Seq(S) /\ \A i \in DOMAIN f : f[i] < Window
      /\ \A a \in 0..Window - 1 : AtMost(f, a) = AtMost(Older(s), a)
  BY <1>1, <1>4, FreshCounts
<1>6. f \in Seq(Nat)
  BY <1>1, <1>5, SeqWider
<1> HIDE DEF f
<1>7. AtMost(Older(h), Window - 1) <= OwnerLimit
  <2>1. CASE Window - 1 = 0
    <3>1. AtMost(Older(h), Window - 1) = 0
      BY <1>3, <2>1, WindowBounds
    <3> QED BY <3>1, WindowBounds
  <2>2. CASE Window - 1 # 0
    <3>1. Window - 1 - 1 \in Nat /\ Window - 1 \in Nat /\ Window - 1 - 1 <= Window - 1
      BY <2>2, WindowBounds
    <3>2. AtMost(h, Window - 1 - 1) <= AtMost(h, Window - 1)
      BY <1>2, <3>1, AtMostGrows
    <3>3. AtMost(h, Window - 1 - 1) \in Nat /\ AtMost(h, Window - 1) \in Nat
      BY <1>2, <3>1, AtMostTyped
    <3>4. AtMost(h, Window - 1) <= OwnerLimit
      BY DEF Limits
    <3>5. AtMost(Older(h), Window - 1) = AtMost(h, Window - 1 - 1)
      BY <1>3, <2>2, WindowBounds
    <3> QED BY <3>2, <3>3, <3>4, <3>5, WindowBounds
  <2> QED BY <2>1, <2>2
<1>8. ASSUME NEW a \in 0..Window - 1
      PROVE  AtMost(f, a) <= AtMost(Older(h), a) + IF r + a >= Window THEN 1 ELSE 0
  <2>1. a \in Nat
    BY WindowBounds
  <2>2. CASE a = 0
    <3>1. AtMost(f, a) = 0 /\ AtMost(Older(h), a) = 0
      BY <1>3, <1>4, <1>5, <2>2
    <3> QED BY <3>1
  <2>3. CASE a # 0
    <3>1. a - 1 \in 0..Window - 1 /\ a - 1 \in Nat
      BY <2>1, <2>3, WindowBounds
    <3>2. AtMost(f, a) = AtMost(s, a - 1) /\ AtMost(Older(h), a) = AtMost(h, a - 1)
      BY <1>3, <1>4, <1>5, <2>3
    <3>3. AtMost(s, a - 1) <= AtMost(h, a - 1) + IF q + (a - 1) >= Window THEN 1 ELSE 0
      BY <3>1 DEF Limits
    <3>4. AtMost(s, a - 1) \in Nat /\ AtMost(h, a - 1) \in Nat
      BY <1>2, <3>1, AtMostTyped
    <3>5. q + (a - 1) >= Window => r + a >= Window
      BY <2>1, WindowBounds
    <3> HIDE DEF r
    <3>6. CASE q + (a - 1) >= Window
      BY <3>2, <3>3, <3>4, <3>5, <3>6
    <3>7. CASE ~(q + (a - 1) >= Window)
      <4>1. AtMost(f, a) <= AtMost(Older(h), a)
        BY <3>2, <3>3, <3>4, <3>7
      <4> QED BY <3>2, <3>4, <4>1
    <3> QED BY <3>6, <3>7
  <2> QED BY <2>2, <2>3
<1>9. Limits(Older(h), r, f)
  <2> HIDE DEF r
  <2> QED BY <1>5, <1>7, <1>8 DEF Limits
<1> QED BY <1>3, <1>6, <1>9 DEF f, S

\* Nobody has given a command.
LEMMA GateInitially == Init => GateInv
<1> SUFFICES ASSUME Init PROVE GateInv
  OBVIOUS
<1>1. /\ hits = [x \in Person |-> <<>>] /\ quiet = [u \in User |-> 0]
      /\ answered = [u \in User |-> <<>>]
  BY DEF Init, GateInit
<1>2. Limits(<<>>, 0, <<>>)
  <2>1. \A a \in 0..Window - 1 : AtMost(<<>>, a) = 0 /\ ~(0 + a >= Window)
    BY AtMostEmpty, WindowBounds
  <2>2. DOMAIN <<>> = {}
    OBVIOUS
  <2> QED BY <2>1, <2>2, WindowBounds DEF Limits
<1>3. 0 \in 0..Window /\ <<>> \in Seq(0..Window) /\ <<>> \in Seq(Nat)
  BY WindowBounds
<1> QED BY <1>1, <1>2, <1>3 DEF GateInv, Person

\* The limiter decides about a command of u.
LEMMA DecidesKeeps ==
    ASSUME GateInv, NEW u \in User, NEW verdict, Decides(u, verdict)
    PROVE  GateInv'
<1> DEFINE h == hits[u]
           q == quiet[u]
           s == answered[u]
           S == 0..Window
           spent == IF verdict = "ok" THEN <<0>> ELSE <<>>
<1>1. u \in Person /\ Self \in Person /\ Self # u /\ \A v \in User : v \in Person /\ v # Self
  BY SelfAssumption DEF Person
<1>2. h \in Seq(S) /\ hits[Self] \in Seq(S) /\ q \in 0..Window /\ s \in Seq(Nat)
      /\ Limits(h, q, s)
  BY <1>1 DEF GateInv
<1>3. /\ Fresh(h) \o <<>> \in Seq(S) /\ Fresh(h) \o <<0>> \in Seq(S)
      /\ Fresh(hits[Self]) \o <<>> \in Seq(S) /\ Fresh(hits[Self]) \o <<0>> \in Seq(S)
      /\ Len(Fresh(h)) \in Nat
  <2>1. Window - 1 \in 0..Window - 1
    BY WindowBounds
  <2> QED BY <1>2, <2>1, PrunedCounts
<1>4. /\ Len(Fresh(h)) < OwnerLimit => Limits(Fresh(h) \o <<0>>, q, Append(s, 0))
      /\ q = 0 => Limits(Fresh(h) \o <<>>, Window, Append(s, 0))
      /\ Limits(Fresh(h) \o <<>>, q, s)
  BY <1>2, DecisionLimited
<1>5. Append(s, 0) \in Seq(Nat)
  BY <1>2
<1>6. verdict = "ok" => Len(Fresh(h)) < OwnerLimit
  <2>1. LimitOf(Role(u)) <= OwnerLimit /\ LimitOf(Role(u)) \in Nat
    BY LimitAssumption DEF LimitOf
  <2>2. verdict = "ok" => Len(Fresh(h)) < LimitOf(Role(u))
    BY DEF Decides, Accepts
  <2> DEFINE n == Len(Fresh(h))
             m == LimitOf(Role(u))
  <2>3. n \in Nat /\ m \in Nat /\ m <= OwnerLimit /\ (verdict = "ok" => n < m)
    BY <1>3, <2>1, <2>2
  <2> HIDE DEF n, m
  <2>4. verdict = "ok" => n < OwnerLimit
    BY <2>3, WindowBounds
  <2> QED BY <2>4 DEF n
<1>7. hits' = [hits EXCEPT ![u] = Fresh(@) \o spent, ![Self] = Fresh(@) \o spent]
  BY DEF Decides
<1> DEFINE H == Fresh(h) \o spent
           Q == IF verdict = "notice" THEN Window ELSE q
           A == IF verdict = "limited" THEN s ELSE Append(s, 0)
<1>8. H \in Seq(S) /\ Fresh(hits[Self]) \o spent \in Seq(S)
  BY <1>3
<1>9. Q \in 0..Window /\ A \in Seq(Nat)
  BY <1>2, <1>5, WindowBounds
<1>10. Limits(H, Q, A)
  <2>1. verdict = "notice" => q = 0
    BY DEF Decides, Noticed
  <2>2. verdict \in {"ok", "notice", "limited"}
    BY DEF Decides
  <2> QED BY <1>4, <1>6, <2>1, <2>2
<1>11. hits' \in [Person -> Seq(S)] /\ \A v \in User : hits'[v] = IF v = u THEN H ELSE hits[v]
  <2> DEFINE T == Seq(S)
  <2>1. hits \in [Person -> T]
    BY DEF GateInv
  <2>2. H \in T /\ Fresh(hits[Self]) \o spent \in T
    BY <1>8
  <2> HIDE DEF T, spent, h
  <2>3. hits' = [hits EXCEPT ![u] = Fresh(hits[u]) \o spent, ![Self] = Fresh(hits[Self]) \o spent]
    BY <1>1, <1>7, <2>1
  <2> QED BY <1>1, <2>1, <2>2, <2>3 DEF T, h
<1>12. quiet' \in [User -> 0..Window] /\ \A v \in User : quiet'[v] = IF v = u THEN Q ELSE quiet[v]
  <2>1. quiet' = IF verdict = "notice" THEN [quiet EXCEPT ![u] = Window] ELSE quiet
    BY DEF Decides
  <2>2. quiet \in [User -> S] /\ Window \in S
    BY WindowBounds DEF GateInv
  <2> HIDE DEF S
  <2>3. quiet' \in [User -> S] /\ \A v \in User : quiet'[v] = IF v = u THEN Q ELSE quiet[v]
    BY <2>1, <2>2
  <2> QED BY <2>3 DEF S
<1>13. /\ answered' \in [User -> Seq(Nat)]
       /\ \A v \in User : answered'[v] = IF v = u THEN A ELSE answered[v]
  <2> DEFINE T == Seq(Nat)
  <2>1. answered' = IF verdict = "limited" THEN answered ELSE [answered EXCEPT ![u] = Append(@, 0)]
    BY DEF Decides
  <2>2. answered \in [User -> T] /\ Append(s, 0) \in T
    BY <1>5 DEF GateInv
  <2> HIDE DEF T
  <2>3. answered' \in [User -> T] /\ \A v \in User : answered'[v] = IF v = u THEN A ELSE answered[v]
    BY <2>1, <2>2
  <2> QED BY <2>3 DEF T
<1> HIDE DEF H, Q, A
<1>14. \A v \in User : Limits(hits'[v], quiet'[v], answered'[v])
  BY <1>10, <1>11, <1>12, <1>13 DEF GateInv
<1> QED BY <1>11, <1>12, <1>13, <1>14 DEF GateInv

\* The clock ticks.
LEMMA TicksKeeps ==
    ASSUME GateInv, Ticks
    PROVE  GateInv'
<1> DEFINE S == Seq(0..Window)
           N == Seq(Nat)
<1>1. /\ hits' = [x \in Person |-> Older(hits[x])]
      /\ quiet' = [u \in User |-> IF quiet[u] > 0 THEN quiet[u] - 1 ELSE 0]
      /\ answered' = [u \in User |-> Fresh(Older(answered[u]))]
  BY DEF Ticks
<1>2. ASSUME NEW x \in Person PROVE Older(hits[x]) \in S
  <2>1. hits[x] \in Seq(0..Window)
    BY DEF GateInv
  <2>2. 0..Window \subseteq Nat
    BY WindowBounds
  <2>3. hits[x] \in Seq(Nat)
    BY <2>1, <2>2, SeqWider
  <2> QED BY <2>3, OlderCounts
<1>3. ASSUME NEW u \in User
      PROVE  /\ Fresh(Older(answered[u])) \in N
             /\ Limits(Older(hits[u]), IF quiet[u] > 0 THEN quiet[u] - 1 ELSE 0,
                       Fresh(Older(answered[u])))
  <2>1. hits[u] \in Seq(0..Window) /\ quiet[u] \in 0..Window /\ answered[u] \in Seq(Nat)
        /\ Limits(hits[u], quiet[u], answered[u])
    BY DEF GateInv, Person
  <2> QED BY <2>1, TickLimited
<1>4. \A u \in User : (IF quiet[u] > 0 THEN quiet[u] - 1 ELSE 0) \in 0..Window
  BY WindowBounds DEF GateInv
<1> HIDE DEF S, N
<1>5. hits' \in [Person -> S] /\ answered' \in [User -> N]
  BY <1>1, <1>2, <1>3
<1>6. quiet' \in [User -> 0..Window]
  BY <1>1, <1>4
<1>7. \A u \in User : Limits(hits'[u], quiet'[u], answered'[u])
  BY <1>1, <1>3 DEF Person
<1> QED BY <1>5, <1>6, <1>7 DEF GateInv, S, N

\* Nothing else touches the limiter.
LEMMA GateKept ==
    ASSUME GateInv, [Next]_vars
    PROVE  GateInv'
<1>1. CASE UNCHANGED <<hits, quiet, answered>>
  BY <1>1 DEF GateInv
<1>2. CASE WorkerStep
  <2>1. ASSUME NEW c \in Call, NEW x \in Person, NEW k \in Command, Dispatches(c, x, k)
        PROVE  GateInv'
    <3>1. CASE x = Self
      BY <1>1, <2>1, <3>1 DEF Dispatches
    <3>2. CASE x # Self
      <4>1. x \in User
        BY <3>2 DEF Person
      <4>2. PICK verdict : Decides(x, verdict)
        BY <2>1, <3>2 DEF Dispatches
      <4> QED BY <4>1, <4>2, DecidesKeeps
    <3> QED BY <3>1, <3>2
  <2>2. ASSUME NEW c \in Call, Resolved(c) PROVE GateInv'
    BY <1>1, <2>2 DEF Resolved
  <2> QED BY <1>2, <2>1, <2>2 DEF WorkerStep
<1>3. CASE Ticks
  BY <1>3, TicksKeeps
<1> QED BY <1>1, <1>2, <1>3 DEF Next, vars, gateVars

\* Within a window a user gets at most as many answers as the owner's limit and one notice.
THEOREM AnswersAreLimited == Spec => []AnswersPerWindow
<1>1. GateInv => AnswersPerWindow
  <2> SUFFICES ASSUME GateInv, NEW u \in User PROVE Len(answered[u]) <= OwnerLimit + 1
    BY DEF AnswersPerWindow
  <2> DEFINE s == answered[u]
             h == hits[u]
  <2>1. s \in Seq(Nat) /\ h \in Seq(0..Window) /\ Limits(h, quiet[u], s)
    BY DEF GateInv, Person
  <2> HIDE DEF s, h
  <2>2. \A i \in DOMAIN s : s[i] <= Window - 1
    <3>1. \A i \in DOMAIN s : s[i] \in Nat /\ s[i] < Window
      BY <2>1 DEF Limits
    <3> QED BY <3>1, WindowBounds
  <2>3. AtMost(s, Window - 1) = Len(s)
    BY <2>1, <2>2, AtMostAll, WindowBounds
  <2>4. AtMost(h, Window - 1) <= OwnerLimit /\ AtMost(h, Window - 1) \in Nat
    BY <2>1, PrunedCounts, WindowBounds DEF Limits
  <2>5. Len(s) <= AtMost(h, Window - 1) + IF quiet[u] + (Window - 1) >= Window THEN 1 ELSE 0
    BY <2>1, <2>3, WindowBounds DEF Limits
  <2>6. Len(s) \in Nat
    BY <2>1
  <2>7. Len(s) <= AtMost(h, Window - 1) + 1
    <3> DEFINE c == quiet[u] + (Window - 1) >= Window
               n == AtMost(h, Window - 1)
    <3>1. Len(s) <= n + (IF c THEN 1 ELSE 0)
      BY <2>5
    <3>2. n \in Nat
      BY <2>4
    <3> HIDE DEF c, n
    <3>3. Len(s) <= n + 1
      BY <2>6, <3>1, <3>2
    <3> QED BY <3>3 DEF n
  <2> QED BY <2>4, <2>6, <2>7, WindowBounds DEF s
<1>2. Init => GateInv
  BY GateInitially
<1>3. GateInv /\ [Next]_vars => GateInv'
  BY GateKept
<1> QED BY <1>1, <1>2, <1>3, PTL DEF Spec
-----------------------------------------------------------------------------
(***************************************************************************)
(* Types.                                                                  *)
(***************************************************************************)
Complete == [name : Name, limit : Limit]

\* A plan that an administrator edits exists: none is ever deleted.
PlansInv ==
    /\ plans \in [Plan -> Complete \cup {None}] /\ allowed \in [Plan -> SUBSET Plugin]
    /\ editing \in [Admin -> Plan \cup {None}] /\ field \in [Admin -> Field \cup {None}]
    /\ shown \subseteq Admin
    /\ \A a \in Admin : editing[a] # None => plans[editing[a]] \in Complete

\* The first plan is there and complete.
LEMMA PlansInitially == Init => PlansInv
<1> SUFFICES ASSUME Init PROVE PlansInv
  OBVIOUS
<1> DEFINE r == CHOOSE r \in Complete : TRUE
           q == CHOOSE q \in Plan : TRUE
<1>1. r \in Complete
  <2>1. PICK n \in Name, l \in Limit : TRUE
    BY TypedAssumption
  <2>2. [name |-> n, limit |-> l] \in Complete
    BY DEF Complete
  <2> QED BY <2>2
<1> HIDE DEF r, q
<1>2. plans = [p \in Plan |-> IF p = q THEN r ELSE None]
  BY DEF Init, PlanInit, r, q, Complete
<1>3. /\ allowed = [p \in Plan |-> IF plans[p] = None THEN {} ELSE Plugin]
      /\ editing = [a \in Admin |-> None] /\ field = [a \in Admin |-> None] /\ shown = {}
  BY DEF Init, PlanInit
<1> QED BY <1>1, <1>2, <1>3 DEF PlansInv

\* A plan with other answers is complete, and whoever edits one goes on doing so.
LEMMA PlanChanged ==
    ASSUME PlansInv, NEW p \in Plan, NEW d \in Complete, plans' = [plans EXCEPT ![p] = d],
           allowed' \in [Plan -> SUBSET Plugin], UNCHANGED <<editing, shown>>,
           field' \in [Admin -> Field \cup {None}]
    PROVE  PlansInv'
<1>1. plans' \in [Plan -> Complete \cup {None}] /\ \A q \in Plan : q # p => plans'[q] = plans[q]
      /\ plans'[p] = d
  BY DEF PlansInv
<1>2. ASSUME NEW a \in Admin, editing[a] # None PROVE plans'[editing[a]] \in Complete
  BY <1>1, <1>2 DEF PlansInv
<1> QED BY <1>1, <1>2 DEF PlansInv

\* Everything else leaves the plans themselves alone.
LEMMA PlansAlone ==
    ASSUME PlansInv, UNCHANGED plans, allowed' \in [Plan -> SUBSET Plugin],
           editing' \in [Admin -> Plan \cup {None}], field' \in [Admin -> Field \cup {None}],
           shown' \subseteq Admin,
           \A a \in Admin : editing'[a] # None => editing'[a] = editing[a] \/ editing'[a] \in Existing
    PROVE  PlansInv'
<1>1. ASSUME NEW p \in Existing PROVE plans[p] \in Complete
  BY DEF Existing, PlansInv
<1> QED BY <1>1 DEF PlansInv

\* A handler of the plans' administrators
LEMMA PlanStepTypes ==
    ASSUME PlansInv, DraftsInv, PlanStep
    PROVE  PlansInv'
<1> USE DEF tableVars, planVars, dialogVars
<1>1. PICK a \in Admin : \/ CreateStarts(a) \/ CreateReads(a)
                         \/ CreateSaves(a) \/ CreateEnds(a)
                         \/ EditReads(a) \/ EditEnds(a) \/ EditsContent(a)
                         \/ \E p \in Plan : EditMenu(a, p)
                         \/ \E f \in Field : EditStarts(a, f)
  BY DEF PlanStep
<1>2. CASE UNCHANGED <<plans, allowed, editing, field, shown>>
  BY <1>2, PlansAlone DEF PlansInv
<1>3. CASE CreateSaves(a) /\ ~UNCHANGED tableVars
  <2>1. step[a] = 7 /\ draft[a] # None /\ AddPlan(draft[a]) /\ UNCHANGED <<editing, field, shown>>
    BY <1>3 DEF CreateSaves
  <2>2. draft[a] \in Draft /\ draft[a].name # None /\ draft[a].limit # None
    BY <2>1 DEF DraftsInv
  <2>3. draft[a] \in Complete
    BY <2>2 DEF Draft, Complete
  <2>4. PICK p \in Plan : /\ plans' = [plans EXCEPT ![p] = draft[a]]
                          /\ allowed' = [allowed EXCEPT ![p] = Plugin]
    BY <2>1 DEF AddPlan, Existing
  <2>5. allowed' \in [Plan -> SUBSET Plugin] /\ field' \in [Admin -> Field \cup {None}]
    BY <2>1, <2>4 DEF PlansInv
  <2> QED BY <2>1, <2>3, <2>4, <2>5, PlanChanged
<1>4. CASE EditReads(a)
  <2>1. UNCHANGED <<allowed, editing, shown>>
    BY <1>4 DEF EditReads
  <2>2. field' \in [Admin -> Field \cup {None}]
    BY <1>4 DEF EditReads, PlansInv
  <2>3. CASE UNCHANGED plans
    BY <2>1, <2>2, <2>3, PlansAlone DEF PlansInv
  <2>4. CASE ~UNCHANGED plans
    <3> DEFINE p == editing[a]
    <3>1. PICK v \in Name \cup Limit : p # None /\ field[a] # None /\ Updates(p, field[a], v)
      BY <1>4, <2>4 DEF EditReads
    <3>2. p \in Plan /\ plans[p] \in Complete /\ field[a] \in Field \cup {None}
      BY <3>1 DEF PlansInv
    <3> HIDE DEF p
    <3>3. CASE field[a] = "name"
      <4>1. v \in Name /\ plans' = [plans EXCEPT ![p] = [plans[p] EXCEPT !.name = v]]
        BY <3>1, <3>2, <3>3 DEF Updates
      <4>2. [plans[p] EXCEPT !.name = v] \in Complete
        BY <3>2, <4>1 DEF Complete
      <4> QED BY <2>1, <2>2, <3>2, <4>1, <4>2, PlanChanged DEF PlansInv
    <3>4. CASE field[a] # "name"
      <4>1. plans' = [plans EXCEPT ![p] = [plans[p] EXCEPT !.limit = v]]
        BY <3>1, <3>2, <3>4 DEF Updates
      <4>2. v \in Limit
        BY <3>1, <3>2, <3>4 DEF Updates, Field
      <4>3. [plans[p] EXCEPT !.limit = v] \in Complete
        BY <3>2, <4>2 DEF Complete
      <4> QED BY <2>1, <2>2, <3>2, <4>1, <4>3, PlanChanged DEF PlansInv
    <3> QED BY <3>3, <3>4
  <2> QED BY <2>3, <2>4
<1>5. CASE EditEnds(a)
  BY <1>5, PlansAlone DEF EditEnds, PlansInv
<1>6. ASSUME NEW p \in Plan, EditMenu(a, p) PROVE PlansInv'
  <2>1. Opens(a, p) = editing[a] \/ Opens(a, p) \in Existing
    BY <1>6 DEF EditMenu, Opens
  <2>2. Opens(a, p) \in Plan \cup {None} /\ editing' = [editing EXCEPT ![a] = Opens(a, p)]
    BY <1>6 DEF EditMenu, Opens, PlansInv
  <2>3. UNCHANGED <<plans, allowed, field>> /\ shown' = shown \cup {a}
    BY <1>6 DEF EditMenu
  <2>4. \A b \in Admin : editing'[b] = IF b = a THEN Opens(a, p) ELSE editing[b]
    BY <2>2 DEF PlansInv
  <2>5. editing' \in [Admin -> Plan \cup {None}]
    BY <2>2 DEF PlansInv
  <2> QED BY <2>1, <2>3, <2>4, <2>5, PlansAlone DEF PlansInv
<1>7. ASSUME NEW f \in Field, EditStarts(a, f) PROVE PlansInv'
  BY <1>7, PlansAlone DEF EditStarts, PlansInv
<1>8. CASE CreateStarts(a) \/ CreateReads(a) \/ CreateEnds(a) \/ EditsContent(a)
  BY <1>2, <1>8 DEF CreateStarts, CreateReads, CreateEnds, EditsContent
<1>9. CASE CreateSaves(a) /\ UNCHANGED tableVars
  BY <1>2, <1>9 DEF CreateSaves
<1> QED BY <1>1, <1>3, <1>4, <1>5, <1>6, <1>7, <1>8, <1>9

\* Everybody else changes what a plan allows, at most.
LEMMA PlansKept ==
    ASSUME PlansInv, DraftsInv, [Next]_vars
    PROVE  PlansInv'
<1> USE DEF planVars, tableVars, dialogVars
<1>1. ASSUME UNCHANGED <<plans, allowed, editing, field, shown>> PROVE PlansInv'
  BY <1>1, PlansAlone DEF PlansInv
<1>2. CASE UNCHANGED vars
  BY <1>1, <1>2 DEF vars
<1>3. CASE BotStep
  <2>1. CASE PlanStep
    BY <2>1, PlanStepTypes
  <2>2. CASE UNCHANGED planVars
    BY <1>1, <2>2
  <2>3. CASE TeamStep
    BY <1>1, <2>3 DEF TeamStep, AsksManager, CancelsManager, ReadsManager, RotatesLink,
                      RemovesManager
  <2>4. CASE AdminStep
    BY <1>1, <2>4 DEF AdminStep, AsksAdmin, CancelsAdmin, ReadsAdmin, LookedUp, RemovesListed,
                      RemovesInPanel
  <2>5. CASE PluginStep
    BY <1>1, <2>5 DEF PluginStep, MenuSetsPlugin, TogglesColumn, PanelSetsPlugin,
                      SetAccountPlugin, AsksSetting, ReadsSetting
  <2>6. ASSUME NEW p \in Plan, NEW g \in Plugin, TogglePlanPlugin(p, g) PROVE PlansInv'
    <3>1. UNCHANGED <<plans, dialogVars>> /\ allowed' \in [Plan -> SUBSET Plugin]
      BY <2>6 DEF TogglePlanPlugin, SetPlanPluginAllowed, PlansInv
    <3> QED BY <3>1, PlansAlone DEF PlansInv
  <2>7. ASSUME NEW g \in Plugin, MigratePlugins({g}) PROVE PlansInv'
    <3>1. UNCHANGED <<plans, dialogVars>> /\ allowed' \in [Plan -> SUBSET Plugin]
      BY <2>7 DEF MigratePlugins, PlansInv
    <3> QED BY <3>1, PlansAlone DEF PlansInv
  <2> QED BY <1>3, <2>1, <2>2, <2>3, <2>4, <2>5, <2>6, <2>7 DEF BotStep
<1>4. ASSUME NEW u \in User, LinkStep(u) PROVE PlansInv'
  <2>1. Forgets(u)
    BY <1>4 DEF LinkStep, OpensLink
  <2>2. CASE u \in Admin
    <3>1. UNCHANGED <<plans, allowed, shown>> /\ editing' = [editing EXCEPT ![u] = None]
          /\ field' = [field EXCEPT ![u] = None]
      BY <2>1, <2>2 DEF Forgets
    <3> QED BY <3>1, PlansAlone DEF PlansInv
  <2> QED BY <1>1, <2>1, <2>2 DEF Forgets
<1>5. CASE PasswordStep
  BY <1>1, <1>5 DEF PasswordStep
<1>6. CASE WorkerStep
  BY <1>1, <1>6 DEF WorkerStep, Dispatches, Resolved
<1>7. ASSUME NEW p \in Process, AddCommits(p) PROVE PlansInv'
  BY <1>1, <1>7 DEF AddCommits
<1>8. CASE Ticks
  BY <1>1, <1>8 DEF Ticks
<1> QED BY <1>2, <1>3, <1>4, <1>5, <1>6, <1>7, <1>8 DEF Next, OpenStep

\* The row of the account and what its owner has chosen
RowsInv ==
    /\ owner \in User /\ deleted \in BOOLEAN
    /\ plan \in [User -> Plan \cup {None}]
    /\ toggle \in [Plugin -> {"unset", "on", "off"}]
    /\ managers \subseteq User \X User /\ team \in [User -> 0..MaxLinks]

\* A new account
LEMMA RowsInitially == Init => RowsInv
<1> SUFFICES ASSUME Init PROVE RowsInv
  OBVIOUS
<1>1. PICK p \in Existing : plan = [u \in User |-> p]
  BY DEF Init, RightsInit
<1>2. p \in Plan
  BY DEF Existing
<1>3. owner \in User /\ deleted = FALSE /\ managers = {} /\ team = [u \in User |-> 0]
      /\ toggle = [g \in Plugin |-> IF g \in Columns THEN "off" ELSE "unset"]
  BY DEF Init, RightsInit
<1>4. 0 \in 0..MaxLinks
  BY MaxAdminsAssumption
<1> QED BY <1>1, <1>2, <1>3, <1>4 DEF RowsInv

\* Transfers, deletions, links, managers and switches
LEMMA RowsKept ==
    ASSUME RowsInv, [Next]_vars
    PROVE  RowsInv'
<1> USE DEF rightsVars, rowVars, teamVars
<1>1. ASSUME UNCHANGED <<owner, deleted, plan, toggle, managers, team>> PROVE RowsInv'
  BY <1>1 DEF RowsInv
<1>2. ASSUME NEW g \in Plugin, Turned(g), UNCHANGED <<rowVars, teamVars>> PROVE RowsInv'
  BY <1>2 DEF Turned, RowsInv
<1>3. ASSUME NEW o \in User, NEW m \in User, AddsManager(o, m), UNCHANGED <<rowVars, toggle, team>>
      PROVE  RowsInv'
  BY <1>3 DEF AddsManager, RowsInv
<1>4. CASE UNCHANGED vars
  BY <1>1, <1>4 DEF vars
<1>5. CASE BotStep
  <2>1. CASE UNCHANGED rightsVars
    BY <1>1, <2>1
  <2>2. CASE RowStep
    <3>1. ASSUME NEW u \in User, NEW v \in User, TransferAccount(u, v) PROVE RowsInv'
      BY <3>1 DEF TransferAccount, RowsInv
    <3>2. ASSUME NEW u \in User, DeleteAccount(u) \/ ReviveAccount(u) PROVE RowsInv'
      BY <3>2 DEF DeleteAccount, ReviveAccount, RowsInv
    <3> QED BY <2>2, <3>1, <3>2 DEF RowStep
  <2>3. ASSUME NEW u \in User, SubscriptionChanges(u) PROVE RowsInv'
    <3>1. PICK p \in Existing \cup {None} : plan' = [plan EXCEPT ![u] = p]
      BY <2>3 DEF SubscriptionChanges
    <3>2. p \in Plan \cup {None} /\ UNCHANGED <<owner, deleted, toggle, managers, team>>
      BY <2>3, <3>1 DEF SubscriptionChanges, Existing
    <3> QED BY <3>1, <3>2 DEF RowsInv
  <2>4. CASE TeamStep
    <3>1. PICK u \in User : \/ AsksManager(u) \/ CancelsManager(u) \/ ReadsManager(u)
                            \/ RotatesLink(u)
                            \/ \E m \in User : RemovesManager(u, m)
      BY <2>4 DEF TeamStep
    <3>2. CASE AsksManager(u) \/ CancelsManager(u)
      BY <1>1, <3>2 DEF AsksManager, CancelsManager
    <3>3. CASE ReadsManager(u)
      BY <1>1, <1>3, <3>3 DEF ReadsManager
    <3>4. CASE RotatesLink(u)
      <4>1. team[u] \in Nat /\ MaxLinks \in Nat /\ team[u] < MaxLinks
            /\ team' = [team EXCEPT ![u] = team[u] + 1]
        BY <3>4, MaxAdminsAssumption DEF RotatesLink, RowsInv
      <4>2. team[u] + 1 \in 0..MaxLinks
        BY <4>1
      <4> QED BY <3>4, <4>1, <4>2 DEF RotatesLink, RowsInv
    <3>5. ASSUME NEW m \in User, RemovesManager(u, m) PROVE RowsInv'
      BY <3>5 DEF RemovesManager, RowsInv
    <3> QED BY <3>1, <3>2, <3>3, <3>4, <3>5
  <2>5. CASE AdminStep
    BY <1>1, <2>5 DEF AdminStep, AsksAdmin, CancelsAdmin, ReadsAdmin, LookedUp, RemovesListed,
                      RemovesInPanel
  <2>6. CASE PluginStep
    BY <1>1, <1>2, <2>6 DEF PluginStep, MenuSetsPlugin, TogglesColumn, PanelSetsPlugin,
                            SetAccountPlugin, AsksSetting, ReadsSetting
  <2> QED BY <1>5, <2>1, <2>2, <2>3, <2>4, <2>5, <2>6 DEF BotStep
<1>6. ASSUME NEW u \in User, LinkStep(u) PROVE RowsInv'
  <2>1. PICK o \in User, link \in 0..MaxLinks : OpensLink(u, o, link)
    BY <1>6 DEF LinkStep
  <2> QED BY <1>1, <1>3, <2>1 DEF OpensLink
<1>7. CASE PasswordStep
  BY <1>1, <1>7 DEF PasswordStep
<1>8. CASE WorkerStep
  BY <1>1, <1>8 DEF WorkerStep, Dispatches, Resolved
<1>9. ASSUME NEW p \in Process, AddCommits(p) PROVE RowsInv'
  BY <1>1, <1>9 DEF AddCommits
<1>10. CASE Ticks
  BY <1>1, <1>10 DEF Ticks
<1> QED BY <1>4, <1>5, <1>6, <1>7, <1>8, <1>9, <1>10 DEF Next, OpenStep

\* The password the account has is one that was typed, or another device's.
LEMMA CloudKept ==
    ASSUME cloud \in Maybe, PasswordsInv, [Next]_vars
    PROVE  cloud' \in Maybe
<1> USE DEF twoStepVars
<1>1. CASE UNCHANGED cloud
  BY <1>1
<1>2. CASE TwoStepStep
  <2>1. ASSUME NEW u \in Typist, TwoStepStarts(u) \/ ReadsPassword(u) \/ CancelsTwoStep(u)
        PROVE  cloud' \in Maybe
    BY <1>1, <2>1 DEF TwoStepStarts, ReadsPassword, CancelsTwoStep
  <2>2. ASSUME NEW t \in Task, StatusAnswers(t) \/ TellsResult(t) PROVE cloud' \in Maybe
    BY <1>1, <2>2 DEF StatusAnswers, TellsResult
  <2>3. ASSUME NEW t \in Task, SetsPassword(t) PROVE cloud' \in Maybe
    <3>1. work[t] \in Handling
      BY <2>3 DEF SetsPassword, PasswordsInv
    <3>2. work[t].new \in Maybe
      BY <3>1 DEF Handling
    <3> QED BY <1>1, <2>3, <3>2 DEF SetsPassword, Applies
  <2>4. CASE OtherDevice
    BY <2>4 DEF OtherDevice
  <2> QED BY <1>2, <2>1, <2>2, <2>3, <2>4 DEF TwoStepStep
<1> QED BY <1>1, <1>2 DEF Next, vars, OpenStep, ForgetsTyped, PasswordStep

TypesInv == WaitsInv /\ PlansInv /\ RowsInv /\ GateInv /\ cloud \in Maybe /\ scene \in Scenes

\* Every variable of the bot and of the worker keeps its type.
THEOREM AccessTypes == Spec => []TypeOK
<1>1. Init => TypesInv
  BY WaitsInitially, PlansInitially, RowsInitially, GateInitially
     DEF TypesInv, Init, TwoStepInit
<1>2. TypesInv /\ DraftsInv /\ PasswordsInv /\ [Next]_vars => TypesInv'
  <2> SUFFICES ASSUME TypesInv, DraftsInv, PasswordsInv, [Next]_vars PROVE TypesInv'
    OBVIOUS
  <2>1. UNCHANGED scene
    BY DEF Next, vars
  <2> QED BY <2>1, WaitsKept, PlansKept, RowsKept, GateKept, CloudKept DEF TypesInv
<1>3. TypesInv /\ RightsInv /\ DraftsInv /\ PasswordsInv => TypeOK
  <2> SUFFICES ASSUME TypesInv, RightsInv, DraftsInv, PasswordsInv PROVE TypeOK
    OBVIOUS
  <2>1. InputTypeOK /\ scene \in Scenes
    BY DEF TypesInv, WaitsInv
  <2>2. PlanTypeOK
    BY DEF TypesInv, WaitsInv, PlansInv, DraftsInv, PlanTypeOK, Complete
  <2>3. RightsTypeOK
    <3>1. looking \subseteq User /\ owner \in owned /\ owned \subseteq User
          /\ admins \in [Person -> Person \cup {None}] /\ tx \in [Process -> Insert \cup {None}]
      BY DEF RightsInv
    <3> QED BY <3>1 DEF TypesInv, RowsInv, RightsTypeOK
  <2>4. GateTypeOK
    BY DEF TypesInv, GateInv, RightsInv, GateTypeOK, Calls
  <2>5. TwoStepTypeOK
    BY DEF TypesInv, WaitsInv, PasswordsInv, TwoStepTypeOK, Typed
  <2> QED BY <2>1, <2>2, <2>3, <2>4, <2>5 DEF TypeOK
<1>4. RightsInv /\ CountInv /\ [Next]_vars => RightsInv' /\ CountInv'
  BY RightsKept
<1>5. DraftsInv /\ PasswordsInv /\ [Next]_vars => DraftsInv' /\ PasswordsInv'
  BY DraftsKept, PasswordsKept
<1> QED BY <1>1, <1>2, <1>3, <1>4, <1>5, RightsInitially, AskedInitially, PTL DEF Spec
=============================================================================
