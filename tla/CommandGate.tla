---------------------------- MODULE CommandGate ----------------------------
(***************************************************************************)
(* Which commands a running account carries out: the dispatcher            *)
(* (runtime/plugins.Dispatcher), the limit on the commands of others       *)
(* (runtime/actors.py), and the commands that change the admins            *)
(* (plugins/delegates.py).  The other commands are in AccountCommands.     *)
(***************************************************************************)
EXTENDS AccountRights, Sequences

CONSTANTS Call,             \* bound: commands in progress at once
          Window,           \* the limit's window, in ticks of the clock
          AdminLimit, OwnerLimit, AccountLimit

ASSUME LimitAssumption ==
    /\ Window \in Nat \ {0}
    /\ AdminLimit \in Nat /\ OwnerLimit \in Nat /\ AccountLimit \in Nat
    /\ AdminLimit <= OwnerLimit

\* A command of another plugin that an admin may give, one that he may not, and
\* those of delegates.py
Command == {"tool", "sensitive", "addadmin", "deladmin"}

OwnerOnly == Command \ {"tool"}

PluginOf(k) == IF k \in {"addadmin", "deladmin"} THEN "delegates" ELSE "tools"

Idle == [kind |-> "none", by |-> None]

VARIABLES
    call,       \* commands that wait for Telegram to resolve a @name
    hits,       \* user -> the ages of his accepted commands; Self: those of all
    quiet,      \* user -> how long no notice is sent to him
    answered    \* history: user -> the ages of the answers he got, within the window

gateVars == <<call, hits, quiet, answered>>

GateTypeOK ==
    /\ call \in [Call -> [kind : {"addadmin", "deladmin"}, by : Person] \cup {Idle}]
    /\ hits \in [Person -> Seq(0..Window)]
    /\ quiet \in [User -> 0..Window]
    /\ answered \in [User -> Seq(Nat)]

GateInit ==
    /\ call = [c \in Call |-> Idle]
    /\ hits = [x \in Person |-> <<>>]
    /\ quiet = [u \in User |-> 0]
    /\ answered = [u \in User |-> <<>>]

\* classify_actor, for one who is not ignored
Role(x) == IF x = Self THEN "self" ELSE IF x = owner THEN "owner" ELSE "admin"

Heard(x) == x = Self \/ (~deleted /\ (x = owner \/ x \in Admins))

\* _prune: the ages that lie within the window, in their order
Fresh(ages) ==
    LET kept[i \in 0..Len(ages)] == IF i = 0 THEN <<>>
                                    ELSE IF ages[i] < Window THEN Append(kept[i - 1], ages[i])
                                    ELSE kept[i - 1]
    IN kept[Len(ages)]

LimitOf(role) == IF role = "admin" THEN AdminLimit ELSE OwnerLimit

Accepts(u) == /\ Len(Fresh(hits[u])) < LimitOf(Role(u))
              /\ Len(Fresh(hits[Self])) < AccountLimit

\* Mutant: every command past the limit gets a notice
AlwaysNoticed(u) == TRUE

Noticed(u) == quiet[u] = 0

\* decide: "ok", "notice" or "limited"
Decides(u, verdict) ==
    /\ verdict = IF Accepts(u) THEN "ok" ELSE IF Noticed(u) THEN "notice" ELSE "limited"
    /\ LET spent == IF verdict = "ok" THEN <<0>> ELSE <<>>
       IN hits' = [hits EXCEPT ![u] = Fresh(@) \o spent, ![Self] = Fresh(@) \o spent]
    /\ quiet' = IF verdict = "notice" THEN [quiet EXCEPT ![u] = Window] ELSE quiet
    /\ answered' = IF verdict = "limited" THEN answered
                   ELSE [answered EXCEPT ![u] = Append(@, 0)]

\* What delegates.py does for x with the person t: itself and the owner are refused.
CarriesOut(k, x, t) ==
    IF k = "addadmin"
    THEN /\ IF t = Self THEN UNCHANGED tx ELSE AddStarts("worker", t, x)
         /\ UNCHANGED admins
    ELSE Dismisses(t) /\ UNCHANGED tx

\* handle_message for a command k of x
Dispatches(c, x, k) ==
    /\ Free("worker") /\ call[c] = Idle
    /\ Heard(x) /\ Enabled(PluginOf(k))
    /\ \E verdict \in {"ok", "notice", "limited"} :
          /\ IF x = Self THEN verdict = "ok" /\ UNCHANGED <<hits, quiet, answered>>
                         ELSE Decides(x, verdict)
          /\ IF verdict = "ok" /\ (Role(x) = "admin" => k \notin OwnerOnly)
                /\ PluginOf(k) = "delegates"
             THEN \/ call' = [call EXCEPT ![c] = [kind |-> k, by |-> x]]
                     /\ UNCHANGED <<admins, tx>>
                  \/ UNCHANGED call /\ \E t \in Person : CarriesOut(k, x, t)
             ELSE UNCHANGED <<call, admins, tx>>
    /\ UNCHANGED <<waits, planVars, rowVars, toggle, teamVars, looking>>

\* get_users answered; the caller is not looked at again.
Resolved(c) ==
    /\ Free("worker") /\ call[c] # Idle
    /\ call' = [call EXCEPT ![c] = Idle]
    /\ \/ UNCHANGED <<admins, tx>>
       \/ \E t \in Person : CarriesOut(call[c].kind, call[c].by, t)
    /\ UNCHANGED <<waits, planVars, rowVars, toggle, teamVars, looking,
                   hits, quiet, answered>>

Older(ages) == [i \in DOMAIN ages |-> IF ages[i] < Window THEN ages[i] + 1 ELSE Window]

\* The clock of the limit
Ticks ==
    /\ hits' = [x \in Person |-> Older(hits[x])]
    /\ quiet' = [u \in User |-> IF quiet[u] > 0 THEN quiet[u] - 1 ELSE 0]
    /\ answered' = [u \in User |-> Fresh(Older(answered[u]))]
    /\ UNCHANGED <<waits, planVars, rightsVars, call>>
=============================================================================
