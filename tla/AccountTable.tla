---------------------------- MODULE AccountTable ----------------------------
(***************************************************************************)
(* The columns of managed_accounts that decide whether and how the worker  *)
(* runs an account's client (db/models.py, database.py).                   *)
(*                                                                         *)
(* standing sums up the joins of list_runtime_candidates and the plugin    *)
(* gate of accounts_that_should_run: "on" when the account is not deleted, *)
(* its owner has a current subscription and some plugin is enabled; "off"  *)
(* when one of the last two fails; "deleted" when deleted_at is set.       *)
(* session stands for session_string: a number that grows when the account *)
(* is added again with a new login.                                        *)
(***************************************************************************)
EXTENDS SessionLease, Naturals

CONSTANTS Proxy,        \* rows of the proxies table
          NoProxy,      \* proxy_id is NULL
          MaxSession    \* bound: logins of one account

ASSUME ProxyAssumption == /\ NoProxy \notin Proxy
                          /\ MaxSession \in Nat

VARIABLES standing, sessionStatus, proxyId, session, isRunning

accountVars == <<standing, sessionStatus, proxyId, session, isRunning>>

AccountTypeOK ==
    /\ standing \in [Account -> {"on", "off", "deleted"}]
    /\ sessionStatus \in [Account -> {"ok", "invalid"}]
    /\ proxyId \in [Account -> Proxy \cup {NoProxy}]
    /\ session \in [Account -> 0 .. MaxSession]
    /\ isRunning \in [Account -> BOOLEAN]

AccountInit ==
    /\ standing = [a \in Account |-> "on"]
    /\ sessionStatus = [a \in Account |-> "ok"]
    /\ proxyId \in [Account -> Proxy \cup {NoProxy}]
    /\ session = [a \in Account |-> 0]
    /\ isRunning = [a \in Account |-> FALSE]

\* The rows list_runtime_candidates and accounts_that_should_run keep.
Candidate(a) == standing[a] = "on" /\ sessionStatus[a] # "invalid"

\* _fingerprint: what the slot must be restarted for when it changes.
Fingerprint(a) == <<proxyId[a], session[a]>>

\* _random_proxy_id with an excluded row, falling back to any row: which
\* rows are marked as working only changes the odds of the choice.
RandomProxyId(excluded) ==
    IF Proxy \ {excluded} # {} THEN Proxy \ {excluded}
    ELSE IF Proxy # {} THEN Proxy ELSE {NoProxy}

\* _mark_session_status leaves a deleted row alone.
MarkSession(a, value) ==
    sessionStatus' = IF standing[a] = "deleted" THEN sessionStatus
                     ELSE [sessionStatus EXCEPT ![a] = value]

\* update ... where deleted_at is null.
SetProxy(a, p) ==
    proxyId' = IF standing[a] = "deleted" THEN proxyId
               ELSE [proxyId EXCEPT ![a] = p]
-----------------------------------------------------------------------------
\* A subscription is granted or ends, or a plugin is switched on or off.
SwitchAccount(a) ==
    /\ "edit" \in May
    /\ standing[a] # "deleted"
    /\ standing' = [standing EXCEPT ![a] = IF @ = "on" THEN "off" ELSE "on"]
    /\ UNCHANGED <<sessionStatus, proxyId, session, isRunning>>

\* reassign_proxy: the owner asks for another proxy.
ReassignProxy(a) ==
    /\ "edit" \in May
    /\ standing[a] # "deleted"
    /\ \E p \in RandomProxyId(proxyId[a]) \ {NoProxy} :
           proxyId' = [proxyId EXCEPT ![a] = p]
    /\ UNCHANGED <<standing, sessionStatus, session, isRunning>>

\* delete_managed_account: a soft delete that also clears is_running.
DeleteManagedAccount(a) ==
    /\ "readd" \in May
    /\ standing[a] # "deleted"
    /\ standing' = [standing EXCEPT ![a] = "deleted"]
    /\ isRunning' = [isRunning EXCEPT ![a] = FALSE]
    /\ UNCHANGED <<sessionStatus, proxyId, session>>

\* add_managed_account on a soft-deleted row: it comes back with the new
\* login, a random proxy and session_status ok; is_running is left alone.
\* It runs if a plugin override or a default-on plugin enables it.
AddManagedAccount(a) ==
    /\ standing[a] = "deleted"
    /\ session[a] < MaxSession
    /\ session' = [session EXCEPT ![a] = @ + 1]
    /\ \E s \in {"on", "off"} : standing' = [standing EXCEPT ![a] = s]
    /\ sessionStatus' = [sessionStatus EXCEPT ![a] = "ok"]
    /\ \E p \in RandomProxyId(NoProxy) : proxyId' = [proxyId EXCEPT ![a] = p]
    /\ UNCHANGED isRunning

AccountEdit(a) == \/ SwitchAccount(a)
                  \/ ReassignProxy(a)
                  \/ DeleteManagedAccount(a)
                  \/ AddManagedAccount(a)
=============================================================================
