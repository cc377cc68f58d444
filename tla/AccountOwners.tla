--------------------------- MODULE AccountOwners ---------------------------
(***************************************************************************)
(* database.py: whose list a phone number stands on.  A number has one     *)
(* row for good (managed_accounts.phone is unique), which a deletion only  *)
(* marks.  Every operation is one transaction.                             *)
(***************************************************************************)
EXTENDS Integers, FiniteSets

CONSTANTS User, Phone,
          None,             \* no user, number or client
          MaxAccounts       \* Plan.max_accounts

ASSUME NoneAssumption == None \notin User \cup Phone

VARIABLES
    row,          \* phone -> its row: owner, deleted_at, whose session it holds
    subscribed    \* the users with an active subscription

ownerVars == <<row, subscribed>>

Row == [owner : User, deleted : BOOLEAN, session : Phone]

OwnersTypeOK == /\ row \in [Phone -> Row \cup {None}]
                /\ subscribed \subseteq User

OwnersInit == /\ row = [p \in Phone |-> None]
              /\ subscribed \in SUBSET User

\* get_user_details(u)["accounts"]
Accounts(u) == {p \in Phone : row[p] # None /\ ~row[p].deleted /\ row[p].owner = u}

\* The test of prompt_add_account_phone and of a transfer
HasRoom(u) == u \in subscribed /\ Cardinality(Accounts(u)) < MaxAccounts

\* add_managed_account inserts a row or revives the one its owner
\* deleted.
CanAdd(u, p) == p # None /\ (row[p] # None => row[p].deleted /\ row[p].owner = u)

\* It answers FALSE when the number is taken or missing, or the database fails.
AddManagedAccount(u, p, session) ==
    \/ /\ CanAdd(u, p)
       /\ row' = [row EXCEPT ![p] = [owner |-> u, deleted |-> FALSE, session |-> session]]
       /\ UNCHANGED subscribed
    \/ UNCHANGED ownerVars

\* _user_is_owner
IsOwner(u, p) == p \in Accounts(u)

\* delete_managed_account, by the owner u or a manager of his
DeleteManagedAccount(u, p) ==
    /\ IsOwner(u, p)
    /\ row' = [row EXCEPT ![p].deleted = TRUE]
    /\ UNCHANGED subscribed

\* Mutant: ownership is looked at when the conversation starts, not again
MayTransferStarted(sender, p, recipient) ==
    row[p] # None /\ recipient # sender /\ HasRoom(recipient)

\* transfer_managed_account, when it succeeds
MayTransfer(sender, p, recipient) ==
    IsOwner(sender, p) /\ recipient # sender /\ HasRoom(recipient)

Transfer(p, recipient) == /\ row' = [row EXCEPT ![p].owner = recipient]
                          /\ UNCHANGED subscribed

\* Subscriptions come and go (subscription_grants.py, module Subscriptions).
SubscriptionChanges(u) ==
    /\ subscribed' = IF u \in subscribed THEN subscribed \ {u} ELSE subscribed \cup {u}
    /\ UNCHANGED row
=============================================================================
