---------------------------- MODULE SessionLease ----------------------------
(***************************************************************************)
(* The session_leases table (runtime/store.py): one row per account, which *)
(* the control bot writes to borrow the account's Telegram session and the *)
(* worker acknowledges once its own client of the account is gone.         *)
(*                                                                         *)
(* A row has no reference count and its holder column is always "bot", so  *)
(* it is shared by every tool working on the account: a second acquire     *)
(* overwrites the row, a release deletes whatever row is there.  Each      *)
(* operator below is one transaction.  Expiry is a wall-clock test in the  *)
(* code (expires_at <= now); here the row passes from "live" to "expired". *)
(***************************************************************************)
EXTENDS FiniteSets

CONSTANTS Account,    \* managed accounts of the worker's shard
          May         \* what may go wrong or get late in this instance

\* The deadlines that may pass, the database calls that may fail, the
\* processes that may die and the edits the bot may make.
Happening ==
    {"stop_timeout", "pause_timeout", "lease_expiry",
     "lease_read_error", "ack_error", "plan_error", "running_error",
     "status_error", "release_error",
     "worker_crash", "bot_crash", "shutdown", "abort", "edit", "readd"}

ASSUME MayAssumption == May \subseteq Happening

VARIABLE lease        \* lease[a]: the account's row in session_leases

LeaseRow == [row : {"none", "live", "expired"}, acked : BOOLEAN]

NoLease == [row |-> "none", acked |-> FALSE]

LeaseTypeOK == lease \in [Account -> LeaseRow]

LeaseInit == lease = [a \in Account |-> NoLease]
-----------------------------------------------------------------------------
\* acquire_session_lease: insert the row, or overwrite the one that is there.
AcquireSessionLease(a) ==
    lease' = [lease EXCEPT ![a] = [row |-> "live", acked |-> FALSE]]

\* ack_session_leases: by account id, whoever wrote the row and whenever.
AckSessionLeases(S) ==
    lease' = [a \in Account |->
                IF a \in S /\ lease[a].row # "none"
                THEN [lease[a] EXCEPT !.acked = TRUE]
                ELSE lease[a]]

\* release_session_lease: delete the row, whoever wrote it.
ReleaseSessionLease(a) == lease' = [lease EXCEPT ![a] = NoLease]

\* Mutant: any live row counts as acknowledged.
LeaseIsAckedUnasked(a) == lease[a].row = "live"

\* lease_is_acked: an expired row counts as no row.
LeaseIsAcked(a) == lease[a].row = "live" /\ lease[a].acked

\* active_lease_ids first deletes every expired row and returns the others.
ActiveLeaseIds == {a \in Account : lease[a].row = "live"}

PruneExpired ==
    lease' = [a \in Account |-> IF lease[a].row = "expired" THEN NoLease
                                                            ELSE lease[a]]

\* The 180 seconds of ttl_seconds are over.
LeaseExpires(a) ==
    /\ "lease_expiry" \in May
    /\ lease[a].row = "live"
    /\ lease' = [lease EXCEPT ![a].row = "expired"]
=============================================================================
