------------------------------ MODULE WorkPool ------------------------------
(***************************************************************************)
(* plugins/slots.py and runtime/work_pool.py: the slots an account's long  *)
(* jobs hold, and the child processes they wait for.                       *)
(***************************************************************************)
EXTENDS Naturals, Sequences, FiniteSets

CONSTANTS Job,          \* whoever holds a slot or waits for a process
          Workers       \* _workers(): media_workers, 1 or 2

ASSUME WorkersAssumption == Workers \in 1..2

SlotKind == {"download", "repeat"}

VARIABLES
    held,       \* kind -> the jobs with a slot
    cancelled,  \* the jobs whose slot's event is set
    limits,     \* the account's semaphores, the last one in _accounts: size and users
    under,      \* job -> the semaphore it waits for or holds, 0 for none
    running     \* the jobs with a child process

workVars == <<limits, under, running>>
poolVars == <<held, cancelled, workVars>>

PoolTypeOK == /\ held \in [SlotKind -> SUBSET Job]
              /\ cancelled \subseteq Job
              /\ limits \in Seq([size : 1..2, users : SUBSET Job])
              /\ under \in [Job -> 0..Len(limits)]
              /\ running \subseteq Job

PoolInit == /\ held = [k \in SlotKind |-> {}]
            /\ cancelled = {}
            /\ limits = <<>>
            /\ under = [j \in Job |-> 0]
            /\ running = {}

\* try_acquire; the limit is 1 or 2
HasRoom(k, limit) == Cardinality(held[k]) < limit
With(k, j) == [held EXCEPT ![k] = @ \cup {j}]

\* release
Without(k, j) == [held EXCEPT ![k] = @ \ {j}]

\* cancel_kind
CancelKind(k) == cancelled' = cancelled \cup held[k]

\* run_named begins: _account_limit makes a new semaphore when the size differs
\* from the last one, whoever still holds that
AsksFor(j, size) ==
    LET fresh == limits = <<>> \/ limits[Len(limits)].size # size
        ls    == IF fresh THEN Append(limits, [size |-> size, users |-> {}]) ELSE limits
    IN limits' = ls /\ under' = [under EXCEPT ![j] = Len(ls)]

\* _acquire of the account's semaphore
TakesAccount(j) ==
    /\ Cardinality(limits[under[j]].users) < limits[under[j]].size
    /\ limits' = [limits EXCEPT ![under[j]].users = @ \cup {j}]
    /\ UNCHANGED <<under, running>>

\* Mutant: one process too many
FreeWorkerTooMany == Cardinality(running) <= Workers

FreeWorker == Cardinality(running) < Workers

\* _acquire of the global semaphore, and the process starts
TakesWorker(j) ==
    /\ FreeWorker
    /\ running' = running \cup {j}
    /\ UNCHANGED <<limits, under>>

\* Both finally clauses of run_named
LeavesPool(j) ==
    /\ limits' = [limits EXCEPT ![under[j]].users = @ \ {j}]
    /\ under' = [under EXCEPT ![j] = 0]
    /\ running' = running \ {j}
=============================================================================
