-------------------------- MODULE ExclusiveSession --------------------------
(***************************************************************************)
(* What borrowing a session promises, with no lease, no worker and no bot: *)
(* an account's Telegram session is open in at most one place, and moves   *)
(* from one place to another only through being closed.                    *)
(***************************************************************************)
CONSTANTS Account,   \* managed accounts
          Party      \* who may open a session

VARIABLE holders     \* holders[a]: the parties with an open session of a

TypeOK == holders \in [Account -> SUBSET Party]

Init == holders = [a \in Account |-> {}]

Open(a, p) == /\ holders[a] = {}
              /\ holders' = [holders EXCEPT ![a] = {p}]

Close(a) == /\ holders[a] # {}
            /\ holders' = [holders EXCEPT ![a] = {}]

\* A process dies and every session it had open closes.
CloseAll(S) == /\ S # {}
               /\ holders' = [a \in Account |-> IF a \in S THEN {}
                                                         ELSE holders[a]]

Next == \/ \E a \in Account : Close(a) \/ \E p \in Party : Open(a, p)
        \/ \E S \in SUBSET Account : CloseAll(S)

Spec == Init /\ [][Next]_holders
=============================================================================
