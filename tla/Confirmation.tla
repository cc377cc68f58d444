----------------------------- MODULE Confirmation -----------------------------
(***************************************************************************)
(* What a command promises that is prepared first and done after a         *)
(* confirmation (docs/commands.md:122 "ask for a second command before     *)
(* they spend messages or Stars"): at most one request of each kind waits; *)
(* a confirmation takes the one that waits then, and only what was taken   *)
(* is carried out, no more often than its kind allows.  A request that was *)
(* replaced or dropped (a gift that is cancelled, a gift or a transfer     *)
(* left to expire) never is.                                               *)
(***************************************************************************)
EXTENDS Naturals

CONSTANTS Request, Kind, None,
          Most       \* Kind -> how often a request of that kind is carried out

VARIABLES
    asked,        \* the requests that have been made
    waiting,      \* Kind -> the request that waits, or None
    taken,        \* the requests that were confirmed, each with its kind
    done          \* request -> how often it was carried out

Init == /\ asked = {}
        /\ waiting = [k \in Kind |-> None]
        /\ taken = {}
        /\ done = [r \in Request |-> 0]

\* A request is made: it waits in place of the one before it, or is refused.
Ask(k, r) == /\ r \notin asked
             /\ asked' = asked \cup {r}
             /\ waiting' \in {waiting, [waiting EXCEPT ![k] = r]}
             /\ UNCHANGED <<taken, done>>

Drop(k) == /\ waiting[k] # None
           /\ waiting' = [waiting EXCEPT ![k] = None]
           /\ UNCHANGED <<asked, taken, done>>

Confirm(k) == /\ waiting[k] # None
              /\ waiting' = [waiting EXCEPT ![k] = None]
              /\ taken' = taken \cup {<<k, waiting[k]>>}
              /\ UNCHANGED <<asked, done>>

CarryOut(k, r) == /\ <<k, r>> \in taken
                  /\ done[r] < Most[k]
                  /\ done' = [done EXCEPT ![r] = @ + 1]
                  /\ UNCHANGED <<asked, waiting, taken>>

Next == \E k \in Kind :
            \/ Drop(k) \/ Confirm(k)
            \/ \E r \in Request : Ask(k, r) \/ CarryOut(k, r)

Spec == Init /\ [][Next]_<<asked, waiting, taken, done>>
=============================================================================
