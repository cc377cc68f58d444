------------------------------- MODULE Voucher -------------------------------
(***************************************************************************)
(* What an activation code promises (README.md:174 "one-time activation    *)
(* links", db/models.py:289 "Single-use plan link"): it is issued, and      *)
(* then either redeemed by one user, who is credited once, or revoked.     *)
(***************************************************************************)
EXTENDS Sequences

CONSTANTS Codes, Users

VARIABLES
    status,    \* code -> "blank", "unused", "used" or "revoked"
    credited   \* code -> the users the code's days were credited to

Init == /\ status = [c \in Codes |-> "blank"]
        /\ credited = [c \in Codes |-> <<>>]

Issue(S) == /\ \A c \in S : status[c] = "blank"
            /\ status' = [c \in Codes |-> IF c \in S THEN "unused" ELSE status[c]]
            /\ UNCHANGED credited

Redeem(c, u) == /\ status[c] = "unused"
                /\ status' = [status EXCEPT ![c] = "used"]
                /\ credited' = [credited EXCEPT ![c] = Append(@, u)]

Revoke(c) == /\ status[c] = "unused"
             /\ status' = [status EXCEPT ![c] = "revoked"]
             /\ UNCHANGED credited

Next == \/ \E S \in SUBSET Codes : Issue(S)
        \/ \E c \in Codes : Revoke(c) \/ \E u \in Users : Redeem(c, u)

Spec == Init /\ [][Next]_<<status, credited>>
=============================================================================
