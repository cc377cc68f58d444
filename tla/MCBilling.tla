------------------------------ MODULE MCBilling ------------------------------
(* An instance of Billing for TLC, in three scenes. *)
EXTENDS Billing, TLC

CONSTANTS u1, u2, p1, c1, c2, r1, r2, a1, i1

OneDay == [p \in Plans |-> 1]
SomeRows == {{}} \cup {{[plan |-> p1, end |-> e]} : e \in 0..2}
MixedRows == SomeRows \cup {{[plan |-> p1, end |-> 1], [plan |-> p1, end |-> 2]}}
Symmetry == Permutations(Users)

\* bound: what moves together.  "payments": the admin's conversation and the invoices,
\* about one user.  "links": an admin who makes links while one redeemer uses them, with
\* users who have had no plan.  "redeemers": every redeemer, and users with all rows, once
\* the links are made.
VARIABLE scene

Concerned == known \cup {conv[a].target : a \in Admins}
                   \cup {invoice[i].user : i \in {j \in Invoices : invoice[j] # None}}

Unshown(a) == naming[a] + showing[a]
Settled(a) == batch[a] = NoBatch /\ Unshown(a) = 0

MCInit == /\ Init /\ scene \in {"payments", "links", "redeemers"}
          /\ scene = "payments" => Cardinality(known) <= 1
          /\ scene # "payments" => \A p \in Plans : offer[p].price = 1
          /\ scene = "links" => active = [u \in Users |-> {}]

MCNext == /\ UNCHANGED scene
          /\ scene = "payments" => UNCHANGED <<batchVars, codes, redeem>>
          /\ scene # "payments" => UNCHANGED <<convVars, payVars>>
          /\ Next
          /\ scene = "payments" => Cardinality(Concerned' \ {None}) <= 1
          /\ scene = "links" => UNCHANGED redeem \/ redeem'[r2] = None
          /\ scene = "redeemers" => \A a \in Issuers : naming'[a] = 0
          /\ scene = "redeemers" =>
                \/ \A a \in Issuers : Settled(a) /\ Settled(a)'
                \/ /\ now = 0 /\ \A r \in Redeemers : redeem[r] = None
                   /\ \A c \in Codes : codes[c] = None \/ codes[c].usedBy = None
                   /\ UNCHANGED subVars \/ \E a \in Issuers : Unshown(a)' > Unshown(a)

MCSpec == MCInit /\ [][MCNext]_<<vars, scene>>
=============================================================================
