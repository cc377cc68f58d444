------------------------------ MODULE MCAccess ------------------------------
EXTENDS AccountAccess

\* What moves together: the parts that share state
MCScenes == {{"plans", "links"}, {"row", "admins", "commands"},
             {"row", "team", "links", "admins"}, {"row", "plugins", "subscriptions"},
             {"admins", "plugins"}, {"row", "commands", "clock"},
             {"twostep", "links"}}

\* bound: nobody may command an account whose password is changed, and who changes it
\* becomes a manager first
MCInit == Init /\ ("twostep" \in scene => Admins = {} /\ owner \notin Typist)

MCSpec == MCInit /\ [][Next]_vars
=============================================================================
