----------------------------- MODULE MCRuntime -----------------------------
(* Instances of Runtime for TLC: the cfgs give the constants. *)
EXTENDS Runtime, TLC

\* Accounts, tools of one kind and proxies are interchangeable in the safety
\* runs.
Symmetry == Permutations(Account) \cup Permutations(LockedTool)
            \cup Permutations(Tool \ LockedTool) \cup Permutations(Proxy)
=============================================================================
