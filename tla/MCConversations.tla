-------------------------- MODULE MCConversations --------------------------
(* An instance of AccountConversations for TLC. *)
EXTENDS AccountConversations, TLC

Symmetry == Permutations(Phone) \cup Permutations(Client)
=============================================================================
