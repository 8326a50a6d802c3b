--------------------------- MODULE MCStateManager ---------------------------
(* Instances of StateManager for TLC. *)
EXTENDS StateManager, TLC

Identities == Permutations(Clients) \cup Permutations(Sessions)
=============================================================================
