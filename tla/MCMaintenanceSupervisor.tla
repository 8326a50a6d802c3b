---------------------- MODULE MCMaintenanceSupervisor ----------------------
(* Instances of MaintenanceSupervisor for TLC. *)
EXTENDS MaintenanceSupervisor, TLC

Identities == Permutations(Events) \cup Permutations(Workers) \cup Permutations(Controllers)
=============================================================================
