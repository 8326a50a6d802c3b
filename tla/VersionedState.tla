--------------------------- MODULE VersionedState ---------------------------
(***************************************************************************)
(* Persistent cognitive state as its users see it: one versioned value per *)
(* session.  A value is the set of the updates that went into it.  State   *)
(* only ever grows: a commit keeps every update that was there and counts  *)
(* one version for each update it adds.  Usually it adds one update to one *)
(* session; it may carry along what an earlier save that failed to write   *)
(* has left in memory.                                                     *)
(***************************************************************************)
EXTENDS Naturals, FiniteSets

CONSTANTS Sessions, Updates

VARIABLE state

Init == state = [s \in Sessions |-> [version |-> 0, updates |-> {}]]

Grown(old, added) ==
    [version |-> old.version + Cardinality(added), updates |-> old.updates \cup added]

Commit ==
    \E added \in [Sessions -> SUBSET Updates] :
        /\ \A s \in Sessions : added[s] \cap state[s].updates = {}
        /\ state' = [s \in Sessions |-> Grown(state[s], added[s])]

Spec == Init /\ [][Commit]_state
=============================================================================
