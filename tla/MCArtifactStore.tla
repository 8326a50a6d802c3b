-------------------------- MODULE MCArtifactStore --------------------------
(* Instances of ArtifactStore for TLC: two configurations that select different cases. *)
EXTENDS ArtifactStore

CONSTANTS q1, q2, q3, t1, t2, whole, preview

Selections == (whole :> {q1, q2, q3}) @@ (preview :> {q1})
=============================================================================
