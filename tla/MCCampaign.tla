----------------------------- MODULE MCCampaign -----------------------------
(* Instances of Campaign for TLC: two modes over the same cases, which ask one prompt alike. *)
EXTENDS Campaign, TLC

CONSTANTS lean, full, i1, i2, shared, own

ModeOrder == <<lean, full>>
Prompted == [m \in {lean, full} |-> [i \in Items |-> IF m = full /\ i = i2 THEN own ELSE shared]]
Paired == {<<lean, full>>}
AllConfigs == [scheduler : {"sequential", "interleaved"}, continue : BOOLEAN]
=============================================================================
