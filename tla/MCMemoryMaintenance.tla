------------------------ MODULE MCMemoryMaintenance ------------------------
(* Instances of MemoryMaintenance for TLC. *)
EXTENDS MemoryMaintenance, TLC

CONSTANTS t1, q1, q2, old

TurnOrder == <<t1>>
QuestionOrder == <<q1, q2>>
Keywords == (t1 :> {"tea"}) @@ (q1 :> {"tea", "rain"}) @@ (q2 :> {"rain"}) @@ (old :> {"tea"})
AllModes == {"eventual", "flush_after_conversation", "flush_before_question", "flush_before_finalization"}
=============================================================================
