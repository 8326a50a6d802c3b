-------------------------- MODULE ExecutionContract --------------------------
(***************************************************************************)
(* What one workflow execution promises about what it leaves behind: the   *)
(* outcome is shaped once; persistent state is committed once, and only    *)
(* for an outcome worth keeping; conversational and procedural memory is   *)
(* written only after that commit and never for an abstention; maintenance *)
(* is requested only for a memory that was written; and an execution that  *)
(* reports completion has committed every outcome worth keeping.           *)
(*                                                                         *)
(* A document is indexed before the outcome is shaped, hence before the    *)
(* commit that may still fail: the contract has to allow for that.         *)
(***************************************************************************)
VARIABLES status, outcome, effects

Kept == {"answered", "actioned", "ingested", "classified", "abstained"}
Remembered == Kept \ {"abstained"}
Notes == {"document", "user", "assistant", "procedure"}

Init == status = "PENDING" /\ outcome = "none" /\ effects = {}

Begin == status = "PENDING" /\ status' = "RUNNING" /\ UNCHANGED <<outcome, effects>>

Shape(o) == outcome = "none" /\ outcome' = o /\ UNCHANGED <<status, effects>>

Leave(what) == effects' = effects \cup what /\ UNCHANGED <<status, outcome>>

IndexDocument == outcome = "none" /\ Leave({"document"})

CommitState == outcome \in Kept /\ "state" \notin effects /\ Leave({"state"})

Remember(what) == outcome \in Remembered /\ "state" \in effects /\ Leave(what)

Maintain == effects \cap Notes # {} /\ Leave({"maintenance"})

Stop(s) == status' = s /\ UNCHANGED <<outcome, effects>>

Complete ==
    /\ outcome # "none"
    /\ outcome \in Kept => "state" \in effects
    /\ Stop("COMPLETED")

Next ==
    \/ Begin
    \/ /\ status = "RUNNING"
       /\ \/ \E o \in Kept \cup {"failed"} : Shape(o)
          \/ IndexDocument \/ CommitState \/ Maintain
          \/ \E n \in {"user", "assistant", "procedure"} : Remember({n})
          \/ Complete \/ Stop("FAILED") \/ Stop("CANCELLED")

Spec == Init /\ [][Next]_<<status, outcome, effects>>
==============================================================================
