------------------------ MODULE MaintenanceContract ------------------------
(***************************************************************************)
(* What the supervisor promises about each maintenance event, whatever the *)
(* worker, the queue and the controllers do: an event is accepted or       *)
(* refused once, an accepted event is settled at most once, as completed   *)
(* or as failed, and every failure (a refusal is one) leaves exactly one   *)
(* row in the failure store.                                               *)
(***************************************************************************)
EXTENDS Sequences

CONSTANT Events

VARIABLES
    status,  \* what is known of each event
    log      \* the events of the failure rows, oldest first

vars == <<status, log>>

Init ==
    /\ status = [e \in Events |-> "unknown"]
    /\ log = <<>>

Accept(e) ==
    /\ status[e] = "unknown"
    /\ status' = [status EXCEPT ![e] = "accepted"]
    /\ UNCHANGED log

Complete(e) ==
    /\ status[e] = "accepted"
    /\ status' = [status EXCEPT ![e] = "completed"]
    /\ UNCHANGED log

\* A full queue refuses an unknown event; an accepted one fails in its handler.
Fail(e) ==
    /\ status[e] \in {"unknown", "accepted"}
    /\ status' = [status EXCEPT ![e] = "failed"]
    /\ log' = Append(log, e)

Next == \E e \in Events : Accept(e) \/ Complete(e) \/ Fail(e)

Spec == Init /\ [][Next]_vars
=============================================================================
