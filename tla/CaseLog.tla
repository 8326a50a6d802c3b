------------------------------ MODULE CaseLog ------------------------------
(***************************************************************************)
(* A benchmark campaign as its reader sees it: a log that takes one        *)
(* outcome for each selected case and never changes it, and a mark that    *)
(* says "complete" only while every selected case has its outcome.         *)
(***************************************************************************)
CONSTANTS Cases, Outcomes, None

VARIABLES selected, log, complete

Init ==
    /\ selected = None
    /\ log = [c \in Cases |-> None]
    /\ complete = FALSE

Open ==
    /\ selected = None
    /\ selected' \in SUBSET Cases
    /\ UNCHANGED <<log, complete>>

Record ==
    \E c \in Cases, o \in Outcomes :
        /\ selected # None /\ ~complete
        /\ c \in selected /\ log[c] = None
        /\ log' = [log EXCEPT ![c] = o]
        /\ UNCHANGED <<selected, complete>>

Complete ==
    /\ selected # None
    /\ \A c \in Cases : c \in selected <=> log[c] # None
    /\ complete' = TRUE
    /\ UNCHANGED <<selected, log>>

Reopen == complete /\ complete' = FALSE /\ UNCHANGED <<selected, log>>

Spec == Init /\ [][Open \/ Record \/ Complete \/ Reopen]_<<selected, log, complete>>
=============================================================================
