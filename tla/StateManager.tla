---------------------------- MODULE StateManager ----------------------------
(***************************************************************************)
(* JsonStateManager (state/state_manager.py): versioned session state kept *)
(* in memory and rewritten to one JSON file by every save and reset.       *)
(*                                                                         *)
(* Clients are threads of one process.  Each loads a session's state and   *)
(* saves what it made of it with the version it loaded; the process may    *)
(* stop between any two steps and start again from the file.  A state is   *)
(* its version and the set of updates in it.                               *)
(*                                                                         *)
(* Several processes on one file are outside the code's claim ("process-   *)
(* local lock") and outside the model; the temporary file is written whole.*)
(***************************************************************************)
EXTENDS Naturals

CONSTANTS
    Clients,
    Sessions,
    MaxUpdates,   \* bound on accepted saves
    MaxResets,    \* bound on resets; 0 where nobody resets
    None

ASSUME ConstantsAssumption ==
    /\ MaxUpdates \in Nat /\ MaxResets \in Nat
    /\ None \notin Clients

Updates == 1..MaxUpdates
Empty == [version |-> 0, updates |-> {}]
NoStates == [s \in Sessions |-> Empty]
States == [version : Nat, updates : SUBSET Updates]

VARIABLES
    file,       \* sessions of the JSON file, or None before the first write
    temporary,  \* sessions of the temporary file, or None when there is none
    memory,     \* self._states
    lock,       \* the client that holds self._lock
    pc,         \* where each client is
    session,    \* the session each client works on
    base,       \* the state each client loaded
    saving,     \* the update each client is writing
    next,       \* the next update
    resets,     \* resets so far
    acked,      \* history: updates whose save returned
    dirty       \* history: a state that the file does not hold has been loaded

vars == <<file, temporary, memory, lock, pc, session, base, saving, next, resets, acked, dirty>>

Durable == IF file = None THEN NoStates ELSE file

Init ==
    /\ file = None
    /\ temporary = None
    /\ memory = NoStates
    /\ lock = None
    /\ pc = [c \in Clients |-> "idle"]
    /\ session \in [Clients -> Sessions]
    /\ base = [c \in Clients |-> Empty]
    /\ saving = [c \in Clients |-> 0]
    /\ next = 1
    /\ resets = 0
    /\ acked = {}
    /\ dirty = FALSE
-----------------------------------------------------------------------------
Goto(c, where) == pc' = [pc EXCEPT ![c] = where]

\* load() copies the cached state; the file is not read.
Load(c) ==
    /\ pc[c] = "idle" /\ lock = None
    /\ \E s \in Sessions :
         /\ session' = [session EXCEPT ![c] = s]
         /\ base' = [base EXCEPT ![c] = memory[s]]
         /\ dirty' = (dirty \/ memory[s] # Durable[s])
    /\ Goto(c, "loaded")
    /\ UNCHANGED <<file, temporary, memory, lock, saving, next, resets, acked>>

\* save() begins with the states of the file, if there is one, whatever memory holds.
Reread == IF file = None THEN memory ELSE file

\* Mutant of Expected: the version is not compared.
ExpectedAny(c) == TRUE

Expected(c) == Reread[session[c]].version = base[c].version

\* save() accepts, and keeps the lock to its end: memory holds the new state, and the file is about to be rewritten.
SaveAccepted(c) ==
    LET s == session[c]
        saved == [version |-> base[c].version + 1, updates |-> base[c].updates \cup {next}]
    IN /\ pc[c] = "loaded" /\ lock = None
       /\ Expected(c)
       /\ next <= MaxUpdates
       /\ lock' = c
       /\ memory' = [Reread EXCEPT ![s] = saved]
       /\ saving' = [saving EXCEPT ![c] = next]
       /\ next' = next + 1
       /\ Goto(c, "writing")
       /\ UNCHANGED <<file, temporary, session, base, resets, acked, dirty>>

\* save() raises StateVersionConflict; its caller may try the same save again.
SaveConflicts(c) ==
    /\ pc[c] = "loaded" /\ lock = None
    /\ ~Expected(c)
    /\ memory' = Reread
    /\ pc' \in {pc, [pc EXCEPT ![c] = "idle"]}
    /\ UNCHANGED <<file, temporary, lock, session, base, saving, next, resets, acked, dirty>>

\* _write(): the temporary file, and then its renaming over the file.
WriteTemporary(c) ==
    /\ pc[c] \in {"writing", "resetting"}
    /\ temporary' = memory
    /\ Goto(c, IF pc[c] = "writing" THEN "replacing" ELSE "reset replacing")
    /\ UNCHANGED <<file, memory, lock, session, base, saving, next, resets, acked, dirty>>

Unlocked(c) == IF lock = c THEN None ELSE lock

Replace(c) ==
    /\ pc[c] \in {"replacing", "reset replacing"}
    /\ temporary # None
    /\ file' = temporary
    /\ temporary' = None
    /\ acked' = IF pc[c] = "replacing" THEN acked \cup {saving[c]} ELSE acked
    /\ lock' = Unlocked(c)
    /\ Goto(c, "idle")
    /\ UNCHANGED <<memory, session, base, saving, next, resets, dirty>>

\* Mutant of WriteFails: the error is swallowed and the save returns.
WriteFailsSilently(c) ==
    /\ pc[c] \in {"writing", "replacing", "resetting", "reset replacing"}
    /\ lock' = Unlocked(c)
    /\ acked' = IF pc[c] \in {"writing", "replacing"} THEN acked \cup {saving[c]} ELSE acked
    /\ \E where \in {"idle"} \cup IF pc[c] \in {"writing", "replacing"} THEN {"loaded"} ELSE {} :
         Goto(c, where)
    /\ UNCHANGED <<file, temporary, memory, session, base, saving, next, resets, dirty>>

\* _write() raises an OSError (the rename also when another writer has renamed the
\* temporary file away): memory keeps the new state and the file does not have it.
\* The phase that saved may be tried again with the state it loaded.
WriteFails(c) ==
    /\ pc[c] \in {"writing", "replacing", "resetting", "reset replacing"}
    /\ lock' = Unlocked(c)
    /\ \E where \in {"idle"} \cup IF pc[c] \in {"writing", "replacing"} THEN {"loaded"} ELSE {} :
         Goto(c, where)
    /\ UNCHANGED <<file, temporary, memory, session, base, saving, next, resets, acked, dirty>>

\* reset() clears memory under the lock and rewrites the file without it.
Reset(c) ==
    /\ pc[c] = "idle" /\ lock = None
    /\ resets < MaxResets
    /\ resets' = resets + 1
    /\ \E gone \in {Sessions} \cup {{s} : s \in Sessions} :
         memory' = [s \in Sessions |-> IF s \in gone THEN Empty ELSE memory[s]]
    /\ Goto(c, "resetting")
    /\ UNCHANGED <<file, temporary, lock, session, base, saving, next, acked, dirty>>

\* The process stops, and a new one starts from the file.
Restart ==
    /\ memory' = IF file = None THEN NoStates ELSE file
    /\ lock' = None
    /\ pc' = [c \in Clients |-> "idle"]
    /\ UNCHANGED <<file, temporary, session, base, saving, next, resets, acked, dirty>>
-----------------------------------------------------------------------------
Next ==
    \/ \E c \in Clients :
         Load(c) \/ SaveAccepted(c) \/ SaveConflicts(c) \/ WriteTemporary(c) \/ Replace(c)
         \/ WriteFails(c) \/ Reset(c)
    \/ Restart

Spec == Init /\ [][Next]_vars
-----------------------------------------------------------------------------
(* Properties. *)

TypeOK ==
    /\ file \in [Sessions -> States] \cup {None}
    /\ temporary \in [Sessions -> States] \cup {None}
    /\ memory \in [Sessions -> States]
    /\ lock \in Clients \cup {None}
    /\ pc \in [Clients -> {"idle", "loaded", "writing", "replacing", "resetting", "reset replacing"}]
    /\ \A c \in Clients : pc[c] \in {"writing", "replacing"} <=> lock = c
    /\ \A c \in Clients : lock = c => saving[c] \in Updates
    /\ session \in [Clients -> Sessions]
    /\ base \in [Clients -> States]
    /\ saving \in [Clients -> 0..MaxUpdates]
    /\ next \in 1..(MaxUpdates + 1)
    /\ resets \in 0..MaxResets
    /\ acked \subseteq Updates /\ dirty \in BOOLEAN

\* Nobody has reset, nor built on a state that a failed write left in memory.
Undisturbed == resets = 0 /\ ~dirty

Kept == acked \subseteq UNION {Durable[s].updates : s \in Sessions}

\* While undisturbed, a save that returned is in the file for good: neither a restart,
\* nor a failed write, nor a later save of any session removes it.
AcknowledgedIsDurable == Undisturbed => Kept

\* StateVersionConflict, "A stale write attempted to replace newer state", keeps every
\* save that returned: only a reset removes one.
StaleWriteRefused == resets = 0 => Kept

\* While undisturbed, every change of the file is a commit of VersionedState, which
\* keeps each update and counts it in the version.
Contract == INSTANCE VersionedState WITH state <- Durable

KeepsContract == Contract!Init /\ [][Undisturbed' => [Contract!Commit]_Durable]_vars
=============================================================================
