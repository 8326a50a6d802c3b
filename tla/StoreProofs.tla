----------------------------- MODULE StoreProofs -----------------------------
(***************************************************************************)
(* Theorems about the two stores that tasks share: the states of the       *)
(* StateManager, and the memories of MemoryMaintenance.  In both, what is  *)
(* read before an await is written after it.                               *)
(*                                                                         *)
(* The state manager, for any clients, sessions, number of saves and       *)
(* number of resets: the version of a state is the number of updates in    *)
(* it.  While nobody has reset or built on an unsaved state, every client  *)
(* that may still save holds a part of what the file holds; equal versions *)
(* are then equal states, and the version check is as good as a comparison *)
(* of states.                                                              *)
(*                                                                         *)
(* The memories, for any turns, questions, keywords, batch size, retries   *)
(* and faults: nothing compares versions there.  A note that is about to   *)
(* be written is a copy of the one that is stored, because one task at a   *)
(* time writes and no request stores over a note; the lineages, the graph  *)
(* and what is owed to each memory follow from what each write does.       *)
(***************************************************************************)
EXTENDS StateManager, MemoryMaintenance, FiniteSetTheorems, WellFoundedInduction, TLAPS

-----------------------------------------------------------------------------
(* The state manager: the inductive invariant. *)

Counted(x) ==
    /\ x.version = Cardinality(x.updates)
    /\ \A u \in x.updates : u < next

\* The strengthening, whatever has happened: every version counts its updates.
VersionsCount ==
    /\ \A s \in Sessions : Counted(memory[s])
    /\ \A c \in Clients : Counted(base[c])
    /\ file # None => \A s \in Sessions : Counted(file[s])
    /\ temporary # None => \A s \in Sessions : Counted(temporary[s])

Saving == {"writing", "replacing"}

\* The strengthening while undisturbed.
MemoryAhead == \A s \in Sessions : Durable[s].updates \subseteq memory[s].updates

BaseDurable ==
    \A c \in Clients :
        pc[c] \in {"loaded"} \cup Saving => base[c].updates \subseteq Durable[session[c]].updates

WriterHolds ==
    \A c \in Clients :
        /\ pc[c] \in Saving => saving[c] \in memory[session[c]].updates
        /\ pc[c] = "replacing" => temporary = memory

NobodyResets == \A c \in Clients : pc[c] \notin {"resetting", "reset replacing"}

Quiet == MemoryAhead /\ BaseDurable /\ WriterHolds /\ NobodyResets /\ Kept

IInv == TypeOK /\ VersionsCount /\ (Undisturbed => Quiet)

-----------------------------------------------------------------------------
(* Finite sets of updates. *)

LEMMA UpdatesFinite ==
    ASSUME NEW S \in SUBSET Updates
    PROVE  IsFiniteSet(S) /\ Cardinality(S) \in Nat
<1>1. IsFiniteSet(Updates)
  BY FS_Interval, ConstantsAssumption DEF Updates
<1> QED
  BY <1>1, FS_Subset, FS_CardinalityType

LEMMA EmptyCounts == Empty \in States /\ Counted(Empty)
  BY FS_EmptySet DEF Empty, States, Counted

\* Of two states of which one contains the other, equal versions make equal states.
LEMMA SameVersionSameUpdates ==
    ASSUME NEW x \in States, NEW y \in States, Counted(x), Counted(y),
           x.updates \subseteq y.updates, x.version = y.version
    PROVE  x.updates = y.updates
<1>1. x.updates \in SUBSET Updates /\ y.updates \in SUBSET Updates
  BY DEF States
<1>2. IsFiniteSet(y.updates) /\ Cardinality(x.updates) = Cardinality(y.updates)
  BY <1>1, UpdatesFinite DEF Counted
<1> QED
  BY <1>2, FS_Subset

-----------------------------------------------------------------------------
(* Type correctness. *)

LEMMA RereadType == ASSUME TypeOK PROVE Reread \in [Sessions -> States]
  BY DEF TypeOK, Reread

LEMMA DurableType == ASSUME TypeOK PROVE Durable \in [Sessions -> States]
  BY EmptyCounts DEF TypeOK, Durable, NoStates

\* What save() makes of the state that was loaded.
Saved(c) == [version |-> base[c].version + 1, updates |-> base[c].updates \cup {next}]

LEMMA SavedType ==
    ASSUME TypeOK, NEW c \in Clients, next <= MaxUpdates
    PROVE  Saved(c) \in States
<1>1. base[c].version \in Nat /\ base[c].updates \subseteq Updates
  BY DEF TypeOK, States
<1>2. next \in Updates
  <2>1. next \in 1..(MaxUpdates + 1)
    BY DEF TypeOK
  <2> QED
    BY <2>1, ConstantsAssumption DEF Updates
<1> QED
  BY <1>1, <1>2 DEF Saved, States

LEMMA SaveAcceptedSays ==
    ASSUME NEW c \in Clients, SaveAccepted(c)
    PROVE  /\ pc[c] = "loaded" /\ lock = None /\ Expected(c) /\ next <= MaxUpdates
           /\ lock' = c
           /\ memory' = [Reread EXCEPT ![session[c]] = Saved(c)]
           /\ saving' = [saving EXCEPT ![c] = next] /\ next' = next + 1
           /\ pc' = [pc EXCEPT ![c] = "writing"]
           /\ UNCHANGED <<file, temporary, session, base, resets, acked, dirty>>
  BY DEF SaveAccepted, Saved, Goto

LEMMA ClientTypeOK ==
    ASSUME TypeOK, NEW c \in Clients,
           \/ Load(c) \/ SaveAccepted(c) \/ SaveConflicts(c) \/ WriteTemporary(c)
           \/ Replace(c) \/ WriteFails(c) \/ Reset(c)
    PROVE  TypeOK'
<1>0. None \notin Clients /\ MaxUpdates \in Nat /\ MaxResets \in Nat
  BY ConstantsAssumption
<1>1. CASE Load(c)
  <2>1. PICK s \in Sessions : base' = [base EXCEPT ![c] = memory[s]] /\ session' = [session EXCEPT ![c] = s]
    BY <1>1 DEF Load
  <2>2. base' \in [Clients -> States] /\ session' \in [Clients -> Sessions]
    BY <2>1 DEF TypeOK
  <2>3. dirty' \in BOOLEAN
    BY <1>1 DEF Load, TypeOK
  <2>4. /\ pc[c] = "idle" /\ pc' = [pc EXCEPT ![c] = "loaded"]
        /\ UNCHANGED <<file, temporary, memory, lock, saving, next, resets, acked>>
    BY <1>1 DEF Load, Goto
  <2>5. /\ pc' \in [Clients -> {"idle", "loaded", "writing", "replacing", "resetting", "reset replacing"}]
        /\ \A d \in Clients : pc'[d] \in {"writing", "replacing"} <=> lock' = d
    BY <2>4 DEF TypeOK
  <2> QED
    BY <2>2, <2>3, <2>4, <2>5 DEF TypeOK
<1>2. CASE SaveAccepted(c)
  <2>1. memory' \in [Sessions -> States]
    <3>1. Saved(c) \in States /\ Reread \in [Sessions -> States]
      BY <1>2, SaveAcceptedSays, SavedType, RereadType
    <3>2. memory' = [Reread EXCEPT ![session[c]] = Saved(c)]
      BY <1>2, SaveAcceptedSays
    <3> QED
      BY <3>1, <3>2
  <2>2. next' \in 1..(MaxUpdates + 1) /\ saving' \in [Clients -> 0..MaxUpdates]
    <3>1. next \in 1..(MaxUpdates + 1) /\ next <= MaxUpdates /\ next' = next + 1
      BY <1>2, SaveAcceptedSays DEF TypeOK
    <3>2. next \in 0..MaxUpdates /\ next' \in 1..(MaxUpdates + 1)
      BY <3>1, <1>0
    <3> QED
      <4>1. saving \in [Clients -> 0..MaxUpdates] /\ saving' = [saving EXCEPT ![c] = next]
        BY <1>2, SaveAcceptedSays DEF TypeOK
      <4> QED
        BY <3>2, <4>1
  <2>3. /\ pc' \in [Clients -> {"idle", "loaded", "writing", "replacing", "resetting", "reset replacing"}]
        /\ lock' \in Clients \cup {None}
        /\ \A d \in Clients : pc'[d] \in {"writing", "replacing"} <=> lock' = d
    <3>1. lock = None /\ lock' = c /\ pc' = [pc EXCEPT ![c] = "writing"]
      BY <1>2, SaveAcceptedSays
    <3>2. \A d \in Clients : pc[d] \notin {"writing", "replacing"}
      BY <1>0, <3>1 DEF TypeOK
    <3> QED
      BY <3>1, <3>2 DEF TypeOK
  <2>4. \A d \in Clients : lock' = d => saving'[d] \in Updates
    <3>1. next \in 1..(MaxUpdates + 1) /\ next <= MaxUpdates
      BY <1>2, SaveAcceptedSays DEF TypeOK
    <3>2. next \in Updates
      BY <3>1, <1>0 DEF Updates
    <3>3. saving \in [Clients -> 0..MaxUpdates]
      BY DEF TypeOK
    <3>4. saving' = [saving EXCEPT ![c] = next] /\ lock' = c
      BY <1>2, SaveAcceptedSays
    <3>5. saving'[c] = next
      BY <3>3, <3>4
    <3> QED
      BY <3>2, <3>4, <3>5
  <2>5. UNCHANGED <<file, temporary, session, base, resets, acked, dirty>>
    BY <1>2, SaveAcceptedSays
  <2> QED
    BY <2>1, <2>2, <2>3, <2>4, <2>5 DEF TypeOK
<1>3. CASE SaveConflicts(c)
  <2>1. memory' \in [Sessions -> States]
    BY <1>3, RereadType DEF SaveConflicts
  <2>2. /\ pc[c] = "loaded" /\ (pc' = pc \/ pc' = [pc EXCEPT ![c] = "idle"])
        /\ UNCHANGED <<file, temporary, lock, session, base, saving, next, resets, acked, dirty>>
    BY <1>3 DEF SaveConflicts
  <2>3. /\ pc' \in [Clients -> {"idle", "loaded", "writing", "replacing", "resetting", "reset replacing"}]
        /\ \A d \in Clients : pc'[d] \in {"writing", "replacing"} <=> lock' = d
    BY <2>2 DEF TypeOK
  <2> QED
    BY <2>1, <2>2, <2>3 DEF TypeOK
<1>4. CASE WriteTemporary(c)
  BY <1>4, <1>0 DEF WriteTemporary, Goto, TypeOK
<1>5. CASE Replace(c)
  <2>1. acked' \subseteq Updates
    <3>1. pc[c] = "replacing" => saving[c] \in Updates
      BY DEF TypeOK
    <3> QED
      BY <1>5, <3>1 DEF Replace, TypeOK
  <2> QED
    BY <1>5, <1>0, <2>1 DEF Replace, Unlocked, Goto, TypeOK
<1>6. CASE WriteFails(c)
  BY <1>6, <1>0 DEF WriteFails, Unlocked, Goto, TypeOK
<1>7. CASE Reset(c)
  <2>1. memory' \in [Sessions -> States]
    BY <1>7, EmptyCounts DEF Reset, TypeOK
  <2>2. /\ resets < MaxResets /\ resets' = resets + 1 /\ pc[c] = "idle"
        /\ pc' = [pc EXCEPT ![c] = "resetting"]
        /\ UNCHANGED <<file, temporary, lock, session, base, saving, next, acked, dirty>>
    BY <1>7 DEF Reset, Goto
  <2>3. resets' \in 0..MaxResets
    <3>1. resets \in 0..MaxResets
      BY DEF TypeOK
    <3> QED
      BY <3>1, <2>2, <1>0
  <2>4. /\ pc' \in [Clients -> {"idle", "loaded", "writing", "replacing", "resetting", "reset replacing"}]
        /\ \A d \in Clients : pc'[d] \in {"writing", "replacing"} <=> lock' = d
    BY <2>2 DEF TypeOK
  <2> QED
    BY <2>1, <2>2, <2>3, <2>4 DEF TypeOK
<1> QED
  BY <1>1, <1>2, <1>3, <1>4, <1>5, <1>6, <1>7

LEMMA RestartTypeOK ==
    ASSUME TypeOK, Restart
    PROVE  TypeOK'
  BY EmptyCounts, ConstantsAssumption DEF Restart, TypeOK, NoStates

LEMMA TypeInit == Init => TypeOK
<1> SUFFICES ASSUME Init PROVE TypeOK
  OBVIOUS
<1>1. memory \in [Sessions -> States] /\ base \in [Clients -> States]
  BY EmptyCounts DEF Init, NoStates
<1>2. /\ saving \in [Clients -> 0..MaxUpdates] /\ next \in 1..(MaxUpdates + 1)
      /\ resets \in 0..MaxResets
  BY ConstantsAssumption DEF Init
<1>3. \A c \in Clients : lock # c
  BY ConstantsAssumption DEF Init
<1> QED
  BY <1>1, <1>2, <1>3 DEF Init, TypeOK

LEMMA TypeNext == TypeOK /\ [Next]_vars => TypeOK'
<1> SUFFICES ASSUME TypeOK, [Next]_vars PROVE TypeOK'
  OBVIOUS
<1>1. CASE UNCHANGED vars
  BY <1>1 DEF vars, TypeOK
<1>2. CASE Next
  BY <1>2, ClientTypeOK, RestartTypeOK DEF Next
<1> QED
  BY <1>1, <1>2

\* Every reachable state is well typed: the lock is held exactly by the client that is
\* saving, and no version, update or client is ever out of its range.
THEOREM TypeCorrect == Spec => []TypeOK
  BY TypeInit, TypeNext, PTL DEF Spec

-----------------------------------------------------------------------------
(* Versions count updates. *)

LEMMA SavedCounts ==
    ASSUME TypeOK, NEW c \in Clients, Counted(base[c])
    PROVE  /\ Saved(c).version = Cardinality(Saved(c).updates)
           /\ \A u \in Saved(c).updates : u < next + 1
<1>1. /\ base[c].updates \in SUBSET Updates /\ next \in Nat
      /\ \A u \in base[c].updates : u \in Nat /\ u < next
  <2>1. base[c].updates \in SUBSET Updates /\ next \in 1..(MaxUpdates + 1)
    BY DEF TypeOK, States
  <2> QED
    BY <2>1, ConstantsAssumption DEF Updates, Counted
<1>2. next \notin base[c].updates
  BY <1>1
<1>3. IsFiniteSet(base[c].updates)
  BY <1>1, UpdatesFinite
<1>4. Cardinality(base[c].updates \cup {next}) = Cardinality(base[c].updates) + 1
  BY <1>2, <1>3, FS_AddElement
<1> QED
  BY <1>1, <1>4 DEF Saved, Counted

LEMMA CountsMove ==
    ASSUME VersionsCount, next' = next,
           \A s \in Sessions : memory'[s] \in {memory[s], Reread[s], Durable[s], Empty},
           \A c \in Clients : base'[c] = base[c] \/ \E s \in Sessions : base'[c] = memory[s],
           file' \in {file, temporary}, temporary' \in {temporary, memory, None}
    PROVE  VersionsCount'
<1>1. \A s \in Sessions : Counted(memory[s]) /\ Counted(Reread[s]) /\ Counted(Durable[s])
  BY EmptyCounts DEF VersionsCount, Reread, Durable, NoStates
<1>2. \A s \in Sessions : Counted(memory'[s])
  BY <1>1, EmptyCounts
<1>3. \A c \in Clients : Counted(base'[c])
  BY <1>1 DEF VersionsCount
<1>4. file' # None => \A s \in Sessions : Counted(file'[s])
  BY DEF VersionsCount
<1>5. temporary' # None => \A s \in Sessions : Counted(temporary'[s])
  BY <1>1 DEF VersionsCount
<1> QED
  BY <1>2, <1>3, <1>4, <1>5 DEF VersionsCount, Counted

LEMMA SaveAcceptedCounts ==
    ASSUME TypeOK, VersionsCount, NEW c \in Clients, SaveAccepted(c)
    PROVE  VersionsCount'
<1>1. /\ memory' = [Reread EXCEPT ![session[c]] = Saved(c)] /\ next' = next + 1
      /\ UNCHANGED <<file, temporary, base>>
  BY SaveAcceptedSays
<1>2. Reread \in [Sessions -> States] /\ Saved(c) \in States
  BY RereadType, SaveAcceptedSays, SavedType
<1> DEFINE Later(x) == x.version = Cardinality(x.updates) /\ \A u \in x.updates : u < next + 1
<1>3. \A x \in States : Counted(x) => Later(x)
  <2> SUFFICES ASSUME NEW x \in States, Counted(x) PROVE Later(x)
    OBVIOUS
  <2>1. next \in 1..(MaxUpdates + 1) /\ x.updates \in SUBSET Updates
    BY DEF TypeOK, States
  <2>2. next \in Nat /\ \A u \in x.updates : u \in Nat
    BY <2>1, ConstantsAssumption DEF Updates
  <2> QED
    BY <2>2 DEF Counted
<1>4. Later(Saved(c))
  BY SavedCounts DEF VersionsCount
<1>5. \A s \in Sessions : Counted(Reread[s])
  BY DEF VersionsCount, Reread
<1>6. \A s \in Sessions : Later(memory'[s])
  BY <1>1, <1>2, <1>3, <1>4, <1>5
<1>7. \A d \in Clients : Later(base[d])
  BY <1>3 DEF VersionsCount, TypeOK
<1>8. file # None => \A s \in Sessions : Later(file[s])
  BY <1>3 DEF VersionsCount, TypeOK
<1>9. temporary # None => \A s \in Sessions : Later(temporary[s])
  BY <1>3 DEF VersionsCount, TypeOK
<1> QED
  BY <1>1, <1>6, <1>7, <1>8, <1>9 DEF VersionsCount, Counted

LEMMA NextCounts ==
    ASSUME TypeOK, VersionsCount, [Next]_vars
    PROVE  VersionsCount'
<1>1. CASE UNCHANGED vars
  BY <1>1, CountsMove DEF vars
<1>2. CASE Restart
  BY <1>2, CountsMove DEF Restart, Durable, NoStates
<1>3. ASSUME NEW c \in Clients, Load(c) PROVE VersionsCount'
  <2>1. \A d \in Clients : base'[d] = base[d] \/ \E s \in Sessions : base'[d] = memory[s]
    BY <1>3 DEF Load, TypeOK
  <2> QED
    BY <1>3, <2>1, CountsMove DEF Load
<1>4. ASSUME NEW c \in Clients, Reset(c) PROVE VersionsCount'
  <2>1. \A s \in Sessions : memory'[s] \in {memory[s], Empty}
    BY <1>4 DEF Reset
  <2> QED
    BY <1>4, <2>1, CountsMove DEF Reset
<1>5. ASSUME NEW c \in Clients, SaveConflicts(c) \/ WriteTemporary(c) \/ Replace(c) \/ WriteFails(c)
      PROVE VersionsCount'
  BY <1>5, CountsMove DEF SaveConflicts, WriteTemporary, Replace, WriteFails
<1> QED
  BY <1>1, <1>2, <1>3, <1>4, <1>5, SaveAcceptedCounts DEF Next

-----------------------------------------------------------------------------
(* While undisturbed, acknowledged saves are durable. *)

LEMMA OneWriter ==
    ASSUME TypeOK, NEW c \in Clients, lock \in {c, None}, NEW d \in Clients, pc[d] \in Saving
    PROVE  d = c /\ lock = c
  BY ConstantsAssumption DEF TypeOK, Saving

\* A save is accepted only over what it has loaded: nothing durable is missing from it.
LEMMA AcceptedIsAhead ==
    ASSUME TypeOK, VersionsCount, Quiet, NEW c \in Clients, SaveAccepted(c)
    PROVE  \A s \in Sessions : Durable[s].updates \subseteq memory'[s].updates
<1>1. CASE file = None
  BY <1>1 DEF Durable, NoStates, Empty
<1>2. CASE file # None
  <2>1. /\ Reread = Durable /\ Reread \in [Sessions -> States] /\ Saved(c) \in States
        /\ memory' = [Reread EXCEPT ![session[c]] = Saved(c)]
    BY <1>2, RereadType, SavedType, SaveAcceptedSays DEF Reread, Durable
  <2>2. session[c] \in Sessions /\ base[c] \in States /\ Counted(base[c])
    BY DEF TypeOK, VersionsCount
  <2>3. Counted(Durable[session[c]])
    BY <1>2, <2>2 DEF VersionsCount, Durable
  <2>4. base[c].version = Durable[session[c]].version
    BY <2>1, SaveAcceptedSays DEF Expected
  <2>5. base[c].updates \subseteq Durable[session[c]].updates
    BY SaveAcceptedSays DEF Quiet, BaseDurable
  <2>6. base[c].updates = Durable[session[c]].updates
    BY <2>1, <2>2, <2>3, <2>4, <2>5, SameVersionSameUpdates
  <2>7. Durable[session[c]].updates \subseteq Saved(c).updates
    BY <2>6 DEF Saved
  <2> QED
    BY <2>1, <2>2, <2>7
<1> QED
  BY <1>1, <1>2

LEMMA LoadQuiet ==
    ASSUME TypeOK, Quiet, Undisturbed', NEW c \in Clients, Load(c)
    PROVE  Quiet'
<1>1. PICK s \in Sessions : /\ session' = [session EXCEPT ![c] = s]
                            /\ base' = [base EXCEPT ![c] = memory[s]]
                            /\ dirty' = (dirty \/ memory[s] # Durable[s])
  BY DEF Load
<1>2. memory[s] = Durable[s]
  BY <1>1 DEF Undisturbed
<1>3. /\ pc' = [pc EXCEPT ![c] = "loaded"]
      /\ UNCHANGED <<file, temporary, memory, saving, acked, Durable>>
  BY DEF Load, Goto, Durable
<1>4. base'[c].updates = Durable[s].updates /\ session'[c] = s /\ pc'[c] = "loaded"
  BY <1>1, <1>2, <1>3 DEF TypeOK
<1>5. \A d \in Clients \ {c} : base'[d] = base[d] /\ session'[d] = session[d] /\ pc'[d] = pc[d]
  BY <1>1, <1>3 DEF TypeOK
<1>6. BaseDurable'
  BY <1>3, <1>4, <1>5 DEF Quiet, BaseDurable
<1>7. WriterHolds'
  BY <1>3, <1>4, <1>5 DEF Quiet, WriterHolds, Saving
<1>8. NobodyResets'
  BY <1>4, <1>5 DEF Quiet, NobodyResets
<1>9. MemoryAhead' /\ Kept'
  BY <1>3 DEF Quiet, MemoryAhead, Kept
<1> QED
  BY <1>6, <1>7, <1>8, <1>9 DEF Quiet

LEMMA SaveAcceptedQuiet ==
    ASSUME TypeOK, VersionsCount, Quiet, NEW c \in Clients, SaveAccepted(c)
    PROVE  Quiet'
<1>1. /\ pc[c] = "loaded" /\ lock = None /\ pc' = [pc EXCEPT ![c] = "writing"]
      /\ saving' = [saving EXCEPT ![c] = next]
      /\ memory' = [Reread EXCEPT ![session[c]] = Saved(c)]
      /\ UNCHANGED <<file, temporary, session, base, acked, Durable>>
  BY SaveAcceptedSays DEF Durable
<1>2. \A d \in Clients \ {c} : pc'[d] = pc[d] /\ pc[d] \notin Saving
  BY <1>1, OneWriter, ConstantsAssumption DEF TypeOK
<1>3. pc'[c] = "writing"
  BY <1>1 DEF TypeOK
<1>4. saving'[c] = next
  <2>1. saving \in [Clients -> 0..MaxUpdates]
    BY DEF TypeOK
  <2> QED
    BY <1>1, <2>1
<1>5. saving'[c] \in memory'[session[c]].updates
  <2>1. Reread \in [Sessions -> States] /\ session[c] \in Sessions
    BY RereadType DEF TypeOK
  <2>2. memory'[session[c]] = Saved(c)
    BY <1>1, <2>1
  <2> QED
    BY <1>4, <2>2 DEF Saved
<1>6. MemoryAhead'
  BY <1>1, AcceptedIsAhead DEF MemoryAhead
<1>7. BaseDurable'
  BY <1>1, <1>2, <1>3 DEF Quiet, BaseDurable
<1>8. WriterHolds'
  BY <1>1, <1>2, <1>3, <1>5 DEF WriterHolds, Saving
<1>9. NobodyResets' /\ Kept'
  BY <1>1, <1>2, <1>3 DEF Quiet, NobodyResets, Kept
<1> QED
  BY <1>6, <1>7, <1>8, <1>9 DEF Quiet

LEMMA SaveConflictsQuiet ==
    ASSUME TypeOK, Quiet, NEW c \in Clients, SaveConflicts(c)
    PROVE  Quiet'
<1>1. /\ pc[c] = "loaded" /\ lock = None /\ memory' = Reread
      /\ UNCHANGED <<file, temporary, session, base, saving, acked, Durable>>
  BY DEF SaveConflicts, Durable
<1>2. pc'[c] \in {"loaded", "idle"} /\ \A d \in Clients \ {c} : pc'[d] = pc[d]
  BY <1>1 DEF SaveConflicts, TypeOK
<1>3. \A d \in Clients : pc[d] \notin Saving
  BY <1>1, OneWriter, ConstantsAssumption
<1>4. \A d \in Clients : pc'[d] \notin Saving
  BY <1>2, <1>3 DEF Saving
<1>5. MemoryAhead'
  BY <1>1 DEF Quiet, MemoryAhead, Reread, Durable
<1>6. BaseDurable'
  BY <1>1, <1>2, <1>4 DEF Quiet, BaseDurable
<1>7. WriterHolds'
  BY <1>4 DEF WriterHolds, Saving
<1>8. NobodyResets' /\ Kept'
  BY <1>1, <1>2 DEF Quiet, NobodyResets, Kept
<1> QED
  BY <1>5, <1>6, <1>7, <1>8 DEF Quiet

LEMMA WriteTemporaryQuiet ==
    ASSUME TypeOK, Quiet, NEW c \in Clients, WriteTemporary(c)
    PROVE  Quiet'
<1>1. pc[c] = "writing" /\ lock = c
  BY DEF WriteTemporary, Quiet, NobodyResets, TypeOK
<1>2. /\ temporary' = memory /\ pc' = [pc EXCEPT ![c] = "replacing"]
      /\ UNCHANGED <<file, memory, session, base, saving, acked, Durable>>
  BY <1>1 DEF WriteTemporary, Goto, Durable
<1>3. pc'[c] = "replacing" /\ \A d \in Clients \ {c} : pc'[d] = pc[d] /\ pc[d] \notin Saving
  BY <1>1, <1>2, OneWriter DEF TypeOK
<1>4. WriterHolds'
  BY <1>1, <1>2, <1>3 DEF Quiet, WriterHolds, Saving
<1>5. BaseDurable'
  BY <1>1, <1>2, <1>3 DEF Quiet, BaseDurable, Saving
<1>6. MemoryAhead' /\ NobodyResets' /\ Kept'
  BY <1>2, <1>3 DEF Quiet, MemoryAhead, NobodyResets, Kept
<1> QED
  BY <1>4, <1>5, <1>6 DEF Quiet

\* The renaming makes memory durable, and with it the update it acknowledges.
LEMMA ReplaceSays ==
    ASSUME TypeOK, Quiet, NEW c \in Clients, Replace(c)
    PROVE  /\ pc[c] = "replacing" /\ lock = c
           /\ Durable' = memory /\ memory' = memory
           /\ acked' = acked \cup {saving[c]}
           /\ pc' = [pc EXCEPT ![c] = "idle"]
           /\ UNCHANGED <<session, base, saving>>
<1>1. pc[c] = "replacing" /\ lock = c
  BY DEF Replace, Quiet, NobodyResets, TypeOK
<1>2. temporary = memory /\ file' = temporary /\ temporary # None
  BY <1>1 DEF Replace, Quiet, WriterHolds
<1>3. Durable' = memory
  BY <1>2 DEF Durable
<1> QED
  BY <1>1, <1>3 DEF Replace, Goto

LEMMA ReplaceQuiet ==
    ASSUME TypeOK, Quiet, NEW c \in Clients, Replace(c)
    PROVE  Quiet'
<1>1. /\ pc[c] = "replacing" /\ lock = c
      /\ Durable' = memory /\ memory' = memory
      /\ acked' = acked \cup {saving[c]}
      /\ pc' = [pc EXCEPT ![c] = "idle"]
      /\ UNCHANGED <<session, base, saving>>
  BY ReplaceSays
<1>2. pc'[c] = "idle" /\ \A d \in Clients \ {c} : pc'[d] = pc[d] /\ pc[d] \notin Saving
  BY <1>1, OneWriter DEF TypeOK
<1>3. \A s \in Sessions : Durable[s].updates \subseteq Durable'[s].updates
  BY <1>1 DEF Quiet, MemoryAhead
<1>4. BaseDurable'
  <2> SUFFICES ASSUME NEW d \in Clients, pc'[d] \in {"loaded"} \cup Saving
               PROVE  base'[d].updates \subseteq Durable'[session'[d]].updates
    BY DEF BaseDurable
  <2>1. session[d] \in Sessions /\ d # c /\ pc[d] = pc'[d]
    BY <1>2 DEF TypeOK, Saving
  <2>2. base[d].updates \subseteq Durable[session[d]].updates
    BY <2>1 DEF Quiet, BaseDurable
  <2>3. base'[d] = base[d] /\ session'[d] = session[d]
    BY <1>1
  <2>4. Durable[session[d]].updates \subseteq Durable'[session[d]].updates
    BY <1>3, <2>1
  <2> QED
    BY <2>2, <2>3, <2>4
<1>5. WriterHolds'
  BY <1>2 DEF WriterHolds, Saving
<1>6. Kept'
  <2>1. saving[c] \in Durable'[session[c]].updates /\ session[c] \in Sessions
    BY <1>1 DEF Quiet, WriterHolds, Saving, TypeOK
  <2>2. \A u \in acked : \E s \in Sessions : u \in Durable[s].updates
    BY DEF Quiet, Kept
  <2>3. \A u \in acked' : \E s \in Sessions : u \in Durable'[s].updates
    BY <1>1, <1>3, <2>1, <2>2
  <2> QED
    BY <2>3 DEF Kept
<1>7. MemoryAhead' /\ NobodyResets'
  BY <1>1, <1>2 DEF Quiet, MemoryAhead, NobodyResets
<1> QED
  BY <1>4, <1>5, <1>6, <1>7 DEF Quiet

LEMMA WriteFailsQuiet ==
    ASSUME TypeOK, Quiet, NEW c \in Clients, WriteFails(c)
    PROVE  Quiet'
<1>1. pc[c] \in Saving /\ lock = c
  BY DEF WriteFails, Quiet, NobodyResets, TypeOK, Saving
<1>2. UNCHANGED <<file, temporary, memory, session, base, saving, acked, Durable>>
  BY DEF WriteFails, Durable
<1>3. pc'[c] \in {"idle", "loaded"} /\ \A d \in Clients \ {c} : pc'[d] = pc[d] /\ pc[d] \notin Saving
  BY <1>1, OneWriter DEF WriteFails, Goto, TypeOK
<1>4. WriterHolds'
  BY <1>3 DEF WriterHolds, Saving
<1>5. BaseDurable'
  BY <1>1, <1>2, <1>3 DEF Quiet, BaseDurable
<1>6. MemoryAhead' /\ NobodyResets' /\ Kept'
  BY <1>2, <1>3 DEF Quiet, MemoryAhead, NobodyResets, Kept
<1> QED
  BY <1>4, <1>5, <1>6 DEF Quiet

LEMMA RestartQuiet ==
    ASSUME Quiet, Restart
    PROVE  Quiet'
<1>1. /\ memory' = Durable /\ UNCHANGED <<acked, Durable>>
      /\ \A c \in Clients : pc'[c] = "idle"
  BY DEF Restart, Durable
<1>2. MemoryAhead'
  BY <1>1 DEF MemoryAhead
<1>3. BaseDurable' /\ WriterHolds' /\ NobodyResets'
  BY <1>1 DEF BaseDurable, WriterHolds, NobodyResets, Saving
<1>4. Kept'
  BY <1>1 DEF Quiet, Kept
<1> QED
  BY <1>2, <1>3, <1>4 DEF Quiet

LEMMA UndisturbedBefore ==
    ASSUME TypeOK, [Next]_vars, Undisturbed'
    PROVE  Undisturbed /\ \A c \in Clients : ~Reset(c)
<1>1. resets \in Nat
  <2>1. resets \in 0..MaxResets
    BY DEF TypeOK
  <2> QED
    BY <2>1, ConstantsAssumption
<1>2. \A c \in Clients : ~Reset(c)
  <2> SUFFICES ASSUME NEW c \in Clients, Reset(c) PROVE FALSE
    OBVIOUS
  <2>1. resets' = resets + 1 /\ resets' = 0
    BY DEF Reset, Undisturbed
  <2> QED
    BY <1>1, <2>1
<1>3. resets' = resets /\ (dirty => dirty')
  <2>1. ASSUME NEW c \in Clients, Load(c) PROVE resets' = resets /\ (dirty => dirty')
    BY <2>1 DEF Load
  <2>2. ASSUME NEW c \in Clients,
               \/ SaveAccepted(c) \/ SaveConflicts(c) \/ WriteTemporary(c)
               \/ Replace(c) \/ WriteFails(c)
        PROVE  resets' = resets /\ dirty' = dirty
    BY <2>2, SaveAcceptedSays DEF SaveConflicts, WriteTemporary, Replace, WriteFails
  <2>3. CASE Restart \/ UNCHANGED vars
    BY <2>3 DEF Restart, vars
  <2> QED
    BY <1>2, <2>1, <2>2, <2>3 DEF Next
<1> QED
  BY <1>2, <1>3 DEF Undisturbed

LEMMA NextQuiet ==
    ASSUME TypeOK, VersionsCount, Undisturbed => Quiet, Undisturbed', [Next]_vars
    PROVE  Quiet'
<1>1. Quiet /\ \A c \in Clients : ~Reset(c)
  BY UndisturbedBefore
<1>2. CASE UNCHANGED vars
  <2>1. UNCHANGED <<file, temporary, memory, pc, session, base, saving, acked, Durable>>
    BY <1>2 DEF vars, Durable
  <2>2. MemoryAhead' /\ BaseDurable' /\ NobodyResets'
    BY <1>1, <2>1 DEF Quiet, MemoryAhead, BaseDurable, NobodyResets
  <2>3. WriterHolds' /\ Kept'
    BY <1>1, <2>1 DEF Quiet, WriterHolds, Kept
  <2> QED
    BY <2>2, <2>3 DEF Quiet
<1>3. CASE Next
  BY <1>1, <1>3, LoadQuiet, SaveAcceptedQuiet, SaveConflictsQuiet, WriteTemporaryQuiet, ReplaceQuiet,
     WriteFailsQuiet, RestartQuiet DEF Next
<1> QED
  BY <1>2, <1>3

LEMMA Inductive == Spec => []IInv
<1>1. Init => IInv
  <2> SUFFICES ASSUME Init PROVE VersionsCount /\ Quiet
    BY TypeInit DEF IInv
  <2>1. VersionsCount
    BY EmptyCounts DEF Init, VersionsCount, NoStates
  <2>2. Quiet
    BY DEF Init, Quiet, MemoryAhead, BaseDurable, WriterHolds, NobodyResets, Kept, Durable, Saving
  <2> QED
    BY <2>1, <2>2
<1>2. IInv /\ [Next]_vars => IInv'
  BY TypeNext, NextCounts, NextQuiet DEF IInv
<1> QED
  BY <1>1, <1>2, PTL DEF Spec

\* Whatever saves overlap, fail to write or are cut off by a restart, a save that returned
\* stays in the file until somebody resets or builds on an unsaved state.
THEOREM AcknowledgedSaves == Spec => []AcknowledgedIsDurable
<1>1. IInv => AcknowledgedIsDurable
  BY DEF IInv, Quiet, AcknowledgedIsDurable
<1> QED
  BY <1>1, Inductive, PTL

-----------------------------------------------------------------------------
(* The file only changes by commits of VersionedState. *)

LEMMA CardinalityAgrees ==
    ASSUME NEW S
    PROVE  Contract!Cardinality(S) = Cardinality(S)
  BY Zenon DEF Contract!Cardinality, Cardinality

LEMMA MemoryCommits ==
    ASSUME TypeOK, VersionsCount, MemoryAhead, Durable' = memory
    PROVE  Contract!Commit
<1> DEFINE added == [s \in Sessions |-> memory[s].updates \ Durable[s].updates]
<1>1. added \in [Sessions -> SUBSET Updates]
  BY DEF TypeOK, States
<1>2. \A s \in Sessions : added[s] \cap Durable[s].updates = {}
  OBVIOUS
<1>3. \A s \in Sessions : memory[s] = Contract!Grown(Durable[s], added[s])
  <2> SUFFICES ASSUME NEW s \in Sessions
               PROVE  memory[s] = Contract!Grown(Durable[s], added[s])
    OBVIOUS
  <2>1. memory[s] \in States /\ Durable[s] \in States
    BY DurableType DEF TypeOK
  <2>2. Counted(memory[s]) /\ Counted(Durable[s])
    BY EmptyCounts DEF VersionsCount, Durable, NoStates
  <2>3. memory[s].updates = Durable[s].updates \cup added[s]
    BY DEF MemoryAhead
  <2>4. IsFiniteSet(Durable[s].updates) /\ IsFiniteSet(added[s])
    BY <1>1, <2>1, UpdatesFinite DEF States
  <2>5. /\ Cardinality(Durable[s].updates) \in Nat /\ Cardinality(added[s]) \in Nat
        /\ Cardinality({}) = 0
    BY <2>4, FS_CardinalityType, FS_EmptySet
  <2>6. Cardinality(memory[s].updates) = Cardinality(Durable[s].updates) + Cardinality(added[s])
    <3> HIDE DEF added
    <3>1. Cardinality(Durable[s].updates \cup added[s])
            = Cardinality(Durable[s].updates) + Cardinality(added[s])
              - Cardinality(Durable[s].updates \cap added[s])
      BY <2>4, FS_Union
    <3>2. Durable[s].updates \cap added[s] = {}
      BY <1>2
    <3>3. Cardinality(Durable[s].updates \cap added[s]) = 0
      BY <2>5, <3>2, Zenon
    <3>4. Cardinality(memory[s].updates) = Cardinality(Durable[s].updates \cup added[s])
      BY <2>3, Zenon
    <3> QED
      BY <2>5, <3>1, <3>3, <3>4
  <2>7. memory[s].version = Durable[s].version + Contract!Cardinality(added[s])
    BY <2>2, <2>6, CardinalityAgrees DEF Counted
  <2> QED
    BY <2>1, <2>3, <2>7 DEF Contract!Grown, States
<1>4. Durable' = [s \in Sessions |-> Contract!Grown(Durable[s], added[s])]
  BY <1>3 DEF TypeOK
<1> QED
  BY <1>1, <1>2, <1>4 DEF Contract!Commit

\* While undisturbed, the manager implements versioned state: what users see of a session
\* only grows, by one version for each update.
THEOREM Commits == Spec => KeepsContract
<1>1. Init => Contract!Init
  BY DEF Init, Contract!Init, Durable, NoStates, Empty
<1>2. IInv /\ [Next]_vars => [Undisturbed' => [Contract!Commit]_Durable]_vars
  <2> SUFFICES ASSUME IInv, Next, Undisturbed' PROVE Contract!Commit \/ Durable' = Durable
    OBVIOUS
  <2>1. Quiet /\ \A c \in Clients : ~Reset(c)
    BY UndisturbedBefore DEF IInv
  <2>2. ASSUME NEW c \in Clients, Replace(c) PROVE Contract!Commit
    <3>1. TypeOK /\ VersionsCount /\ MemoryAhead
      BY <2>1 DEF IInv, Quiet
    <3>2. Durable' = memory
      BY <2>1, <2>2, <3>1, ReplaceSays
    <3> QED
      BY <3>1, <3>2, MemoryCommits
  <2>3. CASE UNCHANGED file
    <3>1. Durable' = Durable
      BY <2>3 DEF Durable
    <3> QED
      BY <3>1
  <2> QED
    BY <2>1, <2>2, <2>3 DEF Next, Load, SaveAccepted, SaveConflicts, WriteTemporary, WriteFails, Restart
<1> QED
  BY <1>1, <1>2, Inductive, PTL DEF Spec, KeepsContract

-----------------------------------------------------------------------------
(* The program of a conversation. *)

Requests == {"turn", "question"}

\* Halves of the even and of the odd numbers up to 2n.
LEMMA Halves ==
    ASSUME NEW n \in Nat, NEW j \in 1..(2 * n)
    PROVE  IF j % 2 = 1 THEN (j + 1) \div 2 \in 1..n /\ j + 1 = 2 * ((j + 1) \div 2)
                        ELSE j \div 2 \in 1..n /\ j = 2 * (j \div 2)
<1>1. CASE j % 2 = 1
  <2>1. j + 1 = 2 * ((j + 1) \div 2) /\ (j + 1) \div 2 \in Int
    BY <1>1
  <2> QED
    BY <1>1, <2>1
<1>2. CASE j % 2 # 1
  <2>1. j = 2 * (j \div 2) /\ j \div 2 \in Int
    BY <1>2
  <2> QED
    BY <1>2, <2>1
<1> QED
  BY <1>1, <1>2

LEMMA ProgramShape ==
    /\ Len(Program) = Len(Turns) + 2 * Len(Questions) + 3 /\ Len(Program) \in Nat /\ DOMAIN Program = 1..Len(Program)
    /\ \A i \in 1..Len(Turns) : Program[i] = Step("turn", Turns[i])
    /\ Program[Len(Turns) + 1] = Step("barrier", "after_conversation")
    /\ \A j \in 1..(2 * Len(Questions)) : Program[Len(Turns) + 1 + j] =
           IF j % 2 = 1 THEN Step("barrier", "before_question") ELSE Step("question", Questions[j \div 2])
    /\ Program[Len(Program) - 1] = Step("barrier", "before_finalization")
    /\ Program[Len(Program)] = Step("stop", Nothing)
<1> DEFINE turns == [i \in DOMAIN Turns |-> Step("turn", Turns[i])]
           middle == <<Step("barrier", "after_conversation")>>
           asked == [j \in 1..(2 * Len(Questions)) |->
               IF j % 2 = 1 THEN Step("barrier", "before_question") ELSE Step("question", Questions[j \div 2])]
           last == <<Step("barrier", "before_finalization"), Step("stop", Nothing)>>
<1>1. Len(Turns) \in Nat /\ DOMAIN Turns = 1..Len(Turns) /\ Len(Questions) \in Nat
  BY MemoryAssumption
<1> DEFINE any == {turns[i] : i \in DOMAIN turns} \cup {asked[i] : i \in DOMAIN asked} \cup {middle[1], last[1], last[2]}
<1>2. turns \in Seq(any) /\ Len(turns) = Len(Turns) /\ asked \in Seq(any) /\ Len(asked) = 2 * Len(Questions)
      /\ middle \in Seq(any) /\ Len(middle) = 1 /\ last \in Seq(any) /\ Len(last) = 2
  BY <1>1
<1>3. Program = turns \o middle \o asked \o last
  BY DEF Program
<1>4. /\ \A i \in 1..Len(Turns) : turns[i] = Step("turn", Turns[i])
      /\ middle[1] = Step("barrier", "after_conversation")
      /\ \A j \in 1..(2 * Len(Questions)) : asked[j] =
           IF j % 2 = 1 THEN Step("barrier", "before_question") ELSE Step("question", Questions[j \div 2])
      /\ last[1] = Step("barrier", "before_finalization") /\ last[2] = Step("stop", Nothing)
  BY <1>1
<1> HIDE DEF turns, middle, asked, last, any
<1>seq. turns \in Seq(any) /\ asked \in Seq(any) /\ middle \in Seq(any) /\ last \in Seq(any)
  BY <1>2
<1> DEFINE a == turns \o middle
           b == a \o asked
           c == b \o last
<1>5. a \in Seq(any) /\ Len(a) = Len(Turns) + 1 /\ (\A i \in 1..Len(Turns) : a[i] = turns[i]) /\ a[Len(Turns) + 1] = middle[1]
  <2>1. a \in Seq(any) /\ Len(a) = Len(turns) + Len(middle)
    BY <1>seq
  <2>2. \A i \in 1..Len(turns) : a[i] = turns[i]
    BY <1>seq
  <2>3. \A i \in 1..Len(middle) : a[Len(turns) + i] = middle[i]
    BY <1>seq
  <2> HIDE DEF a
  <2> QED
    BY <1>1, <1>2, <2>1, <2>2, <2>3
<1> HIDE DEF a
<1>6. /\ b \in Seq(any) /\ Len(b) = Len(Turns) + 1 + 2 * Len(Questions)
      /\ \A i \in 1..(Len(Turns) + 1) : b[i] = a[i]
      /\ \A j \in 1..(2 * Len(Questions)) : b[Len(Turns) + 1 + j] = asked[j]
  <2>0. a \in Seq(any)
    BY <1>5
  <2>1. b \in Seq(any) /\ Len(b) = Len(a) + Len(asked)
    BY <1>seq, <2>0
  <2>2. \A i \in 1..Len(a) : b[i] = a[i]
    BY <1>seq, <2>0
  <2>3. \A i \in 1..Len(asked) : b[Len(a) + i] = asked[i]
    BY <1>seq, <2>0
  <2> HIDE DEF b
  <2> QED
    BY <1>1, <1>2, <1>5, <2>1, <2>2, <2>3
<1> HIDE DEF b
<1>7. /\ c \in Seq(any) /\ Len(c) = Len(Turns) + 2 * Len(Questions) + 3
      /\ \A i \in 1..(Len(Turns) + 1 + 2 * Len(Questions)) : c[i] = b[i]
      /\ c[Len(c) - 1] = last[1] /\ c[Len(c)] = last[2]
  <2>0. b \in Seq(any)
    BY <1>6
  <2>1. c \in Seq(any) /\ Len(c) = Len(b) + Len(last)
    BY <1>seq, <2>0
  <2>2. \A i \in 1..Len(b) : c[i] = b[i]
    BY <1>seq, <2>0
  <2>3. \A i \in 1..Len(last) : c[Len(b) + i] = last[i]
    BY <1>seq, <2>0
  <2> HIDE DEF c
  <2>4. Len(b) + 1 = Len(c) - 1 /\ Len(b) + 2 = Len(c) /\ 1 \in 1..Len(last) /\ 2 \in 1..Len(last)
    BY <1>1, <1>2, <1>6, <2>1
  <2> QED
    BY <1>1, <1>2, <1>6, <2>1, <2>2, <2>3, <2>4
<1>8. Program = c
  BY <1>3 DEF a, b
<1> HIDE DEF c
<1>9. /\ \A i \in 1..(Len(Turns) + 1) : c[i] = a[i]
      /\ \A j \in 1..(2 * Len(Questions)) : c[Len(Turns) + 1 + j] = asked[j]
  BY <1>1, <1>6, <1>7, SMTT(30)
<1>10. Len(c) \in Nat /\ DOMAIN c = 1..Len(c)
  BY <1>7
<1>11. Len(c) = Len(Turns) + 2 * Len(Questions) + 3 /\ \A i \in 1..Len(Turns) : c[i] = Step("turn", Turns[i])
  BY <1>1, <1>4, <1>5, <1>7, <1>9
<1>12. c[Len(Turns) + 1] = Step("barrier", "after_conversation")
  <2>1. Len(Turns) + 1 \in 1..(Len(Turns) + 1)
    BY <1>1
  <2> QED
    BY <1>4, <1>5, <1>9, <2>1
<1>13. \A j \in 1..(2 * Len(Questions)) : c[Len(Turns) + 1 + j] =
           IF j % 2 = 1 THEN Step("barrier", "before_question") ELSE Step("question", Questions[j \div 2])
  <2> TAKE j \in 1..(2 * Len(Questions))
  <2>1. c[Len(Turns) + 1 + j] = asked[j]
    BY <1>9
  <2>2. asked[j] = IF j % 2 = 1 THEN Step("barrier", "before_question") ELSE Step("question", Questions[j \div 2])
    BY <1>4
  <2> QED
    BY <2>1, <2>2, Zenon
<1>14. c[Len(c) - 1] = Step("barrier", "before_finalization") /\ c[Len(c)] = Step("stop", Nothing)
  BY <1>4, <1>7
<1> QED
  BY <1>8, <1>10, <1>11, <1>12, <1>13, <1>14, Zenon

LEMMA StepFields == \A kind, id : Step(kind, id).kind = kind /\ Step(kind, id).id = id
  BY DEF Step

\* A place in the program by where it is.
LEMMA ProgramPlace ==
    ASSUME NEW i \in DOMAIN Program
    PROVE  \/ i \in 1..Len(Turns) /\ Program[i] = Step("turn", Turns[i])
           \/ i = Len(Turns) + 1 /\ Program[i] = Step("barrier", "after_conversation")
           \/ \E k \in 1..Len(Questions) :
                 \/ i = Len(Turns) + 2 * k /\ Program[i] = Step("barrier", "before_question")
                 \/ i = Len(Turns) + 2 * k + 1 /\ Program[i] = Step("question", Questions[k])
           \/ i = Len(Program) - 1 /\ Program[i] = Step("barrier", "before_finalization")
           \/ i = Len(Program) /\ Program[i] = Step("stop", Nothing)
<1>1. Len(Turns) \in Nat /\ Len(Questions) \in Nat
  BY MemoryAssumption
<1>2. i \in 1..Len(Program)
  BY ProgramShape
<1>3. CASE i \in (Len(Turns) + 2)..(Len(Turns) + 1 + 2 * Len(Questions))
  <2> DEFINE j == i - Len(Turns) - 1
  <2>1. j \in 1..(2 * Len(Questions)) /\ i = Len(Turns) + 1 + j
    BY <1>1, <1>3
  <2> HIDE DEF j
  <2>2. Program[i] = IF j % 2 = 1 THEN Step("barrier", "before_question") ELSE Step("question", Questions[j \div 2])
    BY <2>1, ProgramShape
  <2>3. CASE j % 2 = 1
    <3>1. PICK k \in 1..Len(Questions) : j + 1 = 2 * k
      BY <1>1, <2>1, <2>3, Halves
    <3>2. i = Len(Turns) + 2 * k
      BY <1>1, <2>1, <3>1
    <3> QED
      BY <2>2, <2>3, <3>2
  <2>4. CASE j % 2 # 1
    <3>1. j \div 2 \in 1..Len(Questions) /\ j = 2 * (j \div 2)
      BY <1>1, <2>1, <2>4, Halves
    <3>2. i = Len(Turns) + 2 * (j \div 2) + 1
      BY <1>1, <2>1, <3>1
    <3> QED
      BY <2>2, <2>4, <3>1, <3>2
  <2> QED
    BY <2>3, <2>4
<1>4. CASE i \notin (Len(Turns) + 2)..(Len(Turns) + 1 + 2 * Len(Questions))
  <2>1. /\ Len(Program) = Len(Turns) + 2 * Len(Questions) + 3
        /\ \A k \in 1..Len(Turns) : Program[k] = Step("turn", Turns[k])
        /\ Program[Len(Turns) + 1] = Step("barrier", "after_conversation")
        /\ Program[Len(Program) - 1] = Step("barrier", "before_finalization")
        /\ Program[Len(Program)] = Step("stop", Nothing)
    BY ProgramShape
  <2>2. i \in 1..Len(Turns) \/ i = Len(Turns) + 1 \/ i = Len(Program) - 1 \/ i = Len(Program)
    BY <1>1, <1>2, <1>4, <2>1
  <2> QED
    BY <2>1, <2>2
<1> QED
  BY <1>3, <1>4

LEMMA RequestPlace ==
    ASSUME NEW i \in DOMAIN Program, Program[i].kind \in Requests
    PROVE  /\ Program[i].id \in Admitted
           /\ \/ i \in 1..Len(Turns) /\ Program[i].kind = "turn" /\ Program[i].id = Turns[i]
              \/ \E k \in 1..Len(Questions) : /\ i = Len(Turns) + 2 * k + 1
                                              /\ Program[i].kind = "question" /\ Program[i].id = Questions[k]
<1>1. \/ i \in 1..Len(Turns) /\ Program[i].kind = "turn" /\ Program[i].id = Turns[i]
      \/ \E k \in 1..Len(Questions) : /\ i = Len(Turns) + 2 * k + 1
                                      /\ Program[i].kind = "question" /\ Program[i].id = Questions[k]
  BY ProgramPlace, StepFields DEF Requests
<1>2. (\A k \in 1..Len(Turns) : Turns[k] \in Admitted) /\ \A k \in 1..Len(Questions) : Questions[k] \in Admitted
  BY MemoryAssumption
<1> QED
  BY <1>1, <1>2

\* No memory is admitted twice.
LEMMA ProgramFresh ==
    ASSUME NEW i \in DOMAIN Program, NEW j \in DOMAIN Program, i # j,
           Program[i].kind \in Requests, Program[j].kind \in Requests
    PROVE  Program[i].id # Program[j].id
<1>1. /\ \A k, l \in 1..Len(Turns) : Turns[k] = Turns[l] => k = l
      /\ \A k, l \in 1..Len(Questions) : Questions[k] = Questions[l] => k = l
      /\ \A k \in 1..Len(Turns), l \in 1..Len(Questions) : Turns[k] # Questions[l]
  <2>1. DOMAIN Turns = 1..Len(Turns) /\ DOMAIN Questions = 1..Len(Questions)
    BY MemoryAssumption
  <2>2. IsInjective(Turns) /\ IsInjective(Questions) /\ ToSet(Turns) \cap ToSet(Questions) = {}
    BY MemoryAssumption
  <2>3. /\ \A k, l \in 1..Len(Turns) : Turns[k] = Turns[l] => k = l
        /\ \A k, l \in 1..Len(Questions) : Questions[k] = Questions[l] => k = l
    BY <2>1, <2>2, Zenon DEF IsInjective
  <2>4. (\A k \in 1..Len(Turns) : Turns[k] \in ToSet(Turns)) /\ \A k \in 1..Len(Questions) : Questions[k] \in ToSet(Questions)
    BY <2>1 DEF ToSet
  <2> QED
    BY <2>2, <2>3, <2>4
<1>2. Len(Turns) \in Nat /\ Len(Questions) \in Nat
  BY MemoryAssumption
<1>3. CASE i \in 1..Len(Turns) /\ Program[i].id = Turns[i]
  <2>1. CASE j \in 1..Len(Turns) /\ Program[j].id = Turns[j]
    BY <1>1, <1>3, <2>1
  <2>2. CASE \E k \in 1..Len(Questions) : j = Len(Turns) + 2 * k + 1 /\ Program[j].id = Questions[k]
    BY <1>1, <1>3, <2>2
  <2> QED
    BY <2>1, <2>2, RequestPlace
<1>4. CASE \E k \in 1..Len(Questions) : i = Len(Turns) + 2 * k + 1 /\ Program[i].id = Questions[k]
  <2>1. PICK k \in 1..Len(Questions) : i = Len(Turns) + 2 * k + 1 /\ Program[i].id = Questions[k]
    BY <1>4
  <2>2. CASE j \in 1..Len(Turns) /\ Program[j].id = Turns[j]
    BY <1>1, <2>1, <2>2
  <2>3. CASE \E l \in 1..Len(Questions) : j = Len(Turns) + 2 * l + 1 /\ Program[j].id = Questions[l]
    BY <1>1, <1>2, <2>1, <2>3
  <2> QED
    BY <2>2, <2>3, RequestPlace
<1> QED
  BY <1>3, <1>4, RequestPlace

LEMMA ProgramEnd ==
    ASSUME NEW i \in DOMAIN Program
    PROVE  /\ Program[i].kind \in {"turn", "question", "barrier", "stop"}
           /\ Program[i].kind = "stop" <=> i = Len(Program)
           /\ Program[i].kind # "stop" => i + 1 \in DOMAIN Program
<1>1. Len(Turns) \in Nat /\ Len(Questions) \in Nat
  BY MemoryAssumption
<1>2. Program[i].kind = "stop" \/ i < Len(Program)
  BY <1>1, ProgramPlace, StepFields, ProgramShape
<1>3. Program[Len(Program)].kind = "stop"
  BY ProgramShape, StepFields
<1>4. Program[i].kind \in {"turn", "question", "barrier", "stop"}
  BY ProgramPlace, StepFields
<1>5. Program[i].kind = "stop" => i = Len(Program)
  BY ProgramPlace, StepFields
<1> QED
  BY <1>1, <1>2, <1>3, <1>4, <1>5, ProgramShape

\* A question comes after its barrier.
LEMMA BeforeQuestion ==
    ASSUME NEW i \in DOMAIN Program, i + 1 \in DOMAIN Program, Program[i + 1].kind = "question"
    PROVE  Program[i] = Step("barrier", "before_question")
<1>1. Len(Turns) \in Nat /\ Len(Questions) \in Nat
  BY MemoryAssumption
<1>2. PICK k \in 1..Len(Questions) : i + 1 = Len(Turns) + 2 * k + 1
  BY RequestPlace DEF Requests
<1>3. i = Len(Turns) + 1 + (2 * k - 1) /\ 2 * k - 1 \in 1..(2 * Len(Questions)) /\ (2 * k - 1) % 2 = 1
  <2>1. i \in Nat /\ k \in Nat
    BY ProgramShape
  <2>2. i = Len(Turns) + 1 + (2 * k - 1) /\ 2 * k - 1 \in 1..(2 * Len(Questions))
    BY <1>1, <1>2, <2>1
  <2>3. (2 * k - 1) % 2 = 1
    BY <2>1
  <2> QED
    BY <2>2, <2>3
<1> DEFINE j == 2 * k - 1
<1>4. Program[Len(Turns) + 1 + j] = IF j % 2 = 1 THEN Step("barrier", "before_question") ELSE Step("question", Questions[j \div 2])
  <2>1. j \in 1..(2 * Len(Questions))
    BY <1>3
  <2> HIDE DEF j
  <2> QED
    BY <2>1, ProgramShape, Zenon
<1>5. i = Len(Turns) + 1 + j /\ j % 2 = 1
  BY <1>3
<1> HIDE DEF j
<1> QED
  BY <1>4, <1>5, Zenon

-----------------------------------------------------------------------------
(* Type correctness. *)

WordsOf(id) == IF id \in Abstractions THEN Boilerplate ELSE Words[id]
Vocabulary == UNION {WordsOf(id) : id \in Ids}

Note == [version : Nat, words : SUBSET Vocabulary, encoded : BOOLEAN, scored : BOOLEAN, decays : Nat,
         parents : SUBSET Ids, ancestors : SUBSET Ids, origins : SUBSET Ids, generation : Nat]

Notes == UNION {[S -> Note] : S \in SUBSET Ids}

WorkerPlaces == {"idle", "read", "encode", "score", "flush", "done"}
DriverPlaces ==
    {"next", "store", "index", "enqueue", "search", "join", "flush", "flushed", "raised", "over"}

RepositoryTyped ==
    /\ notes \in Notes
    /\ Stored \subseteq DOMAIN notes
    /\ nodes \subseteq DOMAIN notes
    /\ edges \subseteq SUBSET DOMAIN notes
    /\ synced \in BOOLEAN

TasksTyped ==
    /\ queue \in Seq(Admitted)
    /\ worker \in [at : WorkerPlaces, event : Admitted \cup {Nothing}, note : Note \cup {Nothing}, tries : Nat]
    /\ pending \in Seq(Admitted)
    /\ actor \in [task : {"worker", "driver", Nothing}, at : {"off", "consolidate", "rebuild", "evolve"},
                  batch : SUBSET Admitted, read : Notes \cup {Nothing}]
    /\ driver \in [step : DOMAIN Program, at : DriverPlaces, failed : BOOLEAN, seen : SUBSET Ids]
    /\ mode \in Modes
    /\ failures \subseteq Admitted /\ unqueued \subseteq Admitted /\ lost \subseteq Admitted /\ unlinked \subseteq Admitted
    /\ faults \in 0..MaxFaults

MemoryTypeOK == RepositoryTyped /\ TasksTyped

\* Where worker and driver are, they have the memory they work on.
Placed ==
    /\ worker.at # "idle" => worker.event \in Admitted \cap DOMAIN notes
    /\ driver.at \in {"store", "index", "enqueue"} => Now.kind \in Requests
    /\ driver.at \in {"index", "enqueue"} => Now.id \in DOMAIN notes
    /\ driver.at = "search" => Now.kind = "question" /\ ~driver.failed
    /\ driver.at \in {"join", "flush", "flushed", "raised"} => Now.kind \in {"barrier", "stop"}
    /\ ToSet(queue) \cup ToSet(pending) \subseteq DOMAIN notes

\* One task at a time runs the engines, and while the driver's does the worker rests.
Exclusive ==
    /\ actor.task = Nothing => actor = NoActor
    /\ actor.task = "worker" => worker.at = "flush"
    /\ actor.task = "driver" => driver.at = "flush" /\ pending = <<>>
    /\ driver.at \in {"flush", "flushed"} => queue = <<>> /\ worker.at = "idle"
    /\ driver.at = "flushed" => pending = <<>>

LEMMA NotesFacts ==
    ASSUME notes \in Notes
    PROVE  /\ DOMAIN notes \in SUBSET Ids /\ notes \in [DOMAIN notes -> Note]
           /\ \A id \in DOMAIN notes : notes[id] \in Note
  BY DEF Notes

LEMMA OverDomain ==
    ASSUME NEW f, NEW g
    PROVE  DOMAIN Over(f, g) = DOMAIN f \cup DOMAIN g
  BY DEF Over

LEMMA OverNotes ==
    ASSUME NEW f \in Notes, NEW g \in Notes
    PROVE  Over(f, g) \in Notes
<1>1. PICK S \in SUBSET Ids : f \in [S -> Note]
  BY DEF Notes
<1>2. PICK T \in SUBSET Ids : g \in [T -> Note]
  BY DEF Notes
<1>3. Over(f, g) \in [S \cup T -> Note]
  BY <1>1, <1>2 DEF Over
<1>4. S \cup T \in SUBSET Ids
  OBVIOUS
<1> QED
  BY <1>3, <1>4 DEF Notes

LEMMA OneNote ==
    ASSUME NEW id \in Ids, NEW note \in Note
    PROVE  [x \in {id} |-> note] \in Notes
<1>1. [x \in {id} |-> note] \in [{id} -> Note] /\ {id} \in SUBSET Ids
  OBVIOUS
<1> QED
  BY <1>1 DEF Notes

LEMMA BlankNote ==
    ASSUME NEW id \in Ids
    PROVE  Blank(WordsOf(id)) \in Note
<1>1. WordsOf(id) \in SUBSET Vocabulary
  BY DEF Vocabulary
<1> QED
  BY <1>1 DEF Blank, Note

LEMMA UpdatedNotes ==
    ASSUME NEW note \in Note
    PROVE  Embedded(note) \in Note /\ Salient(note) \in Note /\ [Updated(note) EXCEPT !.decays = @ + 1] \in Note
<1>1. Updated(note) \in Note
  BY DEF Updated, Note
<1>2. \A n \in Note : [n EXCEPT !.encoded = TRUE] \in Note
  BY DEF Note
<1>3. \A n \in Note : [n EXCEPT !.scored = TRUE] \in Note
  BY DEF Note
<1>4. \A n \in Note : [n EXCEPT !.decays = @ + 1] \in Note
  BY DEF Note
<1> QED
  BY <1>1, <1>2, <1>3, <1>4 DEF Embedded, Salient

LEMMA LinksTyped ==
    ASSUME NEW store, NEW id \in DOMAIN store
    PROVE  LinksOf(id, store) \subseteq SUBSET DOMAIN store
  BY DEF LinksOf

LEMMA Apart ==
    /\ \A id \in Admitted \cup Stored : id \notin Abstractions /\ WordsOf(id) = Words[id]
    /\ Admitted \cap Stored = {} /\ Abstractions \subseteq Nat /\ Nothing \notin Admitted
  BY MemoryAssumption DEF WordsOf, Abstractions

LEMMA IndexTyped ==
    ASSUME nodes \subseteq DOMAIN notes, edges \subseteq SUBSET DOMAIN notes, DOMAIN notes \subseteq DOMAIN notes',
           NEW ids \in SUBSET DOMAIN notes', Index(ids, notes')
    PROVE  nodes' \subseteq DOMAIN notes' /\ edges' \subseteq SUBSET DOMAIN notes'
<1>1. \A id \in ids : LinksOf(id, notes') \subseteq SUBSET DOMAIN notes'
  BY LinksTyped
<1> QED
  BY <1>1 DEF Index

LEMMA SaveTyped ==
    ASSUME MemoryTypeOK, NEW id \in DOMAIN notes, NEW note \in Note, Save(id, note)
    PROVE  /\ notes' \in Notes /\ DOMAIN notes' = DOMAIN notes /\ synced' = synced
           /\ nodes' \subseteq DOMAIN notes' /\ edges' \subseteq SUBSET DOMAIN notes'
<1>1. id \in Ids
  BY NotesFacts DEF MemoryTypeOK, RepositoryTyped, TasksTyped
<1>2. notes' \in Notes /\ DOMAIN notes' = DOMAIN notes
  <2> DEFINE saved == [x \in {id} |-> note]
  <2>1. saved \in Notes /\ DOMAIN saved = {id}
    BY <1>1, OneNote
  <2>2. notes' = Over(saved, notes)
    BY DEF Save
  <2> HIDE DEF saved
  <2>3. notes' \in Notes
    BY <2>1, <2>2, OverNotes DEF MemoryTypeOK, RepositoryTyped, TasksTyped
  <2>4. DOMAIN notes' = {id} \cup DOMAIN notes
    BY <2>1, <2>2, OverDomain
  <2> QED
    BY <2>3, <2>4
<1>3. Index({id}, notes') /\ {id} \in SUBSET DOMAIN notes'
  BY <1>2 DEF Save
<1> QED
  BY <1>2, <1>3, IndexTyped DEF MemoryTypeOK, RepositoryTyped, TasksTyped, Save

LEMMA AdvancedTyped ==
    ASSUME MemoryTypeOK, Now.kind # "stop"
    PROVE  Advanced \in [step : DOMAIN Program, at : DriverPlaces, failed : BOOLEAN, seen : SUBSET Ids]
<1>1. driver.step + 1 \in DOMAIN Program
  BY ProgramEnd DEF MemoryTypeOK, RepositoryTyped, TasksTyped, Now
<1> QED
  BY <1>1 DEF Advanced, MemoryTypeOK, RepositoryTyped, TasksTyped, DriverPlaces

LEMMA FailedRequestTyped ==
    ASSUME MemoryTypeOK, Now.kind # "stop"
    PROVE  FailedRequest \in [step : DOMAIN Program, at : DriverPlaces, failed : BOOLEAN, seen : SUBSET Ids]
<1>1. Len(Turns) + 1 \in DOMAIN Program
  BY ProgramShape, MemoryAssumption
<1> QED
  BY <1>1, AdvancedTyped DEF FailedRequest, MemoryTypeOK, TasksTyped, DriverPlaces

-----------------------------------------------------------------------------
(* What each step that writes notes does to them. *)

\* The memories the requests before this one admitted, and the one this request has stored.
Past == {Program[i].id : i \in {j \in 1..(driver.step - 1) : Program[j].kind \in Requests}}
Fresh ==
    DOMAIN notes \cap Admitted
        \subseteq Past \cup (IF driver.at \in {"index", "enqueue"} THEN {Now.id} ELSE {})

\* What was read and is about to be written is what is there, with the change.
Copies ==
    /\ worker.at = "encode" => worker.note = Embedded(notes[worker.event])
    /\ worker.at = "score" => worker.note = Salient(notes[worker.event]) /\ notes[worker.event].encoded
    /\ actor.at = "consolidate" =>
          /\ actor.read \in Notes /\ DOMAIN actor.read \subseteq DOMAIN notes
          /\ \A id \in DOMAIN actor.read : actor.read[id] = notes[id]
          /\ actor.batch \subseteq DOMAIN actor.read

Made == Cardinality(DOMAIN notes \cap Abstractions)
Numbered == Made \in Nat /\ DOMAIN notes \cap Abstractions = 1..Made

\* No generation is later than the number of its abstraction.
Generations ==
    \A id \in DOMAIN notes : notes[id].generation <= (IF id \in Abstractions THEN id ELSE 0)

LEMMA SaveEffect ==
    ASSUME NEW id \in DOMAIN notes, NEW note, Save(id, note)
    PROVE  /\ DOMAIN notes' = DOMAIN notes /\ notes'[id] = note
           /\ \A x \in DOMAIN notes \ {id} : notes'[x] = notes[x]
<1> DEFINE saved == [x \in {id} |-> note]
<1>1. notes' = Over(saved, notes) /\ DOMAIN saved = {id} /\ saved[id] = note
  BY DEF Save
<1> HIDE DEF saved
<1>2. DOMAIN notes' = DOMAIN notes \cup {id} /\ notes'[id] = note
  BY <1>1 DEF Over
<1>3. \A x \in DOMAIN notes \ {id} : notes'[x] = notes[x]
  BY <1>1 DEF Over
<1> QED
  BY <1>2, <1>3

LEMMA EncodeEffect ==
    ASSUME MemoryTypeOK, Placed, Copies, Encode
    PROVE  /\ worker.event \in DOMAIN notes
           /\ notes' \in Notes /\ DOMAIN notes' = DOMAIN notes /\ synced' = synced
           /\ nodes' \subseteq DOMAIN notes' /\ edges' \subseteq SUBSET DOMAIN notes'
           /\ notes'[worker.event] = Embedded(notes[worker.event])
           /\ \A x \in DOMAIN notes \ {worker.event} : notes'[x] = notes[x]
<1>1. worker.event \in DOMAIN notes /\ worker.note = Embedded(notes[worker.event]) /\ Save(worker.event, worker.note)
  BY DEF Placed, Copies, Encode
<1>2. worker.note \in Note
  <2>1. notes[worker.event] \in Note
    BY <1>1, NotesFacts DEF MemoryTypeOK, RepositoryTyped, TasksTyped
  <2> QED
    BY <1>1, <2>1, UpdatedNotes
<1> QED
  BY <1>1, <1>2, SaveTyped, SaveEffect

LEMMA ScoreEffect ==
    ASSUME MemoryTypeOK, Placed, Copies, Score
    PROVE  /\ worker.event \in DOMAIN notes /\ notes[worker.event].encoded
           /\ notes' \in Notes /\ DOMAIN notes' = DOMAIN notes /\ synced' = synced
           /\ nodes' \subseteq DOMAIN notes' /\ edges' \subseteq SUBSET DOMAIN notes'
           /\ notes'[worker.event] = Salient(notes[worker.event])
           /\ \A x \in DOMAIN notes \ {worker.event} : notes'[x] = notes[x]
<1>1. worker.event \in DOMAIN notes /\ worker.note = Salient(notes[worker.event]) /\ Save(worker.event, worker.note)
      /\ notes[worker.event].encoded
  BY DEF Placed, Copies, Score
<1>2. worker.note \in Note
  <2>1. notes[worker.event] \in Note
    BY <1>1, NotesFacts DEF MemoryTypeOK, RepositoryTyped, TasksTyped
  <2> QED
    BY <1>1, <2>1, UpdatedNotes
<1> QED
  BY <1>1, <1>2, SaveTyped, SaveEffect

Decayed(note) == [Updated(note) EXCEPT !.decays = @ + 1]

LEMMA ConsolidateEffect ==
    ASSUME MemoryTypeOK, Copies, Consolidate
    PROVE  /\ notes' \in Notes /\ DOMAIN notes' = DOMAIN notes
           /\ nodes' \subseteq DOMAIN notes' /\ edges' \subseteq SUBSET DOMAIN notes'
           /\ DOMAIN actor.read \subseteq DOMAIN notes
           /\ \A x \in DOMAIN actor.read : notes'[x] = Decayed(notes[x])
           /\ \A x \in DOMAIN notes \ DOMAIN actor.read : notes'[x] = notes[x]
<1> DEFINE decayed == [id \in DOMAIN actor.read |-> [Updated(actor.read[id]) EXCEPT !.decays = @ + 1]]
<1>1. /\ actor.read \in Notes /\ DOMAIN actor.read \subseteq DOMAIN notes
      /\ \A id \in DOMAIN actor.read : actor.read[id] = notes[id]
  BY DEF Copies, Consolidate
<1>2. notes' = Over(decayed, notes) /\ Index(DOMAIN actor.read, notes')
  BY DEF Consolidate
<1>3. DOMAIN decayed = DOMAIN actor.read /\ \A x \in DOMAIN actor.read : decayed[x] = Decayed(notes[x])
  BY <1>1 DEF Decayed
<1> HIDE DEF decayed
<1>4. DOMAIN notes' = DOMAIN notes
  <2>1. DOMAIN notes' = DOMAIN decayed \cup DOMAIN notes
    BY <1>2, OverDomain
  <2> QED
    BY <1>1, <1>3, <2>1
<1>5. /\ \A x \in DOMAIN actor.read : notes'[x] = Decayed(notes[x])
      /\ \A x \in DOMAIN notes \ DOMAIN actor.read : notes'[x] = notes[x]
  <2>1. /\ \A x \in DOMAIN decayed : notes'[x] = decayed[x]
        /\ \A x \in DOMAIN notes \ DOMAIN decayed : notes'[x] = notes[x]
    BY <1>2 DEF Over
  <2> QED
    BY <1>3, <2>1
<1>6. notes' \in Notes
  <2>1. ASSUME NEW x \in DOMAIN notes PROVE notes'[x] \in Note
    <3>1. notes[x] \in Note
      BY NotesFacts DEF MemoryTypeOK, RepositoryTyped, TasksTyped
    <3>2. Decayed(notes[x]) \in Note
      BY <3>1, UpdatedNotes DEF Decayed
    <3> QED
      BY <1>5, <3>1, <3>2
  <2>2. notes' = [x \in DOMAIN notes |-> notes'[x]]
    BY <1>2, <1>4 DEF Over
  <2>3. notes' \in [DOMAIN notes -> Note]
    BY <2>1, <2>2
  <2> QED
    BY <2>3, NotesFacts DEF MemoryTypeOK, RepositoryTyped, TasksTyped, Notes
<1>7. DOMAIN actor.read \in SUBSET DOMAIN notes'
  BY <1>1, <1>4
<1> QED
  BY <1>1, <1>2, <1>4, <1>5, <1>6, <1>7, IndexTyped DEF MemoryTypeOK, RepositoryTyped, TasksTyped

LEMMA StoreEffect ==
    ASSUME MemoryTypeOK, Placed, Fresh, Store
    PROVE  /\ Now.id \in Admitted \ DOMAIN notes
           /\ notes' \in Notes /\ DOMAIN notes' = DOMAIN notes \cup {Now.id}
           /\ notes'[Now.id] = Blank(WordsOf(Now.id))
           /\ \A x \in DOMAIN notes : notes'[x] = notes[x]
<1>1. driver.at = "store" /\ Now.kind \in Requests /\ driver.step \in DOMAIN Program
  BY DEF Store, Placed, MemoryTypeOK, RepositoryTyped, TasksTyped
<1>2. Now.id \in Admitted
  BY <1>1, RequestPlace DEF Now
<1>3. Now.id \notin Past
  <2> SUFFICES ASSUME NEW i \in 1..(driver.step - 1), Program[i].kind \in Requests, Program[i].id = Now.id PROVE FALSE
    BY DEF Past
  <2>1. i \in DOMAIN Program /\ i # driver.step
    BY <1>1, ProgramShape
  <2> QED
    BY <1>1, <2>1, ProgramFresh DEF Now
<1>4. Now.id \notin DOMAIN notes
  BY <1>1, <1>2, <1>3 DEF Fresh
<1> DEFINE stored == [id \in {Now.id} |-> Blank(Words[id])]
<1>5. notes' = Over(stored, notes)
  BY DEF Store
<1>6. stored = [id \in {Now.id} |-> Blank(WordsOf(Now.id))]
  BY <1>2, Apart
<1>7. Now.id \in Ids
  BY <1>2 DEF Ids
<1>8. stored \in Notes /\ DOMAIN stored = {Now.id} /\ stored[Now.id] = Blank(WordsOf(Now.id))
  BY <1>6, <1>7, BlankNote, OneNote
<1> HIDE DEF stored
<1>9. /\ DOMAIN notes' = DOMAIN notes \cup {Now.id} /\ notes'[Now.id] = Blank(WordsOf(Now.id))
      /\ \A x \in DOMAIN notes \ {Now.id} : notes'[x] = notes[x]
  BY <1>5, <1>8 DEF Over
<1>10. notes' \in Notes
  BY <1>5, <1>8, OverNotes DEF MemoryTypeOK, RepositoryTyped, TasksTyped
<1> QED
  BY <1>2, <1>4, <1>9, <1>10

-----------------------------------------------------------------------------
(* Evolution. *)

LEMMA LeastNatural ==
    ASSUME NEW S \in SUBSET Nat, S # {}
    PROVE  \E m \in S : \A k \in S : m <= k
<1> DEFINE R == OpToRel(<, Nat)
<1>1. IsWellFoundedOn(R, Nat)
  BY NatLessThanWellFounded
<1>2. \A x, y \in Nat : x < y => <<x, y>> \in R
  BY DEF OpToRel
<1> HIDE DEF R
<1>3. PICK m \in S : \A k \in S : <<k, m>> \notin R
  BY <1>1, WFMin
<1>4. \A k \in S : ~(k < m)
  BY <1>2, <1>3
<1> QED
  BY <1>4

LEMMA MaxOfBounded ==
    ASSUME NEW S \in SUBSET Nat, S # {}, NEW bound \in Nat, \A x \in S : x <= bound
    PROVE  Max(S) \in S /\ \A x \in S : x <= Max(S)
<1> DEFINE room == {bound - x : x \in S}
<1>1. room \in SUBSET Nat /\ room # {}
  <2>1. \A x \in S : bound - x \in Nat
    OBVIOUS
  <2>2. PICK x \in S : TRUE
    OBVIOUS
  <2> QED
    BY <2>1, <2>2
<1>2. PICK m \in room : \A k \in room : m <= k
  <2> HIDE DEF room
  <2> QED
    BY <1>1, LeastNatural
<1>3. PICK x \in S : m = bound - x
  BY <1>2
<1>4. \A y \in S : bound - x <= bound - y
  BY <1>2, <1>3
<1>5. \E y \in S : \A z \in S : y >= z
  BY <1>3, <1>4
<1>6. Max(S) \in S /\ \A z \in S : Max(S) >= z
  BY <1>5 DEF Max
<1> QED
  BY <1>6

LEMMA CommunityTyped ==
    ASSUME MemoryTypeOK, NEW cs \in Communities
    PROVE  /\ Len(cs) \in 0..2 /\ Len(cs) <= MaxAbstractions - Made
           /\ \A i \in 1..Len(cs) : cs[i] # {} /\ cs[i] \subseteq DOMAIN notes
<1> DEFINE parts == {Component(x) : x \in nodes}
           some == UNION {{c \in {part} \cup {{x, y} : x, y \in part} : Cardinality(c) > 1} : part \in parts}
<1>1. \A part \in parts : part \subseteq DOMAIN notes
  BY DEF Component, MemoryTypeOK, RepositoryTyped, TasksTyped
<1>2. \A c \in some : c # {} /\ c \subseteq DOMAIN notes
  <2> HIDE DEF parts
  <2> SUFFICES ASSUME NEW part \in parts, NEW c \in {part} \cup {{x, y} : x, y \in part}, Cardinality(c) > 1
               PROVE  c # {} /\ c \subseteq DOMAIN notes
    OBVIOUS
  <2>1. c # {}
    BY FS_EmptySet
  <2> QED
    BY <1>1, <2>1
<1>3. cs \in {<<>>} \cup {<<c>> : c \in some} \cup {<<c, d>> : c, d \in some} /\ Len(cs) <= MaxAbstractions - Made
  BY DEF Communities, Made
<1> HIDE DEF some
<1> QED
  BY <1>2, <1>3

LEMMA AbstractFacts ==
    ASSUME MemoryTypeOK, Numbered, Made < MaxAbstractions, Generations,
           NEW parents, parents # {}, parents \subseteq DOMAIN notes
    PROVE  /\ Abstract(parents) \in Note /\ Abstract(parents).words = Boilerplate
           /\ Abstract(parents).parents = parents /\ Abstract(parents).ancestors = Ancestors(parents)
           /\ Abstract(parents).origins = Origins(parents)
           /\ Abstract(parents).generation <= Made + 1
           /\ \A p \in parents : notes[p].generation < Abstract(parents).generation
<1> DEFINE gens == {notes[p].generation : p \in parents}
<1>1. MaxAbstractions \in Nat /\ Made \in Nat
  BY MemoryAssumption DEF Numbered
<1>2. \A id \in DOMAIN notes : notes[id] \in Note
  BY NotesFacts DEF MemoryTypeOK, RepositoryTyped, TasksTyped
<1>3. gens \in SUBSET Nat /\ gens # {}
  BY <1>2 DEF Note
<1>4. \A p \in parents : notes[p].generation <= Made
  <2> TAKE p \in parents
  <2>1. notes[p].generation \in Nat /\ notes[p].generation <= (IF p \in Abstractions THEN p ELSE 0)
    BY <1>2 DEF Generations, Note
  <2>2. p \in Abstractions => p \in 1..Made
    BY DEF Numbered
  <2> QED
    BY <1>1, <2>1, <2>2
<1>5. Max(gens) \in gens /\ \A x \in gens : x <= Max(gens)
  <2>1. \A x \in gens : x <= Made
    BY <1>4
  <2> HIDE DEF gens
  <2> QED
    BY <1>1, <1>3, <2>1, MaxOfBounded
<1>6. Max(gens) \in Nat /\ Max(gens) <= Made
  <2>1. PICK p \in parents : Max(gens) = notes[p].generation
    BY <1>5
  <2> QED
    BY <1>3, <1>4, <1>5, <2>1
<1>7. Ancestors(parents) \in SUBSET Ids /\ Origins(parents) \in SUBSET Ids /\ parents \in SUBSET Ids
  <2>1. DOMAIN notes \in SUBSET Ids
    BY NotesFacts DEF MemoryTypeOK, RepositoryTyped, TasksTyped
  <2>2. \A p \in parents : notes[p].ancestors \subseteq Ids /\ notes[p].parents \subseteq Ids /\ notes[p].origins \subseteq Ids
    BY <1>2 DEF Note
  <2> QED
    BY <2>1, <2>2 DEF Ancestors, Origins
<1>8. Boilerplate \in SUBSET Vocabulary
  <2>1. 1 \in Abstractions
    BY <1>1 DEF Abstractions
  <2>2. 1 \in Ids /\ WordsOf(1) = Boilerplate
    BY <2>1 DEF Ids, WordsOf
  <2> QED
    BY <2>2 DEF Vocabulary
<1>9. Abstract(parents) =
        [version |-> 2, words |-> Boilerplate, encoded |-> FALSE, scored |-> FALSE, decays |-> 0, parents |-> parents,
         ancestors |-> Ancestors(parents), origins |-> Origins(parents), generation |-> 1 + Max(gens)]
  <2> DEFINE a == Ancestors(parents)
             o == Origins(parents)
             g == 1 + Max(gens)
  <2>1. Abstract(parents) = [Blank(Boilerplate) EXCEPT !.version = 2, !.parents = parents, !.ancestors = a,
                                                       !.origins = o, !.generation = g]
    BY DEF Abstract
  <2> HIDE DEF a, o, g
  <2>2. Abstract(parents) = [version |-> 2, words |-> Boilerplate, encoded |-> FALSE, scored |-> FALSE, decays |-> 0,
                             parents |-> parents, ancestors |-> a, origins |-> o, generation |-> g]
    BY <2>1 DEF Blank
  <2> QED
    BY <2>2 DEF a, o, g
<1> HIDE DEF gens
<1>10. Abstract(parents) \in Note
  BY <1>6, <1>7, <1>8, <1>9 DEF Note
<1>11. /\ Abstract(parents).words = Boilerplate /\ Abstract(parents).parents = parents
       /\ Abstract(parents).ancestors = Ancestors(parents) /\ Abstract(parents).origins = Origins(parents)
       /\ Abstract(parents).generation = 1 + Max(gens)
  BY <1>9
<1>12. \A p \in parents : notes[p].generation \in gens /\ notes[p].generation \in Nat
  BY <1>2, <1>3 DEF gens, Note
<1> QED
  BY <1>1, <1>5, <1>6, <1>10, <1>11, <1>12

LEMMA EvolveEffect ==
    ASSUME MemoryTypeOK, Numbered, Generations, Evolve
    PROVE  \E cs \in Communities, new \in SUBSET Abstractions :
             /\ new = (Made + 1)..(Made + Len(cs)) /\ new \cap DOMAIN notes = {}
             /\ DOMAIN notes' = DOMAIN notes \cup new
             /\ \A x \in DOMAIN notes : notes'[x] = notes[x]
             /\ \A n \in new : /\ cs[n - Made] # {} /\ cs[n - Made] \subseteq DOMAIN notes
                               /\ notes'[n] = Abstract(cs[n - Made])
             /\ nodes' = nodes \cup new
             /\ edges' = edges \cup UNION {LinksOf(n, notes') \cup {{p, n} : p \in notes'[n].parents} : n \in new}
<1>1. PICK cs \in Communities :
         LET first == Cardinality(DOMAIN notes \cap Abstractions)
             new == [n \in (first + 1)..(first + Len(cs)) |-> Abstract(cs[n - first])]
         IN  /\ notes' = Over(new, notes)
             /\ nodes' = nodes \cup DOMAIN new
             /\ edges' = edges \cup UNION {LinksOf(n, notes') \cup {{p, n} : p \in notes'[n].parents}
                                            : n \in DOMAIN new}
  BY DEF Evolve
<1> DEFINE made == [n \in (Made + 1)..(Made + Len(cs)) |-> Abstract(cs[n - Made])]
           new == (Made + 1)..(Made + Len(cs))
<1>2. /\ notes' = Over(made, notes) /\ nodes' = nodes \cup DOMAIN made
      /\ edges' = edges \cup UNION {LinksOf(n, notes') \cup {{p, n} : p \in notes'[n].parents} : n \in DOMAIN made}
  BY <1>1, Zenon DEF Made
<1>3. /\ Len(cs) \in 0..2 /\ Len(cs) <= MaxAbstractions - Made /\ Made \in Nat /\ MaxAbstractions \in Nat
      /\ \A i \in 1..Len(cs) : cs[i] # {} /\ cs[i] \subseteq DOMAIN notes
  BY CommunityTyped, MemoryAssumption DEF Numbered
<1>4. DOMAIN made = new /\ \A n \in new : made[n] = Abstract(cs[n - Made])
  OBVIOUS
<1>5. new \in SUBSET Abstractions /\ new \cap (1..Made) = {}
  BY <1>3 DEF Abstractions
<1>6. new \cap DOMAIN notes = {}
  BY <1>5 DEF Numbered
<1>7. \A n \in new : n - Made \in 1..Len(cs)
  BY <1>3
<1> HIDE DEF made
<1>8. /\ DOMAIN notes' = DOMAIN notes \cup new
      /\ nodes' = nodes \cup new
      /\ edges' = edges \cup UNION {LinksOf(n, notes') \cup {{p, n} : p \in notes'[n].parents} : n \in new}
  <2> HIDE DEF new
  <2>1. DOMAIN notes' = DOMAIN made \cup DOMAIN notes
    BY <1>2 DEF Over
  <2> QED
    BY <1>2, <1>4, <2>1
<1>9. /\ \A n \in new : notes'[n] = Abstract(cs[n - Made])
      /\ \A x \in DOMAIN notes : notes'[x] = notes[x]
  <2> HIDE DEF new
  <2>1. \A x \in DOMAIN made : notes'[x] = made[x]
    BY <1>2 DEF Over
  <2>2. \A x \in DOMAIN notes \ DOMAIN made : notes'[x] = notes[x]
    BY <1>2 DEF Over
  <2> QED
    BY <1>4, <1>6, <2>1, <2>2
<1>10. \A n \in new : cs[n - Made] # {} /\ cs[n - Made] \subseteq DOMAIN notes
  BY <1>3, <1>7
<1> HIDE DEF new
<1> QED
  BY <1>5, <1>6, <1>8, <1>9, <1>10, Zenon DEF new

LEMMA Evolved ==
    ASSUME MemoryTypeOK, Numbered, Generations, Evolve
    PROVE  \E k \in Nat :
             LET new == (Made + 1)..(Made + k)
             IN  /\ Made + k <= MaxAbstractions /\ new \subseteq Abstractions /\ new \cap DOMAIN notes = {}
                 /\ notes' \in Notes /\ DOMAIN notes' = DOMAIN notes \cup new
                 /\ \A x \in DOMAIN notes : notes'[x] = notes[x]
                 /\ nodes' = nodes \cup new
                 /\ edges' = edges \cup UNION {LinksOf(n, notes') \cup {{p, n} : p \in notes'[n].parents} : n \in new}
                 /\ \A n \in new :
                       /\ notes'[n].parents # {} /\ notes'[n].parents \subseteq DOMAIN notes
                       /\ notes'[n].words = Boilerplate
                       /\ notes'[n].ancestors = Ancestors(notes'[n].parents)
                       /\ notes'[n].origins = Origins(notes'[n].parents)
                       /\ notes'[n].generation <= n
                       /\ \A p \in notes'[n].parents : notes[p].generation < notes'[n].generation
<1>1. PICK cs \in Communities, new \in SUBSET Abstractions :
             /\ new = (Made + 1)..(Made + Len(cs)) /\ new \cap DOMAIN notes = {}
             /\ DOMAIN notes' = DOMAIN notes \cup new
             /\ \A x \in DOMAIN notes : notes'[x] = notes[x]
             /\ \A n \in new : /\ cs[n - Made] # {} /\ cs[n - Made] \subseteq DOMAIN notes
                               /\ notes'[n] = Abstract(cs[n - Made])
             /\ nodes' = nodes \cup new
             /\ edges' = edges \cup UNION {LinksOf(n, notes') \cup {{p, n} : p \in notes'[n].parents} : n \in new}
  BY EvolveEffect
<1>2. Len(cs) \in Nat /\ Made \in Nat /\ MaxAbstractions \in Nat /\ Made + Len(cs) <= MaxAbstractions
  BY CommunityTyped, MemoryAssumption DEF Numbered
<1>3. ASSUME NEW n \in new
      PROVE  /\ notes'[n] \in Note
             /\ notes'[n].parents # {} /\ notes'[n].parents \subseteq DOMAIN notes
             /\ notes'[n].words = Boilerplate
             /\ notes'[n].ancestors = Ancestors(notes'[n].parents)
             /\ notes'[n].origins = Origins(notes'[n].parents)
             /\ notes'[n].generation <= n
             /\ \A p \in notes'[n].parents : notes[p].generation < notes'[n].generation
  <2> DEFINE c == cs[n - Made]
  <2>1. c # {} /\ c \subseteq DOMAIN notes /\ notes'[n] = Abstract(c)
    BY <1>1, <1>3
  <2>2. n \in Nat /\ Made + 1 <= n /\ Made < MaxAbstractions
    BY <1>1, <1>2, <1>3
  <2> HIDE DEF c
  <2>3. /\ notes'[n] \in Note /\ notes'[n].words = Boilerplate
        /\ notes'[n].parents = c /\ notes'[n].ancestors = Ancestors(c)
        /\ notes'[n].origins = Origins(c)
        /\ notes'[n].generation <= Made + 1
        /\ \A p \in c : notes[p].generation < notes'[n].generation
    BY <2>1, <2>2, AbstractFacts
  <2>4. notes'[n].generation <= n
    BY <1>2, <2>2, <2>3 DEF Note
  <2> QED
    BY <2>1, <2>3, <2>4
<1>4. notes' \in Notes
  <2>1. \A x \in DOMAIN notes' : notes'[x] \in Note
    BY <1>1, <1>3, NotesFacts DEF MemoryTypeOK, RepositoryTyped, TasksTyped
  <2>2. DOMAIN notes' \in SUBSET Ids
    <3>1. Abstractions \subseteq Ids /\ DOMAIN notes \subseteq Ids
      BY NotesFacts DEF MemoryTypeOK, RepositoryTyped, TasksTyped, Ids
    <3> QED
      BY <1>1, <3>1
  <2>3. notes' = [x \in DOMAIN notes' |-> notes'[x]]
    BY DEF Evolve, Over
  <2> QED
    BY <2>1, <2>2, <2>3 DEF Notes
<1> WITNESS Len(cs) \in Nat
<1> QED
  BY <1>1, <1>2, <1>3, <1>4

-----------------------------------------------------------------------------
(* What no step does to a note. *)

SameOrigin(n, m) ==
    /\ m.words = n.words /\ m.parents = n.parents /\ m.ancestors = n.ancestors
    /\ m.origins = n.origins /\ m.generation = n.generation

Succeeds(n, m) ==
    /\ SameOrigin(n, m)
    /\ m # n => m.version > n.version
    /\ n.encoded => m.encoded
    /\ n.scored => m.scored
    /\ m.decays >= n.decays

LEMMA UpdatesSucceed ==
    ASSUME NEW n \in Note
    PROVE  /\ Succeeds(n, n) /\ Succeeds(n, Embedded(n)) /\ Succeeds(n, Salient(n)) /\ Succeeds(n, Decayed(n))
           /\ Embedded(n).encoded /\ Salient(n).scored /\ Decayed(n).decays > 0
           /\ (Embedded(n).scored <=> n.scored) /\ (Salient(n).encoded <=> n.encoded)
           /\ (Decayed(n).encoded <=> n.encoded) /\ (Decayed(n).scored <=> n.scored)
<1>1. Succeeds(n, n)
  BY DEF Succeeds, SameOrigin, Note
<1>2. Succeeds(n, Embedded(n)) /\ Embedded(n).encoded /\ (Embedded(n).scored <=> n.scored)
  BY DEF Succeeds, SameOrigin, Note, Embedded, Updated
<1>3. Succeeds(n, Salient(n)) /\ Salient(n).scored /\ (Salient(n).encoded <=> n.encoded)
  BY DEF Succeeds, SameOrigin, Note, Salient, Updated
<1>4. Succeeds(n, Decayed(n)) /\ Decayed(n).decays > 0 /\ (Decayed(n).encoded <=> n.encoded) /\ (Decayed(n).scored <=> n.scored)
  BY DEF Succeeds, SameOrigin, Note, Decayed, Updated
<1> QED
  BY <1>1, <1>2, <1>3, <1>4

LEMMA NotesChange ==
    ASSUME [MemoryNext]_memoryVars
    PROVE  notes' = notes \/ Encode \/ Score \/ Consolidate \/ Store \/ Evolve
<1>1. CASE UNCHANGED memoryVars
  BY <1>1 DEF memoryVars
<1>2. CASE Worker
  BY <1>2 DEF Worker, Take, Read, Done, Swap, repository
<1>3. CASE Thread
  BY <1>3 DEF Thread, Rebuild
<1>4. CASE Driver
  BY <1>4 DEF Driver, BeginTurn, BeginQuestion, EnsureGraphIndex, SearchEnds, IndexStored, Enqueue, RecordFailed,
              Barrier, Stop, Join, Swap, AfterFlush, StopRaises, repository
<1>5. CASE HandlerRaises \/ FlushRaises \/ SearchRaises \/ RequestFails \/ CommitFails
  BY <1>5 DEF HandlerRaises, FlushRaises, SearchRaises, RequestFails, CommitFails, repository
<1> QED
  BY <1>1, <1>2, <1>3, <1>4, <1>5 DEF MemoryNext

LEMMA NotesStep ==
    ASSUME MemoryTypeOK, Placed, Copies, Fresh, Numbered, Generations, [MemoryNext]_memoryVars
    PROVE  /\ notes' \in Notes
           /\ \A x \in DOMAIN notes : x \in DOMAIN notes' /\ Succeeds(notes[x], notes'[x])
<1>1. \A x \in DOMAIN notes : notes[x] \in Note
  BY NotesFacts DEF MemoryTypeOK, RepositoryTyped, TasksTyped
<1>2. CASE notes' = notes
  BY <1>1, <1>2, UpdatesSucceed DEF MemoryTypeOK, RepositoryTyped, TasksTyped
<1>3. CASE Encode
  <2>1. /\ worker.event \in DOMAIN notes /\ notes' \in Notes /\ DOMAIN notes' = DOMAIN notes
        /\ notes'[worker.event] = Embedded(notes[worker.event])
        /\ \A x \in DOMAIN notes \ {worker.event} : notes'[x] = notes[x]
    BY <1>3, EncodeEffect
  <2>2. ASSUME NEW x \in DOMAIN notes PROVE Succeeds(notes[x], notes'[x])
    BY <1>1, <2>1, UpdatesSucceed
  <2> QED
    BY <2>1, <2>2
<1>4. CASE Score
  <2>1. /\ worker.event \in DOMAIN notes /\ notes' \in Notes /\ DOMAIN notes' = DOMAIN notes
        /\ notes'[worker.event] = Salient(notes[worker.event])
        /\ \A x \in DOMAIN notes \ {worker.event} : notes'[x] = notes[x]
    BY <1>4, ScoreEffect
  <2>2. ASSUME NEW x \in DOMAIN notes PROVE Succeeds(notes[x], notes'[x])
    BY <1>1, <2>1, UpdatesSucceed
  <2> QED
    BY <2>1, <2>2
<1>5. CASE Consolidate
  <2>1. /\ notes' \in Notes /\ DOMAIN notes' = DOMAIN notes
        /\ \A x \in DOMAIN actor.read : notes'[x] = Decayed(notes[x])
        /\ \A x \in DOMAIN notes \ DOMAIN actor.read : notes'[x] = notes[x]
    BY <1>5, ConsolidateEffect
  <2>2. ASSUME NEW x \in DOMAIN notes PROVE Succeeds(notes[x], notes'[x])
    BY <1>1, <2>1, UpdatesSucceed
  <2> QED
    BY <2>1, <2>2
<1>6. CASE Store
  <2>1. notes' \in Notes /\ DOMAIN notes' = DOMAIN notes \cup {Now.id} /\ \A x \in DOMAIN notes : notes'[x] = notes[x]
    BY <1>6, StoreEffect
  <2> QED
    BY <1>1, <2>1, UpdatesSucceed
<1>7. CASE Evolve
  <2>1. /\ notes' \in Notes /\ DOMAIN notes \subseteq DOMAIN notes'
        /\ \A x \in DOMAIN notes : notes'[x] = notes[x]
    BY <1>7, Evolved
  <2> QED
    BY <1>1, <2>1, UpdatesSucceed
<1> QED
  BY <1>2, <1>3, <1>4, <1>5, <1>6, <1>7, NotesChange

-----------------------------------------------------------------------------
(* The numbers and generations of abstractions. *)

LEMMA NumberedStep ==
    ASSUME MemoryTypeOK, Placed, Copies, Fresh, Numbered, Generations, [MemoryNext]_memoryVars
    PROVE  Numbered' /\ Generations'
<1>1. /\ notes' \in Notes
      /\ \A x \in DOMAIN notes : x \in DOMAIN notes' /\ Succeeds(notes[x], notes'[x])
  BY NotesStep
<1>2. ASSUME DOMAIN notes' \cap Abstractions = DOMAIN notes \cap Abstractions
      PROVE  Numbered'
  BY <1>2 DEF Numbered, Made
<1>3. ASSUME NEW x \in DOMAIN notes
      PROVE  notes'[x].generation <= (IF x \in Abstractions THEN x ELSE 0)
  BY <1>1 DEF Generations, Succeeds, SameOrigin
<1>4. CASE DOMAIN notes' = DOMAIN notes
  BY <1>2, <1>3, <1>4 DEF Generations
<1>5. CASE Store
  <2>1. Now.id \in Admitted \ DOMAIN notes /\ DOMAIN notes' = DOMAIN notes \cup {Now.id}
        /\ notes'[Now.id] = Blank(WordsOf(Now.id))
    BY <1>5, StoreEffect
  <2>2. Now.id \notin Abstractions
    BY <2>1, Apart
  <2>3. notes'[Now.id].generation = 0
    BY <2>1 DEF Blank
  <2> QED
    BY <1>2, <1>3, <2>1, <2>2, <2>3 DEF Generations
<1>6. CASE Evolve
  <2>1. PICK k \in Nat :
             LET new == (Made + 1)..(Made + k)
             IN  /\ new \subseteq Abstractions /\ new \cap DOMAIN notes = {}
                 /\ DOMAIN notes' = DOMAIN notes \cup new
                 /\ \A n \in new : notes'[n].generation <= n
    BY <1>6, Evolved
  <2> DEFINE new == (Made + 1)..(Made + k)
  <2>2. /\ new \subseteq Abstractions /\ DOMAIN notes' = DOMAIN notes \cup new
        /\ \A n \in new : notes'[n].generation <= n
    BY <2>1
  <2>3. Made \in Nat /\ DOMAIN notes \cap Abstractions = 1..Made
    BY DEF Numbered
  <2>4. DOMAIN notes' \cap Abstractions = 1..(Made + k)
    <3>1. DOMAIN notes' \cap Abstractions = (1..Made) \cup new
      BY <2>2, <2>3
    <3>2. (1..Made) \cup new = 1..(Made + k)
      BY <2>3
    <3> QED
      BY <3>1, <3>2
  <2>5. Made' = Made + k
    <3> DEFINE last == Made + k
    <3>0. last \in Nat
      BY <2>3
    <3>1. Cardinality(1..last) = last
      <4> HIDE DEF last
      <4>1. Cardinality(1..last) = (IF 1 > last THEN 0 ELSE last - 1 + 1)
        BY <3>0, FS_Interval
      <4> QED
        BY <3>0, <4>1
    <3> QED
      BY <2>4, <3>1 DEF Made
  <2>6. Numbered'
    BY <2>3, <2>4, <2>5 DEF Numbered
  <2> HIDE DEF new
  <2> QED
    BY <1>3, <2>2, <2>6 DEF Generations
<1>7. CASE Encode \/ Score \/ Consolidate
  BY <1>4, <1>7, EncodeEffect, ScoreEffect, ConsolidateEffect
<1> QED
  BY <1>4, <1>5, <1>6, <1>7, NotesChange

LEMMA RepositoryStep ==
    ASSUME MemoryTypeOK, Placed, Copies, Fresh, Numbered, Generations, [MemoryNext]_memoryVars
    PROVE  RepositoryTyped'
<1>1. notes' \in Notes /\ DOMAIN notes \subseteq DOMAIN notes'
  BY NotesStep
<1>2. CASE UNCHANGED repository
  BY <1>2 DEF repository, MemoryTypeOK, RepositoryTyped
<1>3. CASE Encode
  BY <1>1, <1>3, EncodeEffect DEF MemoryTypeOK, RepositoryTyped
<1>4. CASE Score
  BY <1>1, <1>4, ScoreEffect DEF MemoryTypeOK, RepositoryTyped
<1>5. CASE Consolidate
  BY <1>1, <1>5, ConsolidateEffect DEF MemoryTypeOK, RepositoryTyped, Consolidate
<1>6. CASE Store
  BY <1>1, <1>6 DEF MemoryTypeOK, RepositoryTyped, Store
<1>7. CASE Evolve
  <2>1. PICK k \in Nat :
             LET new == (Made + 1)..(Made + k)
             IN  /\ DOMAIN notes' = DOMAIN notes \cup new
                 /\ nodes' = nodes \cup new
                 /\ edges' = edges \cup UNION {LinksOf(n, notes') \cup {{p, n} : p \in notes'[n].parents} : n \in new}
                 /\ \A n \in new : notes'[n].parents \subseteq DOMAIN notes
    BY <1>7, Evolved
  <2> DEFINE new == (Made + 1)..(Made + k)
  <2>2. /\ DOMAIN notes' = DOMAIN notes \cup new /\ nodes' = nodes \cup new
        /\ edges' = edges \cup UNION {LinksOf(n, notes') \cup {{p, n} : p \in notes'[n].parents} : n \in new}
        /\ \A n \in new : notes'[n].parents \subseteq DOMAIN notes
    BY <2>1
  <2> HIDE DEF new
  <2>3. \A n \in new : LinksOf(n, notes') \subseteq SUBSET DOMAIN notes'
    BY <2>2, LinksTyped
  <2>4. edges' \subseteq SUBSET DOMAIN notes'
    BY <2>2, <2>3 DEF MemoryTypeOK, RepositoryTyped
  <2> QED
    BY <1>1, <1>7, <2>2, <2>4 DEF MemoryTypeOK, RepositoryTyped, Evolve
<1>8. CASE BeginQuestion
  <2>1. notes' = notes /\ synced' = TRUE /\ (UNCHANGED <<nodes, edges>> \/ Index(DOMAIN notes \ nodes, notes))
    BY <1>8 DEF BeginQuestion, EnsureGraphIndex
  <2>2. CASE Index(DOMAIN notes \ nodes, notes)
    <3>1. DOMAIN notes \ nodes \in SUBSET DOMAIN notes' /\ Index(DOMAIN notes \ nodes, notes')
      BY <2>1, <2>2
    <3> QED
      BY <1>1, <2>1, <3>1, IndexTyped DEF MemoryTypeOK, RepositoryTyped
  <2> QED
    BY <1>1, <2>1, <2>2 DEF MemoryTypeOK, RepositoryTyped
<1>9. CASE IndexStored
  <2>1. {Now.id} \in SUBSET DOMAIN notes' /\ Index({Now.id}, notes') /\ UNCHANGED <<notes, synced>>
    BY <1>9 DEF IndexStored, Placed
  <2> QED
    BY <1>1, <2>1, IndexTyped DEF MemoryTypeOK, RepositoryTyped
<1>10. CASE Rebuild
  <2> DEFINE episodic == DOMAIN notes \cap Admitted
  <2>1. UNCHANGED <<notes, synced>> /\ nodes' = nodes \cup episodic
        /\ edges' = edges \cup UNION {LinksOf(id, notes) \cap SUBSET episodic : id \in episodic}
    BY <1>10 DEF Rebuild
  <2>2. UNION {LinksOf(id, notes) \cap SUBSET episodic : id \in episodic} \subseteq SUBSET DOMAIN notes
    BY LinksTyped
  <2> QED
    BY <1>1, <2>1, <2>2 DEF MemoryTypeOK, RepositoryTyped
<1>11. CASE Worker
  BY <1>2, <1>3, <1>4, <1>11 DEF Worker, Take, Read, Done, Swap
<1>12. CASE Driver
  BY <1>2, <1>6, <1>8, <1>9, <1>12 DEF Driver, BeginTurn, SearchEnds, Enqueue, RecordFailed,
              Barrier, Stop, Join, Swap, AfterFlush, StopRaises
<1>13. CASE HandlerRaises \/ FlushRaises \/ SearchRaises \/ RequestFails
  BY <1>2, <1>13 DEF HandlerRaises, FlushRaises, SearchRaises, RequestFails
<1>14. CASE UNCHANGED memoryVars
  BY <1>2, <1>14 DEF memoryVars, repository
<1>15. CASE CommitFails
  <2>1. Now.id \in DOMAIN notes
    BY <1>15 DEF CommitFails, Placed
  <2> QED
    BY <1>1, <1>15, <2>1 DEF CommitFails, MemoryTypeOK, RepositoryTyped
<1> QED
  BY <1>5, <1>7, <1>10, <1>11, <1>12, <1>13, <1>14, <1>15 DEF MemoryNext, Thread

LEMMA SequenceFacts ==
    ASSUME NEW S, NEW s \in Seq(S)
    PROVE  /\ Len(s) \in Nat /\ ToSet(s) \subseteq S
           /\ s # <<>> => Head(s) = s[1] /\ Head(s) \in S /\ Tail(s) \in Seq(S)
           /\ \A x \in S : Append(s, x) \in Seq(S)
  BY DEF ToSet

LEMMA FailedTyped ==
    ASSUME TasksTyped
    PROVE  Failed(worker) \in [at : WorkerPlaces, event : Admitted \cup {Nothing}, note : Note \cup {Nothing}, tries : Nat]
<1>1. Idle \in [at : WorkerPlaces, event : Admitted \cup {Nothing}, note : Note \cup {Nothing}, tries : Nat]
  BY DEF Idle, WorkerPlaces
<1>2. worker.tries + 1 \in Nat /\ "read" \in WorkerPlaces
  BY DEF TasksTyped, WorkerPlaces
<1>3. [worker EXCEPT !.at = "read", !.note = Nothing, !.tries = worker.tries + 1]
          \in [at : WorkerPlaces, event : Admitted \cup {Nothing}, note : Note \cup {Nothing}, tries : Nat]
  <2> DEFINE n == worker.tries + 1
  <2>1. n \in Nat
    BY <1>2
  <2> HIDE DEF n
  <2>2. [worker EXCEPT !.at = "read", !.note = Nothing, !.tries = n]
          \in [at : WorkerPlaces, event : Admitted \cup {Nothing}, note : Note \cup {Nothing}, tries : Nat]
    BY <1>2, <2>1 DEF TasksTyped
  <2> QED
    BY <2>2 DEF n
<1> QED
  BY <1>1, <1>3 DEF Failed

LEMMA QueueFacts ==
    ASSUME NEW S, NEW s \in Seq(S)
    PROVE  /\ s # <<>> => Head(s) \in ToSet(s) /\ ToSet(Tail(s)) \subseteq ToSet(s)
                          /\ ToSet(s) = {Head(s)} \cup ToSet(Tail(s))
           /\ \A x \in S : ToSet(Append(s, x)) = ToSet(s) \cup {x}
           /\ s = <<>> <=> ToSet(s) = {}
<1>1. Len(s) \in Nat /\ DOMAIN s = 1..Len(s)
  OBVIOUS
<1>2. ASSUME s # <<>>
      PROVE  Head(s) \in ToSet(s) /\ ToSet(Tail(s)) \subseteq ToSet(s) /\ ToSet(s) = {Head(s)} \cup ToSet(Tail(s))
  <2>1. /\ Head(s) = s[1] /\ 1 \in DOMAIN s /\ DOMAIN Tail(s) = 1..(Len(s) - 1)
        /\ \A i \in 1..(Len(s) - 1) : Tail(s)[i] = s[i + 1] /\ i + 1 \in DOMAIN s
    BY <1>1, <1>2
  <2>2. ToSet(Tail(s)) = {s[i + 1] : i \in 1..(Len(s) - 1)}
    BY <2>1 DEF ToSet
  <2>3. ToSet(s) = {s[i] : i \in 1..Len(s)}
    BY <1>1 DEF ToSet
  <2>4. \A i \in 1..Len(s) : i = 1 \/ (i - 1 \in 1..(Len(s) - 1) /\ i = (i - 1) + 1)
    BY <1>1
  <2>5. \A i \in 1..Len(s) : s[i] = Head(s) \/ s[i] \in ToSet(Tail(s))
    BY <2>1, <2>2, <2>4
  <2> QED
    BY <1>1, <2>1, <2>2, <2>3, <2>5
<1>3. ASSUME NEW x \in S PROVE ToSet(Append(s, x)) = ToSet(s) \cup {x}
  <2> DEFINE t == Append(s, x)
  <2>1. DOMAIN t = 1..(Len(s) + 1) /\ t[Len(s) + 1] = x
    BY <1>1
  <2>2. \A i \in 1..Len(s) : t[i] = s[i]
    BY <1>1
  <2> HIDE DEF t
  <2>3. \A i \in 1..(Len(s) + 1) : i \in 1..Len(s) \/ i = Len(s) + 1
    BY <1>1
  <2>4. \A i \in 1..Len(s) : i \in 1..(Len(s) + 1)
    BY <1>1
  <2>5. Len(s) + 1 \in 1..(Len(s) + 1)
    BY <1>1
  <2>6. ToSet(t) = ToSet(s) \cup {x}
    BY <1>1, <2>1, <2>2, <2>3, <2>4, <2>5 DEF ToSet
  <2> QED
    BY <2>6 DEF t
<1>4. s = <<>> <=> ToSet(s) = {}
  <2>1. s # <<>> => ToSet(s) # {}
    BY <1>2
  <2>2. s = <<>> => ToSet(s) = {}
    BY DEF ToSet
  <2> QED
    BY <2>1, <2>2
<1> QED
  BY <1>2, <1>3, <1>4

\* What an enqueue does to the queue and to the failure store.
LEMMA EnqueueEffect ==
    ASSUME TasksTyped, Placed, Enqueue
    PROVE  \E new \in Admitted :
              /\ new = Now.id /\ new \in DOMAIN notes
              /\ queue' \in Seq(Admitted) /\ failures' \subseteq Admitted
              /\ ToSet(queue) \subseteq ToSet(queue') /\ ToSet(queue') \subseteq ToSet(queue) \cup {new}
              /\ new \in ToSet(queue') \/ new \in failures'
<1> USE DEF TasksTyped
<1>1. Now.id \in Admitted /\ Now.id \in DOMAIN notes
  BY RequestPlace DEF Enqueue, Placed, Now
<1>2. PICK new \in Admitted : new = Now.id
  BY <1>1
<1>3. CASE Len(queue) < Capacity
  <2>1. queue' = Append(queue, new) /\ failures' = failures
    BY <1>2, <1>3 DEF Enqueue
  <2>2. queue' \in Seq(Admitted) /\ ToSet(queue') = ToSet(queue) \cup {new}
    BY <2>1, SequenceFacts, QueueFacts
  <2> QED
    BY <1>1, <1>2, <2>1, <2>2
<1>4. CASE ~(Len(queue) < Capacity)
  <2>1. queue' = queue /\ failures' = failures \cup {new}
    BY <1>2, <1>4 DEF Enqueue
  <2> QED
    BY <1>1, <1>2, <2>1
<1> QED
  BY <1>3, <1>4

LEMMA TasksStep ==
    ASSUME MemoryTypeOK, Placed, Copies, Exclusive, RepositoryTyped', [MemoryNext]_memoryVars
    PROVE  TasksTyped'
<1> USE DEF MemoryTypeOK, TasksTyped, fates
<1>n. Nothing \notin Admitted /\ MaxFaults \in Nat /\ Retries \in Nat
  BY MemoryAssumption
<1>1. CASE UNCHANGED memoryVars
  BY <1>1 DEF memoryVars
<1>2. CASE Take
  BY <1>2, SequenceFacts DEF Take, WorkerPlaces
<1>3. CASE Read
  <2>1. Embedded(notes[worker.event]) \in Note
    BY <1>3, NotesFacts, UpdatedNotes DEF Read, Placed, RepositoryTyped
  <2> QED
    BY <1>3, <2>1 DEF Read, WorkerPlaces
<1>4. CASE Encode
  <2>1. worker.note \in Note /\ Salient(worker.note) \in Note
    <3>1. notes[worker.event] \in Note
      BY <1>4, NotesFacts DEF Encode, Placed, RepositoryTyped
    <3>2. worker.note \in Note
      BY <1>4, <3>1, UpdatedNotes DEF Encode, Copies
    <3> QED
      BY <3>2, UpdatedNotes
  <2> QED
    BY <1>4, <2>1 DEF Encode, WorkerPlaces
<1>5. CASE Score
  <2>1. pending' \in Seq(Admitted)
    BY <1>5, SequenceFacts DEF Score, Placed
  <2> QED
    BY <1>5, <2>1 DEF Score, WorkerPlaces
<1>6. CASE Done
  BY <1>6 DEF Done, Idle, WorkerPlaces
<1>7. CASE HandlerRaises
  <2>1. worker' \in [at : WorkerPlaces, event : Admitted \cup {Nothing}, note : Note \cup {Nothing}, tries : Nat]
    BY <1>7, FailedTyped DEF HandlerRaises
  <2>2. failures' \subseteq Admitted
    BY <1>7 DEF HandlerRaises, GivenUp, Placed
  <2> QED
    BY <1>n, <1>7, <2>1, <2>2 DEF HandlerRaises
<1>8. ASSUME NEW task \in {"worker", "driver"}, Swap(task) PROVE TasksTyped'
  <2>1. notes \in Notes /\ ToSet(pending) \subseteq Admitted
    BY SequenceFacts DEF RepositoryTyped
  <2>2. actor' \in [task : {"worker", "driver", Nothing}, at : {"off", "consolidate", "rebuild", "evolve"},
                  batch : SUBSET Admitted, read : Notes \cup {Nothing}]
    BY <1>8, <2>1 DEF Swap
  <2> QED
    BY <1>8, <2>2 DEF Swap
<1>9. CASE Consolidate
  BY <1>9 DEF Consolidate
<1>10. CASE Rebuild
  BY <1>10 DEF Rebuild
<1>11. CASE Evolve
  <2>1. UNCHANGED <<queue, pending, mode, fates, faults>> /\ actor' = NoActor /\ Returned(actor.task)
    BY <1>11 DEF Evolve
  <2> QED
    BY <2>1 DEF Returned, NoActor, WorkerPlaces, DriverPlaces
<1>12. CASE FlushRaises
  <2>1. worker' \in [at : WorkerPlaces, event : Admitted \cup {Nothing}, note : Note \cup {Nothing}, tries : Nat]
    BY <1>12, FailedTyped DEF FlushRaises
  <2>2. driver' \in [step : DOMAIN Program, at : DriverPlaces, failed : BOOLEAN, seen : SUBSET Ids]
    BY <1>12 DEF FlushRaises, DriverPlaces
  <2>3. failures' \subseteq Admitted /\ lost' \subseteq Admitted
    BY <1>12 DEF FlushRaises, GivenUp, Placed, Exclusive
  <2> QED
    BY <1>n, <1>12, <2>1, <2>2, <2>3 DEF FlushRaises, NoActor
<1> DEFINE D == [step : DOMAIN Program, at : DriverPlaces, failed : BOOLEAN, seen : SUBSET Ids]
<1>13. CASE BeginTurn \/ SearchEnds \/ Store \/ IndexStored \/ Join \/ StopRaises
  BY <1>13, ZenonT(30) DEF BeginTurn, SearchEnds, Store, IndexStored, Join, StopRaises, DriverPlaces
<1>14. CASE BeginQuestion
  <2>1. nodes' \subseteq Ids
    BY NotesFacts DEF RepositoryTyped, Notes
  <2> QED
    BY <1>14, <2>1 DEF BeginQuestion, DriverPlaces
<1>15. CASE Enqueue
  <2>1. Now.kind # "stop"
    BY <1>15 DEF Enqueue, Placed, Requests
  <2>2. queue' \in Seq(Admitted) /\ failures' \subseteq Admitted
    BY <1>15, EnqueueEffect
  <2> QED
    BY <1>15, <2>1, <2>2, AdvancedTyped DEF Enqueue
<1>16. CASE SearchRaises
  <2>1. Now.kind # "stop"
    BY <1>16 DEF SearchRaises, Placed
  <2> QED
    BY <1>16, <2>1, AdvancedTyped DEF SearchRaises
<1>17. CASE RequestFails
  <2>1. driver' \in D
    BY <1>17, FailedRequestTyped DEF RequestFails
  <2> QED
    BY <1>n, <1>17, <2>1 DEF RequestFails
<1>22. CASE CommitFails
  <2>1. Now.kind \in Requests /\ Now.id \in Admitted
    BY <1>22, RequestPlace DEF CommitFails, Placed, Now
  <2>2. driver' \in D
    BY <1>22, <2>1, FailedRequestTyped DEF CommitFails, Requests
  <2>3. unqueued' \subseteq Admitted /\ unlinked' \subseteq Admitted
    BY <1>22, <2>1 DEF CommitFails
  <2> QED
    BY <1>n, <1>22, <2>2, <2>3 DEF CommitFails
<1>18. CASE RecordFailed
  <2>1. Now.kind # "stop"
    BY <1>18, StepFields DEF RecordFailed
  <2> QED
    BY <1>18, <2>1, AdvancedTyped DEF RecordFailed
<1>19. CASE Barrier
  <2>1. Now.kind # "stop"
    BY <1>19 DEF Barrier
  <2>2. driver' \in D
    BY <1>19, <2>1, AdvancedTyped DEF Barrier, DriverPlaces
  <2> QED
    BY <1>19, <2>2 DEF Barrier
<1>20. CASE Stop
  <2>1. Len(Program) \in DOMAIN Program
    BY ProgramShape, MemoryAssumption
  <2> QED
    BY <1>20, <2>1 DEF Stop, DriverPlaces
<1>21. CASE AfterFlush
  <2>1. driver' \in D
    BY <1>21, AdvancedTyped DEF AfterFlush, DriverPlaces
  <2> QED
    BY <1>21, <2>1 DEF AfterFlush
<1> QED
  BY <1>1, <1>2, <1>3, <1>4, <1>5, <1>6, <1>7, <1>8, <1>9, <1>10, <1>11, <1>12, <1>13, <1>14, <1>15, <1>16, <1>17,
     <1>18, <1>19, <1>20, <1>21, <1>22 DEF MemoryNext, Worker, Thread, Driver

LEMMA FailedFacts ==
    ASSUME TasksTyped
    PROVE  /\ Failed(worker).at \in {"idle", "read"}
           /\ Failed(worker).at # "idle" => Failed(worker).event = worker.event /\ worker.tries < Retries
  BY DEF TasksTyped, Failed, Idle

LEMMA PlacedStep ==
    ASSUME MemoryTypeOK, Placed, Exclusive, DOMAIN notes \subseteq DOMAIN notes', [MemoryNext]_memoryVars
    PROVE  Placed'
<1> USE DEF MemoryTypeOK, TasksTyped
<1>n. /\ worker.at # "idle" => worker.event \in Admitted \cap DOMAIN notes
      /\ driver.at \in {"store", "index", "enqueue"} => Now.kind \in Requests
      /\ driver.at \in {"index", "enqueue"} => Now.id \in DOMAIN notes
      /\ driver.at = "search" => Now.kind = "question" /\ ~driver.failed
      /\ driver.at \in {"join", "flush", "flushed", "raised"} => Now.kind \in {"barrier", "stop"}
      /\ ToSet(queue) \subseteq DOMAIN notes /\ ToSet(pending) \subseteq DOMAIN notes
  BY DEF Placed
<1> DEFINE W == worker'.at # "idle" => worker'.event \in Admitted \cap DOMAIN notes'
           P == ToSet(queue') \cup ToSet(pending') \subseteq DOMAIN notes'
           D == /\ driver'.at \in {"store", "index", "enqueue"} => Now'.kind \in Requests
                /\ driver'.at \in {"index", "enqueue"} => Now'.id \in DOMAIN notes'
                /\ driver'.at = "search" => Now'.kind = "question" /\ ~driver'.failed
                /\ driver'.at \in {"join", "flush", "flushed", "raised"} => Now'.kind \in {"barrier", "stop"}
<1>w. UNCHANGED worker => W
  BY <1>n
<1>q. UNCHANGED <<queue, pending>> => P
  BY <1>n
<1>d. UNCHANGED driver => D
  BY <1>n DEF Now
<1>a. driver' = Advanced => D
  BY DEF Advanced
<1> SUFFICES W /\ P /\ D
  BY DEF Placed
<1>1. CASE UNCHANGED memoryVars
  BY <1>w, <1>q, <1>d, <1>1 DEF memoryVars
<1>2. CASE Take
  <2>1. W /\ P
    BY <1>n, <1>2, QueueFacts, SequenceFacts DEF Take
  <2> QED
    BY <1>d, <1>2, <2>1 DEF Take
<1>3. CASE Read \/ Encode
  <2>1. W
    BY <1>n, <1>3 DEF Read, Encode
  <2> QED
    BY <1>q, <1>d, <1>3, <2>1 DEF Read, Encode
<1>4. CASE Score
  <2>1. ToSet(pending') = ToSet(pending) \cup {worker.event}
    BY <1>n, <1>4, QueueFacts DEF Score
  <2>2. W /\ P
    BY <1>n, <1>4, <2>1 DEF Score
  <2> QED
    BY <1>d, <1>4, <2>2 DEF Score
<1>5. CASE Done \/ HandlerRaises
  <2>1. W
    BY <1>n, <1>5, FailedFacts DEF Done, HandlerRaises, Idle
  <2> QED
    BY <1>q, <1>d, <1>5, <2>1 DEF Done, HandlerRaises
<1>6. ASSUME NEW task \in {"worker", "driver"}, Swap(task) PROVE W /\ P /\ D
  <2>1. P
    BY <1>n, <1>6 DEF Swap, ToSet
  <2> QED
    BY <1>w, <1>d, <1>6, <2>1 DEF Swap
<1>7. CASE Consolidate \/ Rebuild
  BY <1>w, <1>q, <1>d, <1>7 DEF Consolidate, Rebuild
<1>8. CASE Evolve
  <2>1. W
    BY <1>n, <1>8 DEF Evolve, Returned, Exclusive
  <2>2. D
    <3>1. actor.task \in {"worker", "driver"}
      BY <1>8 DEF Evolve, Exclusive, NoActor
    <3>2. CASE actor.task = "driver"
      BY <1>n, <1>8, <3>2 DEF Evolve, Returned, Exclusive, Now
    <3> QED
      BY <1>d, <1>8, <3>1, <3>2 DEF Evolve, Returned
  <2> QED
    BY <1>q, <1>8, <2>1, <2>2 DEF Evolve
<1>9. CASE FlushRaises
  <2>1. W
    BY <1>n, <1>9, FailedFacts DEF FlushRaises, Exclusive
  <2>2. D
    <3>1. CASE actor.task = "driver"
      BY <1>n, <1>9, <3>1 DEF FlushRaises, Exclusive, Now
    <3> QED
      BY <1>d, <1>9, <3>1 DEF FlushRaises
  <2> QED
    BY <1>q, <1>9, <2>1, <2>2 DEF FlushRaises
<1>10. CASE BeginTurn \/ IndexStored \/ Join \/ StopRaises
  <2>1. D
    BY <1>n, <1>10 DEF BeginTurn, IndexStored, Join, StopRaises, Now, Requests
  <2> QED
    BY <1>w, <1>q, <1>10, <2>1 DEF BeginTurn, IndexStored, Join, StopRaises
<1>11. CASE BeginQuestion \/ SearchEnds
  <2>1. D
    <3>1. CASE BeginQuestion
      BY <1>n, <3>1 DEF BeginQuestion, Now, Requests
    <3>2. CASE SearchEnds
      BY <1>n, <3>2 DEF SearchEnds, Now, Requests
    <3> QED
      BY <1>11, <3>1, <3>2
  <2> QED
    BY <1>w, <1>q, <1>11, <2>1 DEF BeginQuestion, SearchEnds
<1>12. CASE Store
  <2>1. Now.id \in DOMAIN notes'
    BY <1>12 DEF Store, Over
  <2>2. D
    BY <1>n, <1>12, <2>1 DEF Store, Now
  <2> QED
    BY <1>w, <1>q, <1>12, <2>2 DEF Store
<1>13. CASE Enqueue
  <2>1. PICK new \in DOMAIN notes : ToSet(queue') \subseteq ToSet(queue) \cup {new}
    BY <1>13, EnqueueEffect
  <2>3. P
    BY <1>n, <1>13, <2>1 DEF Enqueue
  <2> QED
    BY <1>w, <1>a, <1>13, <2>3 DEF Enqueue
<1>14. CASE SearchRaises \/ RecordFailed
  BY <1>w, <1>q, <1>a, <1>14 DEF SearchRaises, RecordFailed
<1>15. CASE RequestFails \/ CommitFails
  <2>1. driver' = FailedRequest /\ UNCHANGED <<queue, worker, pending>>
    BY <1>15 DEF RequestFails, CommitFails
  <2>2. D
    BY <1>a, <2>1 DEF FailedRequest
  <2> QED
    BY <1>w, <1>q, <2>1, <2>2
<1>16. CASE Barrier
  <2>1. D
    <3>1. CASE FlushesAt(mode, Now.id)
      BY <1>16, <3>1 DEF Barrier, Now
    <3> QED
      BY <1>a, <1>16, <3>1 DEF Barrier
  <2> QED
    BY <1>w, <1>q, <1>16, <2>1 DEF Barrier
<1>17. CASE Stop
  <2>1. Program[Len(Program)].kind = "stop"
    BY ProgramShape, StepFields
  <2>2. D
    BY <1>17, <2>1 DEF Stop, Now
  <2> QED
    BY <1>w, <1>q, <1>17, <2>2 DEF Stop
<1>18. CASE AfterFlush
  <2>1. D
    BY <1>a, <1>18 DEF AfterFlush
  <2> QED
    BY <1>w, <1>q, <1>18, <2>1 DEF AfterFlush
<1> QED
  BY <1>1, <1>2, <1>3, <1>4, <1>5, <1>6, <1>7, <1>8, <1>9, <1>10, <1>11, <1>12, <1>13, <1>14, <1>15, <1>16, <1>17,
     <1>18 DEF MemoryNext, Worker, Thread, Driver

LEMMA ExclusiveStep ==
    ASSUME MemoryTypeOK, Exclusive, [MemoryNext]_memoryVars
    PROVE  Exclusive'
<1> USE DEF MemoryTypeOK, TasksTyped
<1>n. Nothing # "worker" /\ Nothing # "driver" /\ actor.task \in {"worker", "driver", Nothing}
  BY MemoryAssumption
<1>1. CASE UNCHANGED <<queue, worker, pending, actor, driver>>
  BY <1>1 DEF Exclusive
<1>2. CASE Take
  BY <1>2 DEF Exclusive, Take
<1>3. CASE Read
  BY <1>3 DEF Exclusive, Read
<1>4. CASE Encode
  BY <1>4 DEF Exclusive, Encode
<1>5. CASE Score
  BY <1>5 DEF Exclusive, Score
<1>6. CASE Done
  BY <1>6 DEF Exclusive, Done, Idle
<1>7. CASE HandlerRaises
  <2>1. worker.at # "idle" /\ worker.at # "flush" /\ worker' = Failed(worker) /\ UNCHANGED <<queue, pending, actor, driver>>
    BY <1>7 DEF HandlerRaises
  <2> QED
    BY <2>1 DEF Exclusive
<1>8. CASE Swap("worker")
  BY <1>n, <1>8 DEF Exclusive, Swap, Flushes
<1>9. CASE Swap("driver")
  BY <1>n, <1>9 DEF Exclusive, Swap, Flushes
<1>10. CASE Consolidate
  BY <1>n, <1>10 DEF Exclusive, Consolidate, NoActor
<1>11. CASE Rebuild
  BY <1>n, <1>11 DEF Exclusive, Rebuild, NoActor
<1>12. CASE Evolve
  <2>1. actor' = NoActor /\ Returned(actor.task) /\ UNCHANGED <<queue, pending>> /\ actor.task # Nothing
    BY <1>12 DEF Evolve, Exclusive, NoActor
  <2>2. CASE actor.task = "worker"
    BY <1>n, <2>1, <2>2 DEF Exclusive, NoActor, Returned
  <2>3. CASE actor.task = "driver"
    BY <1>n, <2>1, <2>3 DEF Exclusive, NoActor, Returned
  <2> QED
    BY <1>n, <2>1, <2>2, <2>3
<1>13. CASE FlushRaises
  <2>1. actor' = NoActor /\ UNCHANGED <<queue, pending>> /\ actor.task # Nothing
    BY <1>13 DEF FlushRaises
  <2>2. CASE actor.task = "worker"
    BY <1>n, <1>13, <2>1, <2>2 DEF Exclusive, NoActor, FlushRaises
  <2>3. CASE actor.task = "driver"
    BY <1>n, <1>13, <2>1, <2>3 DEF Exclusive, NoActor, FlushRaises
  <2> QED
    BY <1>n, <2>1, <2>2, <2>3
<1>14. CASE BeginTurn \/ BeginQuestion \/ SearchEnds \/ Store \/ IndexStored \/ StopRaises \/ Stop
  BY <1>14 DEF Exclusive, BeginTurn, BeginQuestion, SearchEnds, Store, IndexStored, StopRaises, Stop
<1>15. CASE Enqueue
  <2>1. driver.at = "enqueue" /\ driver'.at = "next" /\ UNCHANGED <<worker, pending, actor>>
    BY <1>15 DEF Enqueue, Advanced
  <2> QED
    BY <1>n, <2>1 DEF Exclusive
<1>16. CASE SearchRaises
  BY <1>16 DEF Exclusive, SearchRaises, Advanced
<1>17. CASE RecordFailed
  BY <1>17 DEF Exclusive, RecordFailed, Advanced
<1>18. CASE RequestFails \/ CommitFails
  BY <1>18 DEF Exclusive, RequestFails, CommitFails, FailedRequest, Advanced
<1>19. CASE Barrier
  BY <1>19 DEF Exclusive, Barrier, Advanced
<1>20. CASE Join
  BY <1>20 DEF Exclusive, Join, Joined, Remaining
<1>21. CASE AfterFlush
  BY <1>21 DEF Exclusive, AfterFlush, Advanced
<1> QED
  BY <1>1, <1>2, <1>3, <1>4, <1>5, <1>6, <1>7, <1>8, <1>9, <1>10, <1>11, <1>12, <1>13, <1>14, <1>15, <1>16, <1>17,
     <1>18, <1>19, <1>20, <1>21 DEF MemoryNext, Worker, Thread, Driver, memoryVars

LEMMA FreshStep ==
    ASSUME MemoryTypeOK, Placed, Copies, Fresh, Numbered, Generations, Exclusive, [MemoryNext]_memoryVars
    PROVE  Fresh'
<1> USE DEF MemoryTypeOK, TasksTyped
<1>1. driver.step \in Nat /\ driver.step <= Len(Program) /\ Len(Program) \in Nat /\ Len(Turns) \in Nat
  BY ProgramShape, MemoryAssumption
<1>2. ASSUME driver'.step \in Nat, driver.step <= driver'.step
      PROVE  Past \subseteq Past'
  <2>1. \A j \in 1..(driver.step - 1) : j \in 1..(driver'.step - 1)
    BY <1>1, <1>2
  <2> QED
    BY <2>1 DEF Past
<1>3. ASSUME DOMAIN notes' \cap Admitted = DOMAIN notes \cap Admitted, Past \subseteq Past',
             driver.at \notin {"index", "enqueue"} \/ UNCHANGED driver
      PROVE  Fresh'
  BY <1>3 DEF Fresh, Now
<1>4. CASE Store
  <2>1. Now.id \in Admitted /\ DOMAIN notes' = DOMAIN notes \cup {Now.id}
    BY <1>4, StoreEffect
  <2> QED
    BY <1>4, <2>1 DEF Store, Fresh, Past, Now
<1>5. CASE IndexStored
  BY <1>5 DEF IndexStored, Fresh, Past, Now
<1>6. CASE Enqueue
  <2>1. Now.kind \in Requests
    BY <1>6 DEF Enqueue, Placed
  <2>2. driver' = Advanced /\ notes' = notes /\ driver'.step = driver.step + 1 /\ driver.at = "enqueue"
    BY <1>6 DEF Enqueue, Advanced, repository
  <2>3. Past \subseteq Past'
    BY <1>1, <1>2, <2>2
  <2>4. Now.id \in Past'
    <3>1. driver.step \in 1..(driver'.step - 1)
      BY <1>1, <2>2, ProgramShape
    <3> QED
      BY <2>1, <3>1 DEF Past, Now
  <2> QED
    BY <2>2, <2>3, <2>4 DEF Fresh
<1>7. CASE UNCHANGED driver /\ DOMAIN notes' \cap Admitted = DOMAIN notes \cap Admitted
  BY <1>3, <1>7 DEF Past
<1>8. CASE Evolve
  <2>1. DOMAIN notes' \cap Admitted = DOMAIN notes \cap Admitted
    <3>1. PICK k \in Nat : LET new == (Made + 1)..(Made + k) IN new \subseteq Abstractions /\ DOMAIN notes' = DOMAIN notes \cup new
      BY <1>8, Evolved
    <3> QED
      BY <3>1, Apart
  <2>2. driver.at \notin {"index", "enqueue"} \/ UNCHANGED driver
    BY <1>8 DEF Evolve, Returned, Exclusive
  <2>3. driver'.step = driver.step
    BY <1>8 DEF Evolve, Returned
  <2> QED
    BY <1>1, <1>2, <1>3, <2>1, <2>2, <2>3
<1>9. CASE FlushRaises
  <2>1. (driver.at \notin {"index", "enqueue"} \/ UNCHANGED driver) /\ driver'.step = driver.step /\ notes' = notes
    BY <1>9 DEF FlushRaises, Exclusive, repository
  <2> QED
    BY <1>1, <1>2, <1>3, <2>1
<1>10. ASSUME driver' = Advanced, notes' = notes, driver.at \notin {"index", "enqueue"} PROVE Fresh'
  <2>1. driver'.step = driver.step + 1
    BY <1>10 DEF Advanced
  <2> QED
    BY <1>1, <1>2, <1>3, <1>10, <2>1
<1>11. CASE BeginTurn \/ BeginQuestion \/ SearchEnds \/ Join \/ StopRaises
  <2>1. driver.at \notin {"index", "enqueue"} /\ driver'.step = driver.step /\ notes' = notes
    BY <1>11 DEF BeginTurn, BeginQuestion, EnsureGraphIndex, SearchEnds, Join, StopRaises, repository
  <2> QED
    BY <1>1, <1>2, <1>3, <2>1
<1>12. CASE Stop
  <2>1. driver.at \notin {"index", "enqueue"} /\ driver'.step = Len(Program) /\ notes' = notes
    BY <1>12 DEF Stop, repository
  <2> QED
    BY <1>1, <1>2, <1>3, <2>1
<1>13. CASE SearchRaises \/ RecordFailed
  BY <1>10, <1>13 DEF SearchRaises, RecordFailed, repository
<1>14. CASE RequestFails \/ CommitFails
  <2>1. driver' = FailedRequest /\ notes' = notes /\ Now.kind \in Requests
    BY <1>14 DEF RequestFails, CommitFails, repository, Placed, Requests
  <2>2. driver'.step \in Nat /\ driver.step + 1 <= driver'.step
    <3>1. CASE Now.kind = "turn"
      <4>1. driver.step <= Len(Turns)
        BY <1>1, <3>1, RequestPlace DEF Now, Requests
      <4> QED
        BY <1>1, <2>1, <3>1, <4>1 DEF FailedRequest
    <3>2. CASE Now.kind # "turn"
      BY <1>1, <2>1, <3>2 DEF FailedRequest, Advanced
    <3> QED
      BY <3>1, <3>2
  <2>3. Past \subseteq Past'
    BY <1>1, <1>2, <2>2
  <2>4. Now.id \in Past'
    <3>1. driver.step \in 1..(driver'.step - 1)
      BY <1>1, <2>2, ProgramShape
    <3> QED
      BY <2>1, <3>1 DEF Past, Now
  <2> QED
    BY <2>1, <2>3, <2>4 DEF Fresh
<1>15. CASE Barrier
  <2>1. CASE FlushesAt(mode, Now.id)
    <3>1. driver.at \notin {"index", "enqueue"} /\ driver'.step = driver.step /\ notes' = notes
      BY <1>15, <2>1 DEF Barrier, repository
    <3> QED
      BY <1>1, <1>2, <1>3, <3>1
  <2> QED
    BY <1>10, <1>15, <2>1 DEF Barrier, repository
<1>16. CASE AfterFlush
  <2>1. CASE Now.kind = "stop"
    <3>1. driver.at \notin {"index", "enqueue"} /\ driver'.step = driver.step /\ notes' = notes
      BY <1>16, <2>1 DEF AfterFlush, repository
    <3> QED
      BY <1>1, <1>2, <1>3, <3>1
  <2> QED
    BY <1>10, <1>16, <2>1 DEF AfterFlush, repository
<1>17. CASE Worker
  <2>1. Encode => DOMAIN notes' = DOMAIN notes
    BY EncodeEffect
  <2>2. Score => DOMAIN notes' = DOMAIN notes
    BY ScoreEffect
  <2> QED
    BY <1>7, <1>17, <2>1, <2>2 DEF Worker, Take, Read, Encode, Score, Done, Swap, repository
<1>18. CASE Consolidate \/ Rebuild \/ HandlerRaises
  <2>1. Consolidate => DOMAIN notes' = DOMAIN notes
    BY ConsolidateEffect
  <2> QED
    BY <1>7, <1>18, <2>1 DEF Consolidate, Rebuild, HandlerRaises, repository
<1>19. CASE Swap("driver") \/ UNCHANGED memoryVars
  BY <1>7, <1>19 DEF Swap, memoryVars, repository
<1> QED
  BY <1>4, <1>5, <1>6, <1>8, <1>9, <1>11, <1>12, <1>13, <1>14, <1>15, <1>16, <1>17, <1>18, <1>19
     DEF MemoryNext, Thread, Driver

LEMMA CopiesStep ==
    ASSUME MemoryTypeOK, Placed, Copies, Fresh, Numbered, Generations, Exclusive, [MemoryNext]_memoryVars
    PROVE  Copies'
<1> USE DEF MemoryTypeOK, TasksTyped
<1>n. /\ Nothing # "worker" /\ Nothing # "driver" /\ actor.task \in {"worker", "driver", Nothing}
      /\ actor.task = Nothing => actor.at = "off"
  BY MemoryAssumption DEF Exclusive, NoActor
<1>s. \A x \in DOMAIN notes : x \in DOMAIN notes' /\ Succeeds(notes[x], notes'[x])
  BY NotesStep
\* Where nothing changes a note that is there, and a task has not read, the copies stay good.
<1> DEFINE Same == \A x \in DOMAIN notes : x \in DOMAIN notes' /\ notes'[x] = notes[x]
<1>w. ASSUME Same, UNCHANGED worker
      PROVE  /\ worker'.at = "encode" => worker'.note = Embedded(notes'[worker'.event])
             /\ worker'.at = "score" => worker'.note = Salient(notes'[worker'.event]) /\ notes'[worker'.event].encoded
  BY <1>w DEF Copies, Placed
<1>r. ASSUME worker'.at \notin {"encode", "score"}
      PROVE  /\ worker'.at = "encode" => worker'.note = Embedded(notes'[worker'.event])
             /\ worker'.at = "score" => worker'.note = Salient(notes'[worker'.event]) /\ notes'[worker'.event].encoded
  BY <1>r
<1>a. ASSUME Same, UNCHANGED actor
      PROVE  actor'.at = "consolidate" =>
               /\ actor'.read \in Notes /\ DOMAIN actor'.read \subseteq DOMAIN notes'
               /\ \A id \in DOMAIN actor'.read : actor'.read[id] = notes'[id]
               /\ actor'.batch \subseteq DOMAIN actor'.read
  BY <1>a DEF Copies
<1>b. ASSUME actor'.at # "consolidate"
      PROVE  actor'.at = "consolidate" =>
               /\ actor'.read \in Notes /\ DOMAIN actor'.read \subseteq DOMAIN notes'
               /\ \A id \in DOMAIN actor'.read : actor'.read[id] = notes'[id]
               /\ actor'.batch \subseteq DOMAIN actor'.read
  BY <1>b
<1>1. CASE Encode
  <2>1. /\ worker.event \in DOMAIN notes /\ notes'[worker.event] = Embedded(notes[worker.event])
        /\ notes[worker.event] \in Note
    BY <1>1, EncodeEffect, NotesFacts DEF RepositoryTyped
  <2>2. worker'.at = "score" /\ worker'.event = worker.event /\ worker'.note = Salient(worker.note)
        /\ worker.note = Embedded(notes[worker.event])
    BY <1>1 DEF Encode, Copies
  <2>3. notes'[worker.event].encoded
    BY <2>1, UpdatesSucceed
  <2>4. actor.at # "consolidate" /\ UNCHANGED actor
    BY <1>n, <1>1 DEF Encode, Exclusive, NoActor
  <2> QED
    BY <1>b, <2>1, <2>2, <2>3, <2>4 DEF Copies
<1>2. CASE Score
  <2>1. worker'.at \notin {"encode", "score"} /\ actor.at # "consolidate" /\ UNCHANGED actor
    BY <1>n, <1>2 DEF Score, Exclusive, NoActor
  <2> QED
    BY <1>r, <1>b, <2>1 DEF Copies
<1>3. CASE Consolidate
  <2>1. worker'.at \notin {"encode", "score"}
    BY <1>n, <1>3 DEF Consolidate, Exclusive, NoActor
  <2>2. actor'.at # "consolidate"
    BY <1>3 DEF Consolidate
  <2> QED
    BY <1>r, <1>b, <2>1, <2>2 DEF Copies
<1>4. CASE Evolve
  <2>1. worker'.at \notin {"encode", "score"}
    BY <1>n, <1>4 DEF Evolve, Returned, Exclusive, NoActor
  <2>2. actor'.at # "consolidate"
    BY <1>4 DEF Evolve, NoActor
  <2> QED
    BY <1>r, <1>b, <2>1, <2>2 DEF Copies
<1>5. CASE Store
  <2>1. Same /\ UNCHANGED <<worker, actor>>
    BY <1>5, StoreEffect DEF Store
  <2> QED
    BY <1>w, <1>a, <2>1 DEF Copies
<1>6. ASSUME notes' = notes PROVE Same
  BY <1>6
<1>7. CASE Take
  <2>1. Same /\ worker'.at \notin {"encode", "score"} /\ UNCHANGED actor
    BY <1>6, <1>7 DEF Take, repository
  <2> QED
    BY <1>r, <1>a, <2>1 DEF Copies
<1>8. CASE Read
  <2>1. Same /\ UNCHANGED <<actor, notes>> /\ worker'.at = "encode" /\ worker'.event = worker.event
        /\ worker'.note = Embedded(notes[worker.event])
    BY <1>6, <1>8 DEF Read, repository
  <2> QED
    BY <1>a, <2>1 DEF Copies
<1>9. CASE Done \/ HandlerRaises
  <2>1. Same /\ worker'.at \notin {"encode", "score"} /\ UNCHANGED actor
    BY <1>6, <1>9, FailedFacts DEF Done, HandlerRaises, Idle, repository
  <2> QED
    BY <1>r, <1>a, <2>1 DEF Copies
<1>10. ASSUME NEW task \in {"worker", "driver"}, Swap(task) PROVE Copies'
  <2>1. /\ Same /\ UNCHANGED <<worker, notes>>
        /\ actor'.batch = ToSet(pending) /\ actor'.read = notes
    BY <1>6, <1>10 DEF Swap, repository
  <2>2. notes \in Notes /\ ToSet(pending) \subseteq DOMAIN notes
    BY DEF RepositoryTyped, Placed
  <2> QED
    BY <1>w, <2>1, <2>2 DEF Copies
<1>11. CASE Rebuild
  <2>1. Same /\ UNCHANGED worker /\ actor'.at # "consolidate"
    BY <1>6, <1>11 DEF Rebuild
  <2> QED
    BY <1>w, <1>b, <2>1 DEF Copies
<1>12. CASE FlushRaises
  <2>1. Same /\ actor'.at # "consolidate"
    BY <1>6, <1>12 DEF FlushRaises, repository, NoActor
  <2>2. UNCHANGED worker \/ worker'.at \notin {"encode", "score"}
    BY <1>12, FailedFacts DEF FlushRaises
  <2> QED
    BY <1>w, <1>r, <1>b, <2>1, <2>2 DEF Copies
<1>13. CASE notes' = notes /\ UNCHANGED <<worker, actor>>
  BY <1>w, <1>a, <1>6, <1>13 DEF Copies
<1>14. CASE SearchRaises \/ RequestFails \/ CommitFails \/ UNCHANGED memoryVars
  BY <1>13, <1>14 DEF SearchRaises, RequestFails, CommitFails, memoryVars, repository
<1>15. CASE Driver
  BY <1>5, <1>10, <1>13, <1>15 DEF Driver, BeginTurn, BeginQuestion, EnsureGraphIndex, SearchEnds, IndexStored, Enqueue,
              RecordFailed, Barrier, Stop, Join, AfterFlush, StopRaises, repository
<1> QED
  BY <1>1, <1>2, <1>3, <1>4, <1>7, <1>8, <1>9, <1>10, <1>11, <1>12, <1>14, <1>15
     DEF MemoryNext, Worker, Thread

-----------------------------------------------------------------------------
(* Lineage. *)

Above(id) == Parents(id) \cup notes[id].ancestors
ClosedUp(S) == \A y \in S \cap DOMAIN notes : Parents(y) \subseteq S

LineagesInv ==
    \A id \in DOMAIN notes :
       /\ Above(id) \subseteq DOMAIN notes
       /\ \A p \in Above(id) : Parents(p) \subseteq Above(id)
       /\ \A S \in SUBSET Ids : Parents(id) \subseteq S /\ ClosedUp(S) => Above(id) \subseteq S
       /\ \A p \in Parents(id) : notes[p].generation < notes[id].generation
       /\ id \in Abstractions => notes[id].origins # {} /\ notes[id].origins = Above(id) \ Abstractions
       /\ id \notin Abstractions => Above(id) = {} /\ notes[id].origins = {}

LEMMA LineagesStep ==
    ASSUME MemoryTypeOK, Placed, Copies, Fresh, Numbered, Generations, LineagesInv, [MemoryNext]_memoryVars
    PROVE  LineagesInv'
<1>1. \A x \in DOMAIN notes : x \in DOMAIN notes' /\ SameOrigin(notes[x], notes'[x])
  BY NotesStep DEF Succeeds
<1> DEFINE Good(id) ==
       /\ Above(id) \subseteq DOMAIN notes
       /\ \A p \in Above(id) : Parents(p) \subseteq Above(id)
       /\ \A S \in SUBSET Ids : Parents(id) \subseteq S /\ ClosedUp(S) => Above(id) \subseteq S
       /\ \A p \in Parents(id) : notes[p].generation < notes[id].generation
       /\ id \in Abstractions => notes[id].origins # {} /\ notes[id].origins = Above(id) \ Abstractions
       /\ id \notin Abstractions => Above(id) = {} /\ notes[id].origins = {}
<1>2. \A x \in DOMAIN notes : Above(x)' = Above(x) /\ Parents(x)' = Parents(x) /\ Parents(x) \subseteq Above(x)
  BY <1>1 DEF Above, Parents, SameOrigin
<1>3. ASSUME NEW S \in SUBSET Ids, ClosedUp(S)' PROVE ClosedUp(S)
  BY <1>1, <1>2, <1>3 DEF ClosedUp
<1>4. ASSUME NEW id \in DOMAIN notes PROVE Good(id)'
  <2>1. Good(id)
    BY DEF LineagesInv
  <2>2. Above(id)' = Above(id) /\ Parents(id)' = Parents(id) /\ Above(id) \subseteq DOMAIN notes
        /\ notes'[id].origins = notes[id].origins /\ notes'[id].generation = notes[id].generation
    BY <1>1, <1>2, <2>1 DEF SameOrigin
  <2>3. \A p \in Above(id) : Parents(p)' = Parents(p) /\ notes'[p].generation = notes[p].generation
    BY <1>1, <1>2, <2>2 DEF SameOrigin
  <2>4. Above(id)' \subseteq DOMAIN notes' /\ \A p \in Above(id)' : Parents(p)' \subseteq Above(id)'
    BY <1>1, <2>1, <2>2, <2>3
  <2>5. \A S \in SUBSET Ids' : Parents(id)' \subseteq S /\ ClosedUp(S)' => Above(id)' \subseteq S
    BY <1>3, <2>1, <2>2
  <2>6. \A p \in Parents(id)' : notes'[p].generation < notes'[id].generation
    BY <1>2, <2>1, <2>2, <2>3
  <2> QED
    BY <2>1, <2>2, <2>4, <2>5, <2>6
<1>5. CASE DOMAIN notes' = DOMAIN notes
  BY <1>4, <1>5 DEF LineagesInv
<1>6. CASE Store
  <2>1. PICK new \in Admitted : DOMAIN notes' = DOMAIN notes \cup {new} /\ notes'[new] = Blank(WordsOf(new))
    BY <1>6, StoreEffect
  <2>2. /\ notes'[new].parents = {} /\ notes'[new].ancestors = {} /\ notes'[new].origins = {}
        /\ new \notin Abstractions
    BY <2>1, Apart DEF Blank
  <2>3. Above(new)' = {} /\ Parents(new)' = {}
    BY <2>2 DEF Above, Parents
  <2>4. Good(new)'
    BY <2>2, <2>3
  <2> QED
    BY <1>4, <2>1, <2>4 DEF LineagesInv
<1>7. CASE Evolve
  <2>1. PICK k \in Nat :
             LET new == (Made + 1)..(Made + k)
             IN  /\ new \subseteq Abstractions /\ new \cap DOMAIN notes = {}
                 /\ DOMAIN notes' = DOMAIN notes \cup new
                 /\ \A n \in new :
                       /\ notes'[n].parents # {} /\ notes'[n].parents \subseteq DOMAIN notes
                       /\ notes'[n].ancestors = Ancestors(notes'[n].parents)
                       /\ notes'[n].origins = Origins(notes'[n].parents)
                       /\ \A p \in notes'[n].parents : notes[p].generation < notes'[n].generation
    BY <1>7, Evolved
  <2> DEFINE new == (Made + 1)..(Made + k)
  <2>2. /\ new \subseteq Abstractions /\ DOMAIN notes' = DOMAIN notes \cup new
        /\ \A n \in new :
              /\ notes'[n].parents # {} /\ notes'[n].parents \subseteq DOMAIN notes
              /\ notes'[n].ancestors = Ancestors(notes'[n].parents)
              /\ notes'[n].origins = Origins(notes'[n].parents)
              /\ \A p \in notes'[n].parents : notes[p].generation < notes'[n].generation
    BY <2>1
  <2> HIDE DEF new
  <2>3. ASSUME NEW n \in new PROVE Good(n)'
    <3> DEFINE ps == notes'[n].parents
    <3>1. /\ ps # {} /\ ps \subseteq DOMAIN notes /\ notes'[n].ancestors = Ancestors(ps) /\ notes'[n].origins = Origins(ps)
          /\ \A p \in ps : notes[p].generation < notes'[n].generation
          /\ Parents(n)' = ps /\ n \in Abstractions
      BY <2>2, <2>3 DEF Parents
    <3> HIDE DEF ps
    <3>2. Above(n)' = ps \cup UNION {Above(p) : p \in ps}
      BY <3>1 DEF Above, Ancestors, Parents
    <3>3. Above(n)' \subseteq DOMAIN notes /\ Above(n)' \subseteq DOMAIN notes'
      BY <2>2, <3>1, <3>2 DEF LineagesInv
    <3>4. ASSUME NEW x \in Above(n)' PROVE Parents(x)' \subseteq Above(n)'
      <4>1. Parents(x)' = Parents(x)
        BY <1>2, <3>3
      <4>2. CASE x \in ps
        BY <1>2, <3>1, <3>2, <4>1, <4>2
      <4>3. CASE \E p \in ps : x \in Above(p)
        BY <3>1, <3>2, <4>1, <4>3 DEF LineagesInv
      <4> QED
        BY <3>2, <4>2, <4>3
    <3>5. ASSUME NEW S \in SUBSET Ids, Parents(n)' \subseteq S, ClosedUp(S)' PROVE Above(n)' \subseteq S
      <4>1. ClosedUp(S) /\ ps \subseteq S
        BY <1>3, <3>1, <3>5
      <4>2. \A p \in ps : Parents(p) \subseteq S
        BY <3>1, <4>1 DEF ClosedUp
      <4>3. \A p \in ps : Above(p) \subseteq S
        BY <3>1, <4>1, <4>2 DEF LineagesInv
      <4> QED
        BY <3>2, <4>1, <4>3
    <3>6. \A p \in ps : notes'[p].generation = notes[p].generation
      BY <1>1, <3>1 DEF SameOrigin
    <3>7. notes'[n].origins # {} /\ notes'[n].origins = Above(n)' \ Abstractions
      <4> DEFINE from == [p \in ps |-> IF notes[p].origins = {} THEN {p} ELSE notes[p].origins]
      <4>1. Origins(ps) = UNION {from[p] : p \in ps}
        BY DEF Origins
      <4>2. ASSUME NEW p \in ps PROVE from[p] # {} /\ from[p] = ({p} \cup Above(p)) \ Abstractions
        BY <3>1 DEF LineagesInv
      <4> HIDE DEF from
      <4>3. notes'[n].origins = UNION {({p} \cup Above(p)) \ Abstractions : p \in ps}
        BY <3>1, <4>1, <4>2
      <4>4. Above(n)' \ Abstractions = UNION {({p} \cup Above(p)) \ Abstractions : p \in ps}
        BY <3>2
      <4>5. notes'[n].origins # {}
        BY <3>1, <4>1, <4>2
      <4> QED
        BY <4>3, <4>4, <4>5
    <3> QED
      BY <3>1, <3>3, <3>4, <3>5, <3>6, <3>7
  <2> QED
    BY <1>4, <2>2, <2>3 DEF LineagesInv
<1>8. CASE Encode \/ Score \/ Consolidate
  BY <1>5, <1>8, EncodeEffect, ScoreEffect, ConsolidateEffect
<1> QED
  BY <1>5, <1>6, <1>7, <1>8, NotesChange

LEMMA LineagesGive ==
    ASSUME MemoryTypeOK, LineagesInv
    PROVE  LineageClosed
<1> SUFFICES ASSUME NEW id \in DOMAIN notes \cap Abstractions
             PROVE  /\ Parents(id) \cup notes[id].ancestors = Lineage(id)
                    /\ notes[id].origins = Lineage(id) \ Abstractions
                    /\ \A p \in Parents(id) : notes[p].generation < notes[id].generation
  BY DEF LineageClosed
<1>1. Above(id) \in SUBSET Ids
  BY NotesFacts DEF MemoryTypeOK, RepositoryTyped, LineagesInv
<1>2. Parents(id) \subseteq Above(id) /\ \A y \in Above(id) \cap DOMAIN notes : Parents(y) \subseteq Above(id)
  BY DEF LineagesInv, Above
<1>3. Lineage(id) \subseteq Above(id)
  BY <1>1, <1>2 DEF Lineage
<1>4. Above(id) \subseteq Lineage(id)
  <2>1. \A S \in SUBSET Ids :
           Parents(id) \subseteq S /\ (\A y \in S \cap DOMAIN notes : Parents(y) \subseteq S) => Above(id) \subseteq S
    BY DEF LineagesInv, ClosedUp
  <2> QED
    BY <1>1, <2>1 DEF Lineage
<1>5. Above(id) = Lineage(id)
  BY <1>3, <1>4
<1> QED
  BY <1>5 DEF LineagesInv, Above

-----------------------------------------------------------------------------
(* The graph. *)

\* A note never changes its words.
WordsKept == \A id \in DOMAIN notes : notes[id].words = WordsOf(id)
Related(x, y) == WordsOf(x) \cap WordsOf(y) # {}

\* The note between its store and its index.
Unindexed == IF driver.at = "index" THEN {Now.id} ELSE {}

\* The notes whose links the graph may not have.
Unfinished == Unindexed \cup unlinked

Linked == \A x, y \in nodes \ Unfinished : x # y /\ Related(x, y) => {x, y} \in edges

Noded ==
    /\ DOMAIN notes \ (Unindexed \cup Stored) \subseteq nodes
    /\ synced => Stored \subseteq nodes

LEMMA WordsStep ==
    ASSUME MemoryTypeOK, Placed, Copies, Fresh, Numbered, Generations, WordsKept, [MemoryNext]_memoryVars
    PROVE  WordsKept'
<1>1. \A x \in DOMAIN notes : x \in DOMAIN notes' /\ notes'[x].words = WordsOf(x)
  BY NotesStep DEF Succeeds, SameOrigin, WordsKept
<1>2. CASE DOMAIN notes' = DOMAIN notes
  BY <1>1, <1>2 DEF WordsKept
<1>3. CASE Store
  <2>1. PICK new \in Admitted : DOMAIN notes' = DOMAIN notes \cup {new} /\ notes'[new] = Blank(WordsOf(new))
    BY <1>3, StoreEffect
  <2>2. notes'[new].words = WordsOf(new)
    BY <2>1 DEF Blank
  <2> QED
    BY <1>1, <2>1, <2>2 DEF WordsKept
<1>4. CASE Evolve
  <2>1. PICK k \in Nat :
             LET new == (Made + 1)..(Made + k)
             IN  /\ new \subseteq Abstractions /\ DOMAIN notes' = DOMAIN notes \cup new
                 /\ \A n \in new : notes'[n].words = Boilerplate
    BY <1>4, Evolved
  <2> QED
    BY <1>1, <2>1 DEF WordsKept, WordsOf
<1>5. CASE Encode \/ Score \/ Consolidate
  BY <1>2, <1>5, EncodeEffect, ScoreEffect, ConsolidateEffect
<1> QED
  BY <1>2, <1>3, <1>4, <1>5, NotesChange

LEMMA LinksAre ==
    ASSUME WordsKept, NEW x \in DOMAIN notes
    PROVE  LinksOf(x, notes) = {{x, y} : y \in {o \in DOMAIN notes \ {x} : Related(x, o)}}
  BY DEF LinksOf, Overlap, WordsKept, Related

\* New nodes with all their links.
LEMMA LinkedGrows ==
    ASSUME Linked, WordsKept', nodes' \subseteq DOMAIN notes', NEW ids, nodes' = nodes \cup ids,
           edges \subseteq edges', \A id \in ids : LinksOf(id, notes') \subseteq edges',
           Unfinished \subseteq Unfinished' \cup ids
    PROVE  Linked'
<1> SUFFICES ASSUME NEW x \in nodes' \ Unfinished', NEW y \in nodes' \ Unfinished', x # y, Related(x, y)
             PROVE  {x, y} \in edges'
  BY DEF Linked, Related, WordsOf
<1>1. {x, y} \in LinksOf(x, notes') /\ {x, y} \in LinksOf(y, notes')
  <2>1. x \in DOMAIN notes' /\ y \in DOMAIN notes'
    OBVIOUS
  <2>2. \A u, v \in DOMAIN notes' : u # v /\ Related(u, v) => {u, v} \in LinksOf(u, notes') /\ {u, v} \in LinksOf(v, notes')
    <3> TAKE u, v \in DOMAIN notes'
    <3> HAVE u # v /\ Related(u, v)
    <3>1. notes'[u].words = WordsOf(u) /\ notes'[v].words = WordsOf(v)
      BY DEF WordsKept
    <3>2. {u, v} = {v, u}
      OBVIOUS
    <3> QED
      BY <3>1, <3>2 DEF LinksOf, Overlap, Related
  <2> QED
    BY <2>1, <2>2
<1>2. CASE x \in ids \/ y \in ids
  BY <1>1, <1>2
<1>3. CASE x \notin ids /\ y \notin ids
  BY <1>3 DEF Linked
<1> QED
  BY <1>2, <1>3

LEMMA UnindexedSame ==
    /\ UNCHANGED driver => Unindexed' = Unindexed
    /\ driver.at # "index" => Unindexed = {}
    /\ driver'.at # "index" => Unindexed' = {}
  BY DEF Unindexed, Now

LEMMA LinkedStep ==
    ASSUME MemoryTypeOK, RepositoryTyped', Placed, Copies, Fresh, Numbered, Generations, Exclusive,
           WordsKept', Linked, Noded, [MemoryNext]_memoryVars
    PROVE  Linked' /\ Noded'
<1> USE DEF MemoryTypeOK
<1>t. nodes' \subseteq DOMAIN notes' /\ \A x \in DOMAIN notes : x \in DOMAIN notes'
  BY NotesStep DEF RepositoryTyped
<1>u. ASSUME UNCHANGED <<nodes, edges, synced, unlinked>>, DOMAIN notes' = DOMAIN notes, Unindexed' = Unindexed
      PROVE  Linked' /\ Noded'
  BY <1>u DEF Linked, Noded, Related, WordsOf, Unfinished
<1>i. ASSUME NEW ids \in SUBSET DOMAIN notes', Index(ids, notes'), DOMAIN notes' = DOMAIN notes, synced' = synced,
             Unindexed \subseteq Unindexed' \cup ids, unlinked \subseteq unlinked' \cup ids,
             DOMAIN notes \ (Unindexed' \cup Stored) \subseteq nodes \cup ids
      PROVE  Linked' /\ Noded'
  <2>1. nodes' = nodes \cup ids /\ edges \subseteq edges' /\ \A id \in ids : LinksOf(id, notes') \subseteq edges'
    BY <1>i DEF Index
  <2>2. Linked'
    BY <1>i, <1>t, <2>1, LinkedGrows DEF Unfinished
  <2> QED
    BY <1>i, <2>1, <2>2 DEF Noded
<1>1. CASE Encode
  <2>1. Index({worker.event}, notes') /\ UNCHANGED driver
    BY <1>1 DEF Encode, Save
  <2>2. DOMAIN notes' = DOMAIN notes /\ worker.event \in DOMAIN notes /\ synced' = synced
    BY <1>1, EncodeEffect
  <2>3. unlinked' = unlinked
    BY <1>1 DEF Encode, fates
  <2> QED
    BY <1>i, <2>1, <2>2, <2>3, UnindexedSame DEF Noded
<1>2. CASE Score
  <2>1. Index({worker.event}, notes') /\ UNCHANGED driver
    BY <1>2 DEF Score, Save
  <2>2. DOMAIN notes' = DOMAIN notes /\ worker.event \in DOMAIN notes /\ synced' = synced
    BY <1>2, ScoreEffect
  <2>3. unlinked' = unlinked
    BY <1>2 DEF Score, fates
  <2> QED
    BY <1>i, <2>1, <2>2, <2>3, UnindexedSame DEF Noded
<1>3. CASE Consolidate
  <2>1. Index(DOMAIN actor.read, notes') /\ UNCHANGED <<driver, synced>>
    BY <1>3 DEF Consolidate
  <2>2. DOMAIN notes' = DOMAIN notes /\ DOMAIN actor.read \in SUBSET DOMAIN notes'
    BY <1>3, ConsolidateEffect
  <2>3. unlinked' = unlinked \ DOMAIN actor.read
    BY <1>3 DEF Consolidate
  <2>4. unlinked \subseteq unlinked' \cup DOMAIN actor.read
    BY <2>3
  <2> QED
    BY <1>i, <2>1, <2>2, <2>4, UnindexedSame DEF Noded
<1>4. CASE Rebuild
  <2> DEFINE episodic == DOMAIN notes \cap Admitted
  <2>1. UNCHANGED <<notes, synced, driver, unlinked>> /\ nodes' = nodes \cup episodic /\ edges \subseteq edges'
    BY <1>4 DEF Rebuild, fates
  <2>2. nodes' \ Unindexed' \subseteq nodes \ Unindexed
    <3>1. episodic \ Unindexed \subseteq nodes
      BY Apart DEF Noded
    <3> QED
      BY <2>1, <3>1, UnindexedSame
  <2> QED
    BY <2>1, <2>2, UnindexedSame DEF Linked, Noded, Related, WordsOf, Unfinished
<1>5. CASE Evolve
  <2>1. PICK k \in Nat :
             LET new == (Made + 1)..(Made + k)
             IN  /\ DOMAIN notes' = DOMAIN notes \cup new
                 /\ nodes' = nodes \cup new
                 /\ edges' = edges \cup UNION {LinksOf(n, notes') \cup {{p, n} : p \in notes'[n].parents} : n \in new}
    BY <1>5, Evolved
  <2> DEFINE new == (Made + 1)..(Made + k)
  <2>2. /\ DOMAIN notes' = DOMAIN notes \cup new /\ nodes' = nodes \cup new
        /\ edges' = edges \cup UNION {LinksOf(n, notes') \cup {{p, n} : p \in notes'[n].parents} : n \in new}
    BY <2>1
  <2> HIDE DEF new
  <2>3. edges \subseteq edges' /\ \A n \in new : LinksOf(n, notes') \subseteq edges'
    BY <2>2
  <2>4. Unindexed' = Unindexed /\ synced' = synced
    BY <1>5, UnindexedSame DEF Evolve, Returned, Exclusive, Unindexed, Now
  <2>6. unlinked' = unlinked
    BY <1>5 DEF Evolve, fates
  <2>5. Linked'
    BY <1>t, <2>2, <2>3, <2>4, <2>6, LinkedGrows DEF Unfinished
  <2> QED
    BY <2>2, <2>4, <2>5 DEF Noded
<1>6. CASE Store
  <2>1. DOMAIN notes' = DOMAIN notes \cup {Now.id} /\ UNCHANGED <<nodes, edges, synced>>
    BY <1>6, StoreEffect DEF Store
  <2>2. Unindexed = {} /\ Unindexed' = {Now.id}
    BY <1>6 DEF Store, Unindexed, Now, TasksTyped
  <2>3. unlinked' = unlinked
    BY <1>6 DEF Store, fates
  <2> QED
    BY <2>1, <2>2, <2>3 DEF Linked, Noded, Related, WordsOf, Unfinished
<1>7. CASE IndexStored
  <2>1. Index({Now.id}, notes') /\ UNCHANGED <<notes, synced>> /\ Unindexed = {Now.id} /\ Unindexed' = {}
        /\ Now.id \in DOMAIN notes
    BY <1>7 DEF IndexStored, Unindexed, Placed, TasksTyped
  <2>2. DOMAIN notes \ (Unindexed' \cup Stored) \subseteq nodes \cup {Now.id}
    BY <2>1 DEF Noded
  <2>3. unlinked' = unlinked
    BY <1>7 DEF IndexStored, fates
  <2> QED
    BY <1>i, <2>1, <2>2, <2>3
<1>8. CASE BeginQuestion
  <2>1. notes' = notes /\ Unindexed = {} /\ Unindexed' = {} /\ synced' = TRUE /\ unlinked' = unlinked
    BY <1>8 DEF BeginQuestion, EnsureGraphIndex, Unindexed, TasksTyped, fates
  <2>2. CASE synced
    <3>1. UNCHANGED <<nodes, edges, synced>>
      BY <1>8, <2>1, <2>2 DEF BeginQuestion, EnsureGraphIndex, RepositoryTyped
    <3> QED
      BY <1>u, <2>1, <3>1
  <2>3. CASE ~synced
    <3>1. Index(DOMAIN notes \ nodes, notes')
      BY <1>8, <2>1, <2>3 DEF BeginQuestion, EnsureGraphIndex
    <3>2. nodes' = nodes \cup (DOMAIN notes \ nodes) /\ edges \subseteq edges'
          /\ \A id \in DOMAIN notes \ nodes : LinksOf(id, notes') \subseteq edges'
      BY <3>1 DEF Index
    <3>3. Linked'
      BY <1>t, <2>1, <3>2, LinkedGrows DEF Unfinished
    <3>4. Noded'
      BY <2>1, <3>2 DEF Noded, RepositoryTyped
    <3> QED
      BY <3>3, <3>4
  <2> QED
    BY <2>2, <2>3
<1>9. CASE UNCHANGED <<repository, driver, unlinked>>
  BY <1>u, <1>9, UnindexedSame DEF repository
<1>10. ASSUME UNCHANGED <<repository, unlinked>>, driver.at # "index", driver'.at # "index" PROVE Linked' /\ Noded'
  BY <1>u, <1>10, UnindexedSame DEF repository
<1>11. CASE Worker
  BY <1>1, <1>2, <1>9, <1>11 DEF Worker, Take, Read, Done, Swap, fates
<1>12. CASE HandlerRaises \/ Swap("driver") \/ UNCHANGED memoryVars
  BY <1>9, <1>12 DEF HandlerRaises, Swap, memoryVars, repository, fates
<1>13. CASE FlushRaises
  BY <1>9, <1>10, <1>13 DEF FlushRaises, Exclusive, TasksTyped
<1>14. CASE SearchRaises \/ RequestFails \/ RecordFailed \/ Barrier \/ AfterFlush \/ Enqueue
  BY <1>10, <1>14 DEF SearchRaises, RequestFails, RecordFailed, Barrier, AfterFlush, Enqueue, Advanced, FailedRequest,
                      TasksTyped, fates
<1>15. CASE BeginTurn \/ SearchEnds \/ Stop \/ Join \/ StopRaises
  BY <1>10, <1>15 DEF BeginTurn, SearchEnds, Stop, Join, StopRaises, TasksTyped, fates
<1>16. CASE CommitFails
  <2>0. PICK id \in DOMAIN notes : id = Now.id
    BY <1>16 DEF CommitFails, Placed
  <2>1. driver'.at = "next"
    BY <1>16 DEF CommitFails, FailedRequest, Advanced, TasksTyped
  <2>2. CASE driver.at = "index"
    <3>1. nodes' = nodes \cup {id} /\ unlinked' = unlinked \cup {id} /\ UNCHANGED <<notes, edges, synced>>
      BY <1>16, <2>0, <2>2 DEF CommitFails
    <3>2. Unindexed = {id} /\ Unindexed' = {}
      BY <2>0, <2>1, <2>2 DEF Unindexed
    <3> QED
      BY <3>1, <3>2 DEF Linked, Noded, Related, WordsOf, Unfinished
  <2>3. CASE driver.at # "index"
    <3>1. UNCHANGED <<repository, unlinked>>
      BY <1>16, <2>3 DEF CommitFails, repository
    <3> QED
      BY <1>10, <2>1, <2>3, <3>1
  <2> QED
    BY <2>2, <2>3
<1> QED
  BY <1>3, <1>4, <1>5, <1>6, <1>7, <1>8, <1>11, <1>12, <1>13, <1>14, <1>15, <1>16 DEF MemoryNext, Thread, Driver

LEMMA GraphGives ==
    ASSUME MemoryTypeOK, WordsKept, Linked, Noded
    PROVE  GraphDerived
<1> SUFFICES ASSUME synced, driver.at # "index"
             PROVE  /\ nodes = DOMAIN notes
                    /\ UNION edges \subseteq nodes
                    /\ \A id \in DOMAIN notes \ unlinked :
                          \A link \in LinksOf(id, notes) : link \in edges \/ link \cap unlinked # {}
  BY DEF GraphDerived
<1>1. Unindexed = {}
  BY UnindexedSame
<1>2. nodes = DOMAIN notes
  BY <1>1 DEF Noded, MemoryTypeOK, RepositoryTyped
<1>3. UNION edges \subseteq nodes
  BY <1>2 DEF MemoryTypeOK, RepositoryTyped
<1>4. ASSUME NEW x \in DOMAIN notes \ unlinked
      PROVE  \A link \in LinksOf(x, notes) : link \in edges \/ link \cap unlinked # {}
  <2>1. \A y \in DOMAIN notes \ {x} : Related(x, y) => {x, y} \in edges \/ y \in unlinked
    BY <1>1, <1>2 DEF Linked, Unfinished
  <2>2. LinksOf(x, notes) = {{x, y} : y \in {o \in DOMAIN notes \ {x} : Related(x, o)}}
    BY LinksAre
  <2> QED
    BY <2>1, <2>2
<1> QED
  BY <1>2, <1>3, <1>4

-----------------------------------------------------------------------------
(* No admitted memory is forgotten. *)

Prepared(id) == notes[id].encoded /\ notes[id].scored

\* Somebody still has to maintain the memory, or somebody has, or its failure
\* is recorded, or its request failed, or its batch was lost.
Owed(id) ==
    \/ id \in failures \cup unqueued
    \/ id \in ToSet(queue)
    \/ worker.at \in {"read", "encode", "score"} /\ worker.event = id
    \/ Prepared(id) /\ \/ notes[id].decays > 0
                       \/ id \in ToSet(pending) \cup lost
                       \/ actor.at = "consolidate" /\ id \in actor.batch
    \/ driver.at \in {"index", "enqueue"} /\ Now.id = id

Accounted == \A id \in DOMAIN notes \cap Admitted : Owed(id)

LEMMA FatesKept ==
    ASSUME [MemoryNext]_memoryVars
    PROVE  failures \subseteq failures' /\ unqueued \subseteq unqueued' /\ lost \subseteq lost'
  BY DEF fates, CommitFails, MemoryNext, memoryVars, Worker, Thread, Driver, Take, Read, Encode, Score, Done, Swap, Consolidate, Rebuild,
         Evolve, HandlerRaises, FlushRaises, SearchRaises, RequestFails, BeginTurn, BeginQuestion, SearchEnds, Store,
         IndexStored, Enqueue, RecordFailed, Barrier, Stop, Join, AfterFlush, StopRaises

LEMMA OwedStep ==
    ASSUME MemoryTypeOK, Placed, Copies, Fresh, Numbered, Generations, Exclusive, [MemoryNext]_memoryVars,
           NEW id \in DOMAIN notes \cap Admitted, Owed(id)
    PROVE  Owed(id)'
<1> USE DEF MemoryTypeOK, TasksTyped
<1>1. failures \subseteq failures' /\ unqueued \subseteq unqueued' /\ lost \subseteq lost'
  BY FatesKept
<1>2. /\ Prepared(id) => Prepared(id)'
      /\ notes[id].decays > 0 => notes'[id].decays > 0
  <2>1. Succeeds(notes[id], notes'[id]) /\ notes'[id] \in Note /\ notes[id] \in Note
    BY NotesStep, NotesFacts DEF RepositoryTyped, Notes
  <2> QED
    BY <2>1 DEF Succeeds, Prepared, Note
<1> DEFINE InQueue == id \in ToSet(queue)
           InHand == worker.at \in {"read", "encode", "score"} /\ worker.event = id
           InBatch == id \in ToSet(pending) \/ (actor.at = "consolidate" /\ id \in actor.batch)
           InRequest == driver.at \in {"index", "enqueue"} /\ Now.id = id
<1>3. ASSUME InQueue => Owed(id)', InHand => Owed(id)', Prepared(id) /\ InBatch => Owed(id)', InRequest => Owed(id)'
      PROVE  Owed(id)'
  BY <1>1, <1>2, <1>3 DEF Owed
<1>q. UNCHANGED queue /\ InQueue => Owed(id)'
  BY DEF Owed
<1>h. UNCHANGED worker /\ InHand => Owed(id)'
  BY DEF Owed
<1>b. UNCHANGED <<pending, actor>> /\ Prepared(id) /\ InBatch => Owed(id)'
  BY <1>2 DEF Owed
<1>r. UNCHANGED driver /\ InRequest => Owed(id)'
  BY DEF Owed, Now
<1>4. CASE UNCHANGED <<queue, worker, pending, actor, driver>>
  BY <1>3, <1>q, <1>h, <1>b, <1>r, <1>4
<1>5. CASE Take
  <2>1. ToSet(queue) = {Head(queue)} \cup ToSet(Tail(queue))
    BY <1>5, QueueFacts DEF Take
  <2>2. InQueue => Owed(id)'
    BY <1>5, <2>1 DEF Take, Owed
  <2> QED
    BY <1>3, <1>b, <1>r, <1>5, <2>2 DEF Take
<1>6. CASE Read \/ Encode
  <2>1. InHand => Owed(id)'
    BY <1>6, ZenonT(30) DEF Read, Encode, Owed
  <2> QED
    BY <1>3, <1>q, <1>b, <1>r, <1>6, <2>1 DEF Read, Encode
<1>7. CASE Score
  <2>1. worker.event \in Admitted /\ pending' = Append(pending, worker.event)
    BY <1>7 DEF Score, Placed
  <2>2. ToSet(pending') = ToSet(pending) \cup {worker.event}
    BY <2>1, QueueFacts
  <2>3. worker.event = id => Prepared(id)'
    <3>1. notes[worker.event].encoded /\ notes'[worker.event] = Salient(notes[worker.event]) /\ worker.event \in DOMAIN notes
      BY <1>7, ScoreEffect
    <3>2. notes[worker.event] \in Note
      BY <3>1, NotesFacts DEF RepositoryTyped
    <3> QED
      BY <3>1, <3>2, UpdatesSucceed DEF Prepared
  <2>4. InHand => Owed(id)'
    BY <2>2, <2>3 DEF Owed
  <2>5. Prepared(id) /\ InBatch => Owed(id)'
    BY <1>2, <1>7, <2>2 DEF Score, Owed
  <2> QED
    BY <1>3, <1>q, <1>r, <1>7, <2>4, <2>5 DEF Score
<1>8. CASE Done
  BY <1>3, <1>q, <1>b, <1>r, <1>8 DEF Done
<1>9. CASE HandlerRaises
  <2>1. InHand => Owed(id)'
    <3>1. CASE worker.tries < Retries
      BY <1>9, <3>1 DEF HandlerRaises, Failed, Owed
    <3>2. CASE ~(worker.tries < Retries)
      BY <1>9, <3>2 DEF HandlerRaises, GivenUp, Owed
    <3> QED
      BY <3>1, <3>2
  <2> QED
    BY <1>3, <1>q, <1>b, <1>r, <1>9, <2>1 DEF HandlerRaises
<1>10. ASSUME NEW task \in {"worker", "driver"}, Swap(task) PROVE Owed(id)'
  <2>1. actor = NoActor /\ actor' = [task |-> task, at |-> "consolidate", batch |-> ToSet(pending), read |-> notes]
    BY <1>10 DEF Swap, Exclusive
  <2>2. Prepared(id) /\ InBatch => Owed(id)'
    BY <1>2, <2>1 DEF Owed, NoActor
  <2> QED
    BY <1>3, <1>q, <1>h, <1>r, <1>10, <2>2 DEF Swap
<1>11. CASE Consolidate
  <2>1. ASSUME Prepared(id), actor.at = "consolidate", id \in actor.batch
        PROVE  Owed(id)'
    <3>1. id \in DOMAIN actor.read
      BY <2>1 DEF Copies
    <3>2. notes'[id] = Decayed(notes[id]) /\ notes[id] \in Note
      BY <1>11, <3>1, ConsolidateEffect, NotesFacts DEF RepositoryTyped
    <3>3. notes'[id].decays > 0
      BY <3>2, UpdatesSucceed
    <3> QED
      BY <1>2, <2>1, <3>3 DEF Owed
  <2>2. Prepared(id) /\ id \in ToSet(pending) => Owed(id)'
    BY <1>2, <1>11 DEF Consolidate, Owed
  <2> QED
    BY <1>3, <1>q, <1>h, <1>r, <1>11, <2>1, <2>2 DEF Consolidate
<1>12. CASE Rebuild
  <2>1. Prepared(id) /\ InBatch => Owed(id)'
    BY <1>2, <1>12 DEF Rebuild, Owed
  <2> QED
    BY <1>3, <1>q, <1>h, <1>r, <1>12, <2>1 DEF Rebuild
<1>13. CASE Evolve
  <2>1. Prepared(id) /\ InBatch => Owed(id)'
    BY <1>2, <1>13 DEF Evolve, Owed
  <2>2. (InHand => Owed(id)') /\ (InRequest => Owed(id)')
    BY <1>h, <1>r, <1>13 DEF Evolve, Returned, Exclusive
  <2> QED
    BY <1>3, <1>q, <1>13, <2>1, <2>2 DEF Evolve
<1>14. CASE FlushRaises
  <2>1. (InHand => Owed(id)') /\ (InRequest => Owed(id)')
    BY <1>h, <1>r, <1>14 DEF FlushRaises, Exclusive
  <2>2. ASSUME Prepared(id), actor.at = "consolidate", id \in actor.batch
        PROVE  Owed(id)'
    <3>1. CASE id \in lost'
      BY <1>2, <2>2, <3>1 DEF Owed
    <3>2. CASE actor.task = "worker" /\ id = worker.event /\ worker.tries < Retries
      <4>1. worker' = [worker EXCEPT !.at = "read", !.note = Nothing, !.tries = worker.tries + 1]
        BY <1>14, <3>2 DEF FlushRaises, Failed
      <4> QED
        BY <3>2, <4>1 DEF Owed
    <3>3. CASE actor.task = "worker" /\ id = worker.event /\ ~(worker.tries < Retries)
      BY <1>14, <3>3 DEF FlushRaises, GivenUp, Owed
    <3> QED
      BY <1>14, <2>2, <3>1, <3>2, <3>3 DEF FlushRaises
  <2>3. Prepared(id) /\ id \in ToSet(pending) => Owed(id)'
    BY <1>2, <1>14 DEF FlushRaises, Owed
  <2> QED
    BY <1>3, <1>q, <1>14, <2>1, <2>2, <2>3 DEF FlushRaises
<1>15. CASE Enqueue
  <2>2. ToSet(queue) \subseteq ToSet(queue') /\ (Now.id \in ToSet(queue') \/ Now.id \in failures')
    BY <1>15, EnqueueEffect
  <2>3. (InQueue => Owed(id)') /\ (InRequest => Owed(id)')
    BY <2>2 DEF Owed
  <2> QED
    BY <1>3, <1>h, <1>b, <1>15, <2>3 DEF Enqueue
<1>16. CASE IndexStored
  <2>1. InRequest => Owed(id)'
    BY <1>16 DEF IndexStored, Owed, Now
  <2> QED
    BY <1>3, <1>q, <1>h, <1>b, <1>16, <2>1 DEF IndexStored
<1>17. ASSUME driver.at \notin {"index", "enqueue"}, UNCHANGED <<queue, worker, pending, actor>> PROVE Owed(id)'
  BY <1>3, <1>q, <1>h, <1>b, <1>17
<1>18. CASE BeginTurn \/ BeginQuestion \/ SearchEnds \/ Store \/ RecordFailed \/ Barrier \/ Stop \/ Join \/ AfterFlush
            \/ StopRaises \/ SearchRaises \/ RequestFails
  BY <1>17, <1>18 DEF BeginTurn, BeginQuestion, SearchEnds, Store, RecordFailed, Barrier, Stop, Join, AfterFlush,
                      StopRaises, SearchRaises, RequestFails
<1>19. CASE CommitFails
  <2>1. InRequest => Owed(id)'
    BY <1>19 DEF CommitFails, Owed
  <2> QED
    BY <1>3, <1>q, <1>h, <1>b, <1>19, <2>1 DEF CommitFails
<1> QED
  BY <1>4, <1>5, <1>6, <1>7, <1>8, <1>9, <1>10, <1>11, <1>12, <1>13, <1>14, <1>15, <1>16, <1>18, <1>19
     DEF MemoryNext, Worker, Thread, Driver, memoryVars

LEMMA AccountedStep ==
    ASSUME MemoryTypeOK, Placed, Copies, Fresh, Numbered, Generations, Exclusive, Accounted, [MemoryNext]_memoryVars
    PROVE  Accounted'
<1>1. \A id \in DOMAIN notes \cap Admitted : Owed(id)'
  BY OwedStep DEF Accounted
<1>2. CASE DOMAIN notes' = DOMAIN notes
  BY <1>1, <1>2 DEF Accounted
<1>3. CASE Store
  <2>1. PICK new \in Admitted : new = Now.id /\ DOMAIN notes' = DOMAIN notes \cup {new}
    BY <1>3, StoreEffect
  <2>2. driver' = [driver EXCEPT !.at = "index"]
    BY <1>3 DEF Store
  <2>3. driver'.at = "index" /\ Now' = Now
    BY <2>2 DEF MemoryTypeOK, TasksTyped, Now
  <2>4. Owed(new)'
    BY <2>1, <2>3 DEF Owed
  <2> QED
    BY <1>1, <2>1, <2>4 DEF Accounted
<1>4. CASE Evolve
  <2>1. PICK k \in Nat : LET new == (Made + 1)..(Made + k) IN new \subseteq Abstractions /\ DOMAIN notes' = DOMAIN notes \cup new
    BY <1>4, Evolved
  <2>2. DOMAIN notes' \cap Admitted = DOMAIN notes \cap Admitted
    BY <2>1, Apart
  <2> QED
    BY <1>1, <2>2 DEF Accounted
<1>5. CASE Encode \/ Score \/ Consolidate
  BY <1>2, <1>5, EncodeEffect, ScoreEffect, ConsolidateEffect
<1>6. CASE notes' = notes
  BY <1>2, <1>6
<1> QED
  BY <1>3, <1>4, <1>5, <1>6, NotesChange

-----------------------------------------------------------------------------
(* The barrier before a question. *)

\* The next step, or the one under way, is a question behind its barrier.
Asked ==
    /\ mode = "flush_before_question" /\ driver.at \in {"next", "search"}
    /\ Now.kind = "question" /\ ~driver.failed
AtRest == queue = <<>> /\ worker.at = "idle" /\ pending = <<>> /\ actor = NoActor
Rested == Asked => AtRest /\ (driver.at = "search" => driver.seen = nodes)

\* Only the end of its barrier comes before a question.
LEMMA QuestionBegins ==
    ASSUME MemoryTypeOK, Now.kind # "stop", driver' = Advanced, Now'.kind = "question"
    PROVE  Now = Step("barrier", "before_question")
<1>1. driver.step \in DOMAIN Program /\ driver'.step = driver.step + 1
  BY DEF MemoryTypeOK, TasksTyped, Advanced
<1>2. driver.step + 1 \in DOMAIN Program
  BY <1>1, ProgramEnd DEF Now
<1> QED
  BY <1>1, <1>2, BeforeQuestion DEF Now

LEMMA RestedStep ==
    ASSUME MemoryTypeOK, Placed, Exclusive, Rested, [MemoryNext]_memoryVars
    PROVE  Rested'
<1> USE DEF MemoryTypeOK, TasksTyped
<1> SUFFICES ASSUME Asked'
             PROVE  AtRest' /\ (driver'.at = "search" => driver'.seen = nodes')
  BY DEF Rested
<1> DEFINE Goal == AtRest' /\ (driver'.at = "search" => driver'.seen = nodes')
<1>m. mode' = mode
  BY DEF MemoryNext, memoryVars, Worker, Thread, Driver, Take, Read, Encode, Score, Done, Swap, Consolidate, Rebuild,
         Evolve, HandlerRaises, FlushRaises, SearchRaises, RequestFails, BeginTurn, BeginQuestion, SearchEnds, Store,
         IndexStored, Enqueue, RecordFailed, Barrier, Stop, Join, AfterFlush, StopRaises, CommitFails
<1>u. UNCHANGED driver => AtRest /\ (driver.at = "search" => driver.seen = nodes)
  BY <1>m DEF Rested, Asked, Now
<1>a. ASSUME driver' = Advanced, Now.kind # "stop"
      PROVE  Now.kind = "barrier" /\ Now.id = "before_question" /\ ~driver.failed /\ mode = "flush_before_question"
  <2>1. Now = Step("barrier", "before_question")
    BY <1>a, QuestionBegins DEF Asked
  <2>2. Now.kind = "barrier" /\ Now.id = "before_question"
    BY <2>1, StepFields
  <2> QED
    BY <1>a, <1>m, <2>2 DEF Asked, Advanced
<1>n. NoActor.task = Nothing /\ NoActor.at = "off"
  BY DEF NoActor
<1>1. CASE UNCHANGED <<nodes, queue, worker, pending, actor, driver>>
  BY <1>u, <1>1 DEF AtRest
<1>2. CASE Take \/ Read \/ Encode \/ Score \/ Done \/ HandlerRaises
  <2>1. UNCHANGED driver /\ (queue # <<>> \/ worker.at # "idle")
    BY <1>2 DEF Take, Read, Encode, Score, Done, HandlerRaises
  <2> QED
    BY <1>u, <2>1 DEF AtRest
<1>3. CASE Swap("worker") \/ Swap("driver") \/ Consolidate \/ Rebuild
  <2>1. UNCHANGED driver /\ (pending # <<>> \/ actor.at # "off")
    BY <1>3 DEF Swap, Consolidate, Rebuild
  <2> QED
    BY <1>u, <1>n, <2>1 DEF AtRest
<1>4. CASE Evolve \/ FlushRaises
  <2>1. actor # NoActor
    BY <1>n, <1>4 DEF Evolve, FlushRaises
  <2>2. actor.task = "driver" => driver.at = "flush" /\ driver'.at \in {"flushed", "raised"}
    BY <1>4 DEF Evolve, Returned, FlushRaises, Exclusive
  <2>3. actor.task # "driver" => UNCHANGED driver
    BY <1>4 DEF Evolve, Returned, FlushRaises, Exclusive, NoActor
  <2> QED
    BY <1>u, <2>1, <2>2, <2>3 DEF AtRest, Asked
<1>5. CASE BeginTurn \/ SearchEnds \/ Store \/ IndexStored \/ Join \/ StopRaises
  <2>1. driver'.at \notin {"next", "search"}
    BY <1>5 DEF BeginTurn, SearchEnds, Store, IndexStored, Join, StopRaises
  <2> QED
    BY <2>1 DEF Asked
<1>6. CASE Stop
  BY <1>6 DEF Stop, Asked
<1>7. CASE BeginQuestion
  <2>1. Asked
    BY <1>m, <1>7 DEF BeginQuestion, Asked
  <2>2. driver'.seen = nodes' /\ UNCHANGED <<queue, worker, pending, actor>>
    BY <1>7 DEF BeginQuestion
  <2> QED
    BY <2>1, <2>2 DEF Rested, AtRest
<1>8. CASE Enqueue \/ SearchRaises
  <2>1. driver' = Advanced /\ Now.kind \in Requests
    BY <1>8 DEF Enqueue, SearchRaises, Placed, Requests
  <2> QED
    BY <1>a, <2>1 DEF Requests
<1>9. CASE RecordFailed
  <2>1. driver' = Advanced /\ driver.failed /\ Now.kind # "stop"
    BY <1>9, StepFields DEF RecordFailed
  <2> QED
    BY <1>a, <2>1
<1>10. CASE RequestFails \/ CommitFails
  <2>0. driver' = FailedRequest /\ Now.kind \in Requests
    BY <1>10 DEF RequestFails, CommitFails, Placed, Requests
  <2>1. CASE Now.kind = "turn"
    BY <2>0, <2>1 DEF FailedRequest, Asked
  <2>2. CASE Now.kind = "question"
    BY <1>a, <2>0, <2>2 DEF FailedRequest
  <2> QED
    BY <2>0, <2>1, <2>2 DEF Requests
<1>11. CASE Barrier
  <2>1. CASE FlushesAt(mode, Now.id)
    BY <1>11, <2>1 DEF Barrier, Asked
  <2>2. CASE ~FlushesAt(mode, Now.id)
    BY <1>a, <1>11, <2>2 DEF Barrier, FlushesAt, FlushesBy
  <2> QED
    BY <2>1, <2>2
<1>12. CASE AfterFlush
  <2>1. CASE Now.kind = "stop"
    BY <1>12, <2>1 DEF AfterFlush, Asked
  <2>2. CASE Now.kind # "stop"
    <3>1. queue = <<>> /\ worker.at = "idle" /\ pending = <<>>
      BY <1>12 DEF AfterFlush, Exclusive
    <3>2. actor = NoActor
      BY <1>12 DEF AfterFlush, Exclusive
    <3> QED
      BY <1>12, <2>2, <3>1, <3>2 DEF AfterFlush, AtRest, Advanced
  <2> QED
    BY <2>1, <2>2
<1> QED
  BY <1>1, <1>2, <1>3, <1>4, <1>5, <1>6, <1>7, <1>8, <1>9, <1>10, <1>11, <1>12
     DEF MemoryNext, Worker, Thread, Driver, memoryVars

LEMMA RestGives ==
    ASSUME MemoryTypeOK, Placed, Rested, Accounted
    PROVE  QuestionAtRest
<1> SUFFICES ASSUME mode = "flush_before_question", driver.at = "search"
             PROVE  /\ driver.seen = nodes /\ AtRest
                    /\ \A id \in DOMAIN notes \cap Admitted : Settled(id)
  BY DEF QuestionAtRest, AtRest
<1>1. Asked
  BY DEF Asked, Placed
<1>2. AtRest /\ driver.seen = nodes
  BY <1>1 DEF Rested
<1>3. ToSet(queue) = {} /\ ToSet(pending) = {}
  BY <1>2, QueueFacts DEF AtRest, MemoryTypeOK, TasksTyped
<1>4. ASSUME NEW id \in DOMAIN notes \cap Admitted
      PROVE  Settled(id)
  BY <1>2, <1>3 DEF Accounted, Owed, AtRest, NoActor, Settled, Prepared
<1> QED
  BY <1>2, <1>4

-----------------------------------------------------------------------------
(* The inductive invariant and what it gives. *)

\* Every part needs others: a write takes nothing away because what is written
\* was copied from what is there (Copies), and the copies stay good because one
\* task at a time writes (Exclusive) and no request stores over a note (Fresh).
MemoryInv ==
    /\ MemoryTypeOK /\ Placed /\ Exclusive /\ Fresh /\ Copies
    /\ Numbered /\ Generations /\ LineagesInv
    /\ WordsKept /\ Linked /\ Noded
    /\ Accounted /\ Rested

LEMMA MemoryStart == MemoryInit => MemoryInv
<1> SUFFICES ASSUME MemoryInit PROVE MemoryInv
  OBVIOUS
<1> USE DEF MemoryInit
<1>1. DOMAIN notes = Stored /\ Stored \subseteq Ids /\ Stored \cap Abstractions = {} /\ Stored \cap Admitted = {}
  BY Apart DEF Ids
<1>2. ASSUME NEW id \in DOMAIN notes PROVE notes[id] = Blank(WordsOf(id)) /\ notes[id] \in Note
  <2>1. id \in Stored /\ id \in Ids /\ notes[id] = Blank(Words[id]) /\ WordsOf(id) = Words[id]
    BY <1>1, <1>2, Apart
  <2>2. notes[id] = Blank(WordsOf(id))
    BY <2>1
  <2> QED
    BY <2>1, <2>2, BlankNote
<1>3. ASSUME NEW id \in DOMAIN notes
      PROVE  /\ notes[id].words = WordsOf(id) /\ notes[id].parents = {} /\ notes[id].ancestors = {}
             /\ notes[id].origins = {} /\ notes[id].generation = 0
  BY <1>2 DEF Blank
<1>4. RepositoryTyped
  <2>1. notes \in [Stored -> Note] /\ Stored \in SUBSET Ids
    BY <1>1, <1>2
  <2> QED
    BY <1>1, <2>1 DEF RepositoryTyped, Notes
<1>5. TasksTyped
  <2>1. 1 \in DOMAIN Program /\ Len(Turns) \in Nat
    BY ProgramShape, MemoryAssumption
  <2>2. worker \in [at : WorkerPlaces, event : Admitted \cup {Nothing}, note : Note \cup {Nothing}, tries : Nat]
    BY DEF Idle, WorkerPlaces
  <2>3. actor \in [task : {"worker", "driver", Nothing}, at : {"off", "consolidate", "rebuild", "evolve"},
                   batch : SUBSET Admitted, read : Notes \cup {Nothing}]
    BY DEF NoActor
  <2>4. driver \in [step : DOMAIN Program, at : DriverPlaces, failed : BOOLEAN, seen : SUBSET Ids]
    BY <2>1 DEF DriverPlaces
  <2>5. faults \in 0..MaxFaults
    BY MemoryAssumption
  <2> QED
    BY <2>2, <2>3, <2>4, <2>5 DEF TasksTyped
<1>6. Placed /\ Exclusive
  <2>1. Nothing # "worker" /\ Nothing # "driver"
    BY MemoryAssumption
  <2>2. ToSet(queue) = {} /\ ToSet(pending) = {}
    BY DEF ToSet
  <2>3. Placed
    BY <2>2 DEF Placed, Idle
  <2> QED
    BY <2>1, <2>3 DEF Exclusive, NoActor
<1>7. Fresh /\ Copies
  BY <1>1 DEF Fresh, Copies, Idle, NoActor
<1>8. Numbered /\ Generations
  <2>1. Made = 0
    BY <1>1, FS_EmptySet DEF Made
  <2>2. Numbered
    BY <1>1, <2>1 DEF Numbered
  <2>3. Generations
    BY <1>1, <1>3 DEF Generations
  <2> QED
    BY <2>2, <2>3
<1>9. LineagesInv /\ WordsKept
  <2>1. \A id \in DOMAIN notes : Parents(id) = {} /\ Above(id) = {}
    BY <1>3 DEF Parents, Above
  <2> QED
    BY <1>1, <1>3, <2>1 DEF LineagesInv, WordsKept
<1>10. Linked /\ Noded
  BY <1>1 DEF Linked, Noded
<1>11. Accounted /\ Rested
  BY <1>1 DEF Accounted, Rested, AtRest, Idle
<1> QED
  BY <1>4, <1>5, <1>6, <1>7, <1>8, <1>9, <1>10, <1>11 DEF MemoryInv, MemoryTypeOK

LEMMA MemoryStep == MemoryInv /\ [MemoryNext]_memoryVars => MemoryInv'
<1> SUFFICES ASSUME MemoryInv, [MemoryNext]_memoryVars PROVE MemoryInv'
  OBVIOUS
<1> USE DEF MemoryInv
<1>1. DOMAIN notes \subseteq DOMAIN notes'
  BY NotesStep
<1>2. RepositoryTyped'
  BY RepositoryStep
<1>3. TasksTyped'
  BY <1>2, TasksStep
<1>4. Placed' /\ Exclusive'
  BY <1>1, PlacedStep, ExclusiveStep
<1>5. Fresh' /\ Copies'
  BY FreshStep, CopiesStep
<1>6. Numbered' /\ Generations' /\ LineagesInv'
  BY NumberedStep, LineagesStep
<1>7. WordsKept'
  BY WordsStep
<1>8. Linked' /\ Noded'
  BY <1>2, <1>7, LinkedStep
<1>9. Accounted' /\ Rested'
  BY AccountedStep, RestedStep
<1> QED
  BY <1>2, <1>3, <1>4, <1>5, <1>6, <1>7, <1>8, <1>9 DEF MemoryTypeOK

LEMMA MemoryInductive == MemorySpec => []MemoryInv
<1>1. MemoryInit => MemoryInv
  BY MemoryStart
<1>2. MemoryInv /\ [MemoryNext]_memoryVars => MemoryInv'
  BY MemoryStep
<1> QED
  BY <1>1, <1>2, PTL DEF MemorySpec

\* The repository, the graph and the tasks are of their types: no edge of the
\* graph dangles, and nobody holds the event of a memory that is not stored.
THEOREM MemoryTypes == MemorySpec => [](MemoryTypeOK /\ Placed)
<1>1. MemoryInv => MemoryTypeOK /\ Placed
  BY DEF MemoryInv
<1> QED
  BY <1>1, MemoryInductive, PTL

\* A note read before an await and written after it overwrites nothing that
\* anybody else made of it (MaintenancePipeline.handle, ConsolidationEngine.run).
THEOREM NothingOverwritten == MemorySpec => NoUpdateLost
<1> DEFINE Succeeded ==
          \A id \in DOMAIN notes :
             /\ id \in DOMAIN notes'
             /\ notes'[id] # notes[id] =>
                   /\ notes'[id].version > notes[id].version
                   /\ notes[id].encoded => notes'[id].encoded
                   /\ notes'[id].decays >= notes[id].decays
<1>1. MemoryInv /\ [MemoryNext]_memoryVars => Succeeded
  BY NotesStep DEF MemoryInv, Succeeds
<1> QED
  BY <1>1, MemoryInductive, PTL DEF MemorySpec, NoUpdateLost

\* However often abstractions are made of abstractions, one names everything
\* it was made from and ends at notes somebody wrote
\* (MemoryEvolutionEngine.evolve and its abstraction builder).
THEOREM Lineages == MemorySpec => []LineageClosed
<1>1. MemoryInv => LineageClosed
  BY LineagesGive DEF MemoryInv
<1> QED
  BY <1>1, MemoryInductive, PTL

\* After the index was synchronised, every write leaves the graph that a
\* rebuild from the notes would give (MemoryIndex).
THEOREM GraphOfNotes == MemorySpec => []GraphDerived
<1>1. MemoryInv => GraphDerived
  BY GraphGives DEF MemoryInv
<1> QED
  BY <1>1, MemoryInductive, PTL

\* A question behind its barrier searches a memory at rest (apply_barrier, the
\* supervisor's flush): nothing waits, and every admitted memory is encoded,
\* scored and consolidated, or its failure was recorded, or its own request
\* failed before it was queued, or its batch was lost to an engine that raised,
\* which leaves it encoded and scored and which nothing records.
THEOREM QuestionsAtRest == MemorySpec => []QuestionAtRest
<1>1. MemoryInv => QuestionAtRest
  BY RestGives DEF MemoryInv
<1> QED
  BY <1>1, MemoryInductive, PTL
=============================================================================
