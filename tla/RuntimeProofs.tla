---------------------------- MODULE RuntimeProofs ----------------------------
(***************************************************************************)
(* Theorems about Runtime for any callers, requests, settings, number of   *)
(* resets and size of the queue.                                           *)
(*                                                                         *)
(* A call and everything it stores belong to the environment that was      *)
(* current when it arrived; a reset changes what is current and nothing    *)
(* that belongs to somebody.                                               *)
(***************************************************************************)
EXTENDS Runtime, FiniteSetTheorems, SequenceTheorems, TLAPS

Fields ==
    {"at", "route", "session", "adapter", "environment", "todo", "completed", "retrieval",
     "compresses", "compressed", "evidence", "sufficiency", "decision", "action", "called",
     "generation", "outcome", "version", "committed", "created", "ingested", "admitted", "queued",
     "status", "result", "arrived"}

\* A call is a record with the fields of Idle, and the runtime's own variables are what
\* their comments say.
IsCall(x) == x = [f \in Fields |-> x[f]]

Roles == {"user", "assistant", "procedure", "document"}

Shape ==
    /\ settings = [f \in {"mode", "memory", "state", "owned", "rerank", "maintain"} |-> settings[f]]
    /\ current \in Environments
    /\ notes \in [Environments -> SUBSET (Calls \X Roles)]
    /\ queue \in [Environments -> Seq(Calls \X Roles)]
    /\ calls = [c \in Calls |-> calls[c]]
    /\ \A c \in Calls :
         /\ IsCall(calls[c])
         /\ calls[c].environment \in Environments /\ calls[c].arrived \in Environments

\* Who is running goes on in the environment it arrived in.
Bound == \A c \in Calls : calls[c].at = "running" => calls[c].environment = calls[c].arrived

\* The notes of an environment were stored by calls that arrived while it was current.
Owned ==
    \A e \in Environments : \A n \in notes[e] :
        calls[n[1]].at # "idle" /\ calls[n[1]].arrived = e

Cited ==
    \A c \in Calls :
        /\ calls[c].at = "idle" => calls[c].evidence = {}
        /\ \A n \in calls[c].evidence : n \in notes[calls[c].arrived]

\* What a call reports as stored is a finite part of its environment's notes.
Stored ==
    \A c \in Calls :
        /\ IsFiniteSet(CreatedIds(calls[c]))
        /\ CreatedIds(calls[c]) \subseteq notes[calls[c].environment]

\* What waits for a supervisor of the runtime's own is in its repository.
Waiting ==
    settings.owned =>
        /\ failed = {}
        /\ \A s \in Environments : \A i \in 1..Len(queue[s]) : queue[s][i] \in notes[s]

IInv == Shape /\ Bound /\ Owned /\ Cited /\ Stored /\ Waiting

-----------------------------------------------------------------------------
(* Calls. *)

LEMMA Fresh ==
    /\ IsCall(Idle) /\ Idle.evidence = {} /\ Idle.environment = 0 /\ Idle.arrived = 0
    /\ Idle.created = {} /\ Idle.ingested = {} /\ CreatedIds(Idle) = {}
<1>1. IsCall(Idle)
  BY ZenonT(30) DEF IsCall, Idle, Fields
<1>2. /\ Idle.evidence = {} /\ Idle.environment = 0 /\ Idle.arrived = 0
      /\ Idle.created = {} /\ Idle.ingested = {}
  BY DEF Idle
<1>3. CreatedIds(Idle) = {}
  BY <1>2 DEF CreatedIds
<1> QED
  BY <1>1, <1>2, <1>3

LEMMA FirstEnvironment == 0 \in Environments /\ Environments \subseteq Nat
  BY RuntimeAssumption DEF Environments

\* The fields that tell where a call belongs and what it has stored.
Same(x, y) ==
    /\ y.at = x.at /\ y.arrived = x.arrived /\ y.environment = x.environment
    /\ y.evidence = x.evidence /\ y.created = x.created /\ y.ingested = x.ingested

\* A phase changes the call it belongs to, and of that what it returned.
LEMMA FinishedSays ==
    ASSUME Shape, NEW c \in Calls, NEW phase, NEW x, IsCall(x), Finished(c, phase, x)
    PROVE  /\ calls' = [calls EXCEPT ![c] = calls'[c]]
           /\ IsCall(calls'[c]) /\ Same(x, calls'[c])
<1> DEFINE y == [x EXCEPT !.todo = Tail(@), !.completed = @ \cup {phase}]
<1>1. calls' = [calls EXCEPT ![c] = y]
  BY DEF Finished
<1>2. calls'[c] = y
  BY <1>1 DEF Shape
<1>3. IsCall(y) /\ Same(x, y)
  BY DEF IsCall, Fields, Same
<1> QED
  BY <1>1, <1>2, <1>3

-----------------------------------------------------------------------------
(* Phases. *)

\* What a phase may do to notes, queues and its own call.
Step(c) ==
    /\ calls[c].at = "running"
    /\ calls' = [calls EXCEPT ![c] = calls'[c]] /\ IsCall(calls'[c])
    /\ calls'[c].at = "running" /\ calls'[c].arrived = calls[c].arrived
    /\ calls'[c].environment = calls[c].environment
    /\ UNCHANGED <<settings, current, failed>>
    /\ notes' \in [Environments -> SUBSET (Calls \X Roles)]
    /\ \A e \in Environments : notes[e] \subseteq notes'[e]
    /\ \A e \in Environments : \A n \in notes'[e] \ notes[e] :
           n[1] = c /\ e = calls[c].environment
    /\ calls'[c].evidence \subseteq calls[c].evidence \cup notes[calls[c].environment]
    /\ IsFiniteSet(CreatedIds(calls'[c]))
    /\ CreatedIds(calls'[c]) \subseteq notes'[calls[c].environment]
    /\ queue' \in [Environments -> Seq(Calls \X Roles)]
    /\ settings.owned =>
           \A s \in Environments : \A i \in 1..Len(queue'[s]) : queue'[s][i] \in notes[s]

LEMMA StepKeeps ==
    ASSUME IInv, NEW c \in Calls, Step(c)
    PROVE  IInv'
<1>1. /\ calls' = [calls EXCEPT ![c] = calls'[c]]
      /\ \A d \in Calls : d # c => calls'[d] = calls[d]
      /\ calls[c].at = "running" /\ calls[c].environment = calls[c].arrived
      /\ calls[c].environment \in Environments
  BY DEF IInv, Shape, Step, Bound
<1>2. \A d \in Calls : calls'[d].at = calls[d].at /\ calls'[d].arrived = calls[d].arrived
  BY <1>1 DEF Step
<1>3. \A e \in Environments : notes[e] \subseteq notes'[e]
  BY DEF Step
<1>4. Shape'
  BY <1>1 DEF IInv, Shape, Step
<1>5. Bound'
  BY <1>1, <1>2 DEF IInv, Bound, Step
<1>6. Owned'
  <2> SUFFICES ASSUME NEW e \in Environments, NEW n \in notes'[e]
               PROVE  calls'[n[1]].at # "idle" /\ calls'[n[1]].arrived = e
    BY DEF Owned
  <2>1. n \in Calls \X Roles /\ n[1] \in Calls
    BY DEF Step
  <2>2. CASE n \in notes[e]
    BY <2>1, <2>2, <1>2 DEF IInv, Owned
  <2>3. CASE n \notin notes[e]
    <3>1. n[1] = c /\ e = calls[c].environment
      BY <2>3 DEF Step
    <3> QED
      BY <3>1, <1>1, <1>2
  <2> QED
    BY <2>2, <2>3
<1>7. Cited'
  <2> SUFFICES ASSUME NEW d \in Calls
               PROVE  /\ calls'[d].at = "idle" => calls'[d].evidence = {}
                      /\ \A n \in calls'[d].evidence : n \in notes'[calls'[d].arrived]
    BY DEF Cited
  <2>1. calls[d].evidence \subseteq notes[calls[d].arrived]
    BY DEF IInv, Cited
  <2>2. \A n \in calls[d].evidence : n \in notes'[calls[d].arrived]
    BY <2>1, <1>3 DEF IInv, Shape
  <2> QED
    BY <1>1, <1>2, <1>3, <2>1, <2>2 DEF Step, IInv, Cited
<1>8. Stored'
  BY <1>1, <1>3 DEF IInv, Stored, Shape, Step
<1>9. Waiting'
  BY <1>3 DEF IInv, Waiting, Step
<1> QED
  BY <1>4, <1>5, <1>6, <1>7, <1>8, <1>9 DEF IInv

\* A phase that stores nothing, cites nothing and enqueues nothing is a step.
LEMMA SameIsStep ==
    ASSUME IInv, NEW c \in Calls, calls[c].at = "running",
           calls' = [calls EXCEPT ![c] = calls'[c]], IsCall(calls'[c]), Same(calls[c], calls'[c]),
           UNCHANGED <<settings, current, notes, maintenance>>
    PROVE  Step(c)
<1>1. CreatedIds(calls'[c]) = CreatedIds(calls[c])
  BY DEF Same, CreatedIds
<1>2. IsFiniteSet(CreatedIds(calls[c])) /\ CreatedIds(calls[c]) \subseteq notes[calls[c].environment]
  BY DEF IInv, Stored
<1>3. \A e \in Environments : notes'[e] = notes[e]
  OBVIOUS
<1>4. /\ queue' \in [Environments -> Seq(Calls \X Roles)]
      /\ notes' \in [Environments -> SUBSET (Calls \X Roles)]
      /\ settings.owned =>
           \A s \in Environments : \A i \in 1..Len(queue'[s]) : queue'[s][i] \in notes[s]
  BY DEF IInv, Shape, Waiting, maintenance
<1> QED
  BY <1>1, <1>2, <1>3, <1>4 DEF Step, Same, maintenance

\* The record a controller returns, when it differs from the call in other fields only.
LEMMA ReturnsSame ==
    ASSUME IInv, NEW c \in Calls, NEW phase, NEW x, IsCall(x), Same(calls[c], x),
           calls[c].at = "running", Finished(c, phase, x),
           UNCHANGED <<settings, current, notes, maintenance>>
    PROVE  Step(c)
<1>1. Shape
  BY DEF IInv
<1>2. calls' = [calls EXCEPT ![c] = calls'[c]] /\ IsCall(calls'[c]) /\ Same(x, calls'[c])
  BY <1>1, FinishedSays
<1>3. Same(calls[c], calls'[c])
  BY <1>2 DEF Same
<1> QED
  BY <1>2, <1>3, SameIsStep

LEMMA AnalysingSteps ==
    ASSUME IInv, NEW c \in Calls,
           \/ SkipPhase(c) \/ LoadState(c) \/ Analyse(c) \/ Reflect(c) \/ Decide(c) \/ Act(c)
           \/ Generate(c) \/ ShapeOutput(c) \/ CommitState(c)
    PROVE  Step(c)
<1>0. IsCall(calls[c]) /\ Same(calls[c], calls[c]) /\ Shape
  BY DEF IInv, Shape, Same
<1>1. CASE SkipPhase(c)
  <2> DEFINE y == [calls[c] EXCEPT !.todo = Tail(@)]
  <2>1. calls' = [calls EXCEPT ![c] = y] /\ calls[c].at = "running"
    BY <1>1 DEF SkipPhase, At
  <2>2. calls'[c] = y
    BY <2>1, <1>0 DEF Shape
  <2>3. IsCall(y) /\ Same(calls[c], y)
    BY <1>0 DEF IsCall, Fields, Same
  <2> QED
    BY <1>1, <2>1, <2>2, <2>3, SameIsStep DEF SkipPhase, store
<1>2. CASE LoadState(c)
  <2> DEFINE x == [calls[c] EXCEPT !.version = stored[calls[c].session]]
  <2>1. IsCall(x) /\ Same(calls[c], x)
    BY <1>0 DEF IsCall, Fields, Same
  <2> QED
    BY <1>2, <2>1, ReturnsSame DEF LoadState, At, store
<1>3. CASE Analyse(c)
  BY <1>3, <1>0, ReturnsSame DEF Analyse, At, store
<1>4. CASE Reflect(c)
  BY <1>4, <1>0, ReturnsSame DEF Reflect, At, store
<1>5. CASE Decide(c)
  <2>1. PICK decision : Finished(c, "EXECUTION_DECISION", [calls[c] EXCEPT !.decision = decision])
    BY <1>5 DEF Decide
  <2> DEFINE x == [calls[c] EXCEPT !.decision = decision]
  <2>2. IsCall(x) /\ Same(calls[c], x)
    BY <1>0 DEF IsCall, Fields, Same
  <2> QED
    BY <1>5, <2>1, <2>2, ReturnsSame DEF Decide, At, store
<1>6. CASE Act(c)
  <2>1. PICK action : Finished(c, "ACTION", [calls[c] EXCEPT !.action = action])
    BY <1>6 DEF Act
  <2> DEFINE x == [calls[c] EXCEPT !.action = action]
  <2>2. IsCall(x) /\ Same(calls[c], x)
    BY <1>0 DEF IsCall, Fields, Same
  <2> QED
    BY <1>6, <2>1, <2>2, ReturnsSame DEF Act, At, store
<1>7. CASE Generate(c)
  <2> DEFINE called == Asks(calls[c])
  <2>1. PICK generation : Finished(c, "ANSWER_GENERATION",
            [calls[c] EXCEPT !.generation = generation, !.called = called])
    BY <1>7 DEF Generate
  <2> HIDE DEF called
  <2> DEFINE x == [calls[c] EXCEPT !.generation = generation, !.called = called]
  <2>2. IsCall(x) /\ Same(calls[c], x)
    BY <1>0 DEF IsCall, Fields, Same
  <2> QED
    BY <1>7, <2>1, <2>2, ReturnsSame DEF Generate, At, store
<1>8. CASE ShapeOutput(c)
  <2> DEFINE x == [calls[c] EXCEPT !.outcome = Shaped(calls[c])]
  <2>1. IsCall(x) /\ Same(calls[c], x)
    BY <1>0 DEF IsCall, Fields, Same
  <2> QED
    BY <1>8, <2>1, ReturnsSame DEF ShapeOutput, At, store
<1>9. CASE CommitState(c)
  <2> DEFINE x == [calls[c] EXCEPT !.version = @ + 1, !.committed = TRUE]
  <2>1. IsCall(x) /\ Same(calls[c], x)
    BY <1>0 DEF IsCall, Fields, Same
  <2>2. \/ Finished(c, "STATE_COMMIT", calls[c])
        \/ Finished(c, "STATE_COMMIT", x)
    BY <1>9 DEF CommitState
  <2> QED
    BY <1>9, <1>0, <2>1, <2>2, ReturnsSame DEF CommitState, At
<1> QED
  BY <1>1, <1>2, <1>3, <1>4, <1>5, <1>6, <1>7, <1>8, <1>9

LEMMA EvidenceStep ==
    ASSUME IInv, NEW c \in Calls, AcquireEvidence(c)
    PROVE  Step(c)
<1>0. IsCall(calls[c]) /\ Shape /\ calls[c].at = "running" /\ calls[c].environment \in Environments
  BY DEF IInv, Shape, AcquireEvidence, At
<1>1. PICK x : /\ Finished(c, "EVIDENCE_ACQUISITION", x) /\ IsCall(x)
               /\ Same([calls[c] EXCEPT !.evidence = x.evidence], x)
               /\ x.evidence \subseteq calls[c].evidence \cup notes[calls[c].environment]
  <2> DEFINE compressed == IF calls[c].compresses THEN "applied" ELSE "bypassed"
             retrieval == [strategies |-> Strategies(Of(calls[c]).profile),
                           reranker |-> IF settings.rerank THEN "active" ELSE "disabled"]
             bypassed(said) == [calls[c] EXCEPT !.compressed = compressed, !.sufficiency = said]
             searched(cited, said) ==
                 [calls[c] EXCEPT !.compressed = compressed, !.retrieval = retrieval,
                     !.evidence = cited, !.sufficiency = said]
  <2>1. ASSUME NEW said, Finished(c, "EVIDENCE_ACQUISITION", bypassed(said))
        PROVE  \E x : /\ Finished(c, "EVIDENCE_ACQUISITION", x) /\ IsCall(x)
                      /\ Same([calls[c] EXCEPT !.evidence = x.evidence], x)
                      /\ x.evidence \subseteq calls[c].evidence \cup notes[calls[c].environment]
    <3> HIDE DEF compressed
    <3>1. IsCall(bypassed(said)) /\ bypassed(said).evidence = calls[c].evidence
          /\ Same([calls[c] EXCEPT !.evidence = bypassed(said).evidence], bypassed(said))
      BY <1>0 DEF IsCall, Fields, Same
    <3> QED
      BY <2>1, <3>1
  <2>2. ASSUME NEW cited \in SUBSET Citable(calls[c]), NEW said,
               Finished(c, "EVIDENCE_ACQUISITION", searched(cited, said))
        PROVE  \E x : /\ Finished(c, "EVIDENCE_ACQUISITION", x) /\ IsCall(x)
                      /\ Same([calls[c] EXCEPT !.evidence = x.evidence], x)
                      /\ x.evidence \subseteq calls[c].evidence \cup notes[calls[c].environment]
    <3>1. cited \subseteq notes[calls[c].environment]
      BY DEF Citable
    <3> HIDE DEF compressed, retrieval
    <3>2. IsCall(searched(cited, said)) /\ searched(cited, said).evidence = cited
          /\ Same([calls[c] EXCEPT !.evidence = searched(cited, said).evidence],
                  searched(cited, said))
      BY <1>0, ZenonT(60) DEF IsCall, Fields, Same
    <3> QED
      BY <2>2, <3>1, <3>2
  <2> QED
    BY <2>1, <2>2 DEF AcquireEvidence
<1>2. calls' = [calls EXCEPT ![c] = calls'[c]] /\ IsCall(calls'[c]) /\ Same(x, calls'[c])
  BY <1>0, <1>1, FinishedSays
<1>3. /\ calls'[c].at = "running" /\ calls'[c].arrived = calls[c].arrived
      /\ calls'[c].environment = calls[c].environment /\ calls'[c].evidence = x.evidence
      /\ CreatedIds(calls'[c]) = CreatedIds(calls[c])
  BY <1>0, <1>1, <1>2 DEF Same, CreatedIds, IsCall, Fields
<1>4. UNCHANGED <<settings, current, notes, queue, failed>>
  BY DEF AcquireEvidence, store, maintenance
<1> QED
  BY <1>0, <1>1, <1>2, <1>3, <1>4 DEF Step, IInv, Shape, Stored, Waiting

LEMMA OwnNotes ==
    ASSUME NEW c \in Calls, NEW R \in SUBSET Roles, IsFiniteSet(R)
    PROVE  /\ {<<c, role>> : role \in R} \subseteq Calls \X Roles
           /\ IsFiniteSet({<<c, role>> : role \in R})
           /\ \A n \in {<<c, role>> : role \in R} : n[1] = c
<1> DEFINE new == {<<c, role>> : role \in R}
           f == [role \in R |-> <<c, role>>]
<1>1. new \subseteq Calls \X Roles /\ \A n \in new : n[1] = c
  OBVIOUS
<1>2. f \in Surjection(R, new)
  BY DEF Surjection
<1>3. IsFiniteSet(new)
  <2> HIDE DEF f, new
  <2> QED
    BY <1>2, FS_Surjection
<1> QED
  BY <1>1, <1>3

\* What is stored goes to the notes of the call's environment.
LEMMA StoringStep ==
    ASSUME IInv, NEW c \in Calls, calls[c].at = "running",
           calls' = [calls EXCEPT ![c] = calls'[c]], IsCall(calls'[c]),
           calls'[c].at = "running", calls'[c].arrived = calls[c].arrived,
           calls'[c].environment = calls[c].environment, calls'[c].evidence = calls[c].evidence,
           NEW R \in SUBSET Roles, IsFiniteSet(R),
           notes' = [notes EXCEPT ![calls[c].environment] = @ \cup {<<c, role>> : role \in R}],
           CreatedIds(calls'[c]) \subseteq CreatedIds(calls[c]) \cup {<<c, role>> : role \in R},
           UNCHANGED <<settings, current, maintenance>>
    PROVE  Step(c)
<1> DEFINE new == {<<c, role>> : role \in R}
<1>1. new \subseteq Calls \X Roles /\ IsFiniteSet(new) /\ \A n \in new : n[1] = c
  BY OwnNotes
<1> HIDE DEF new
<1>2. notes' = [notes EXCEPT ![calls[c].environment] = @ \cup new]
  BY DEF new
<1>3. calls[c].environment \in Environments /\ notes \in [Environments -> SUBSET (Calls \X Roles)]
  BY DEF IInv, Shape
<1>4. /\ notes' \in [Environments -> SUBSET (Calls \X Roles)]
      /\ \A e \in Environments : notes[e] \subseteq notes'[e]
      /\ \A e \in Environments : \A n \in notes'[e] \ notes[e] :
             n[1] = c /\ e = calls[c].environment
  BY <1>1, <1>2, <1>3
<1>5. IsFiniteSet(CreatedIds(calls'[c]))
  <2>1. IsFiniteSet(CreatedIds(calls[c]) \cup new)
    BY <1>1, FS_Union DEF IInv, Stored
  <2>2. CreatedIds(calls'[c]) \subseteq CreatedIds(calls[c]) \cup new
    BY DEF new
  <2> QED
    BY <2>1, <2>2, FS_Subset
<1>6. CreatedIds(calls'[c]) \subseteq notes'[calls[c].environment]
  <2>1. CreatedIds(calls'[c]) \subseteq CreatedIds(calls[c]) \cup new
    BY DEF new
  <2> QED
    BY <2>1, <1>2, <1>3 DEF IInv, Stored
<1> QED
  BY <1>4, <1>5, <1>6 DEF Step, IInv, Shape, Waiting, maintenance

LEMMA SomeRoles ==
    ASSUME NEW R \in SUBSET Roles
    PROVE  IsFiniteSet(R)
<1>1. IsFiniteSet({"user"} \cup {"assistant"}) /\ IsFiniteSet({"procedure"} \cup {"document"})
  BY FS_Singleton, FS_Union
<1>2. IsFiniteSet(({"user"} \cup {"assistant"}) \cup ({"procedure"} \cup {"document"}))
  BY <1>1, FS_Union
<1>3. Roles = ({"user"} \cup {"assistant"}) \cup ({"procedure"} \cup {"document"})
  BY DEF Roles
<1> QED
  BY <1>2, <1>3, FS_Subset

LEMMA MemorableRoles ==
    ASSUME NEW x
    PROVE  Memorable(x) \subseteq Roles
  BY DEF Memorable, Roles

LEMMA StoringSteps ==
    ASSUME IInv, NEW c \in Calls, IngestDocument(c) \/ CommitMemory(c) \/ PhaseFails(c)
    PROVE  Step(c)
<1>0. /\ IsCall(calls[c]) /\ Shape /\ calls[c].at = "running"
      /\ calls[c].environment \in Environments
  BY DEF IInv, Shape, IngestDocument, CommitMemory, PhaseFails, At
<1>1. CASE IngestDocument(c)
  <2> DEFINE new == {<<c, role>> : role \in {"document"}}
             x == [calls[c] EXCEPT !.ingested = new]
  <2>1. new = {<<c, "document">>} /\ {"document"} \in SUBSET Roles
    BY DEF Roles
  <2>2. /\ Finished(c, "DOCUMENT_INGESTION", x)
        /\ notes' = [notes EXCEPT ![calls[c].environment] = @ \cup new]
        /\ UNCHANGED <<settings, current, maintenance>>
    BY <1>1, <2>1 DEF IngestDocument
  <2> HIDE DEF new
  <2>3. /\ IsCall(x) /\ x.at = "running" /\ x.arrived = calls[c].arrived
        /\ x.environment = calls[c].environment /\ x.evidence = calls[c].evidence
        /\ x.ingested = new /\ x.created = calls[c].created
    BY <1>0 DEF IsCall, Fields
  <2>4. calls' = [calls EXCEPT ![c] = calls'[c]] /\ IsCall(calls'[c]) /\ Same(x, calls'[c])
    BY <1>0, <2>2, <2>3, FinishedSays
  <2>5. CreatedIds(calls'[c]) \subseteq CreatedIds(calls[c]) \cup new
    BY <2>3, <2>4 DEF Same, CreatedIds
  <2> QED
    BY <1>0, <2>1, <2>2, <2>3, <2>4, <2>5, SomeRoles, StoringStep DEF Same, new
<1>2. CASE CommitMemory(c)
  <2>1. PICK roles \in {{}, Memorable(calls[c])} :
            LET created == {<<c, role>> : role \in roles}
            IN  /\ notes' = [notes EXCEPT ![calls[c].environment] = @ \cup created]
                /\ Finished(c, "MEMORY_COMMIT",
                     [calls[c] EXCEPT !.created = created,
                        !.admitted = IF created = {} THEN "not_stored" ELSE "stored"])
    BY <1>2 DEF CommitMemory
  <2>2. roles \in SUBSET Roles
    BY MemorableRoles
  <2> DEFINE new == {<<c, role>> : role \in roles}
             said == IF new = {} THEN "not_stored" ELSE "stored"
             x == [calls[c] EXCEPT !.created = new, !.admitted = said]
  <2>3. /\ Finished(c, "MEMORY_COMMIT", x)
        /\ notes' = [notes EXCEPT ![calls[c].environment] = @ \cup new]
        /\ UNCHANGED <<settings, current, maintenance>>
    BY <1>2, <2>1 DEF CommitMemory
  <2> HIDE DEF new, said
  <2>4. /\ IsCall(x) /\ x.at = "running" /\ x.arrived = calls[c].arrived
        /\ x.environment = calls[c].environment /\ x.evidence = calls[c].evidence
        /\ x.ingested = calls[c].ingested /\ x.created = new
    BY <1>0 DEF IsCall, Fields
  <2>5. calls' = [calls EXCEPT ![c] = calls'[c]] /\ IsCall(calls'[c]) /\ Same(x, calls'[c])
    BY <1>0, <2>3, <2>4, FinishedSays
  <2>6. CreatedIds(calls'[c]) \subseteq CreatedIds(calls[c]) \cup new
    BY <2>4, <2>5 DEF Same, CreatedIds
  <2> QED
    BY <1>0, <2>2, <2>3, <2>4, <2>5, <2>6, SomeRoles, StoringStep DEF Same, new
<1>3. CASE PhaseFails(c)
  <2> DEFINE y == [calls[c] EXCEPT !.status = "FAILED"]
  <2>1. calls' = [calls EXCEPT ![c] = y] /\ UNCHANGED <<settings, current, maintenance>>
    BY <1>3 DEF PhaseFails
  <2>2. calls'[c] = y
    BY <2>1, <1>0 DEF Shape
  <2>3. IsCall(y) /\ Same(calls[c], y)
    BY <1>0 DEF IsCall, Fields, Same
  <2>4. CASE notes' = notes
    BY <1>0, <2>1, <2>2, <2>3, <2>4, SameIsStep
  <2>5. CASE notes' = [notes EXCEPT ![calls[c].environment] = @ \cup {<<c, "user">>}]
    <3> DEFINE new == {<<c, role>> : role \in {"user"}}
    <3>1. new = {<<c, "user">>} /\ {"user"} \in SUBSET Roles
      BY DEF Roles
    <3>2. notes' = [notes EXCEPT ![calls[c].environment] = @ \cup new]
      BY <2>5, <3>1
    <3>3. CreatedIds(calls'[c]) \subseteq CreatedIds(calls[c]) \cup new
      BY <2>2, <2>3 DEF Same, CreatedIds
    <3> HIDE DEF y
    <3> QED
      BY <1>0, <2>1, <2>2, <2>3, <3>1, <3>2, <3>3, SomeRoles, StoringStep DEF Same
  <2> QED
    BY <1>3, <2>4, <2>5 DEF PhaseFails
<1> QED
  BY <1>1, <1>2, <1>3

\* A cancelled workflow stores nothing more.
LEMMA CancelledStep ==
    ASSUME IInv, NEW c \in Calls, CancelledWithin(c)
    PROVE  Step(c)
<1> DEFINE y == [calls[c] EXCEPT !.status = "CANCELLED"]
<1>1. /\ calls' = [calls EXCEPT ![c] = y] /\ calls[c].at = "running"
      /\ UNCHANGED <<settings, current, notes, maintenance>>
  BY DEF CancelledWithin, At, store
<1>2. calls'[c] = y /\ IsCall(calls[c])
  BY <1>1 DEF IInv, Shape
<1>3. IsCall(y) /\ Same(calls[c], y)
  BY <1>2 DEF IsCall, Fields, Same
<1> QED
  BY <1>1, <1>2, <1>3, SameIsStep

\* Whatever is appended to a queue, in whatever order, is what the call has stored.
LEMMA EnqueueSteps ==
    ASSUME IInv, NEW c \in Calls, EnqueueMaintenance(c)
    PROVE  Step(c)
<1> DEFINE x == calls[c]
           s == Enqueuer(x)
<1>0. /\ IsCall(calls[c]) /\ Shape /\ calls[c].at = "running"
      /\ calls[c].environment \in Environments
  BY DEF IInv, Shape, EnqueueMaintenance, At
<1>1. PICK events \in Accepted(x, s) :
          /\ \E q \in Enqueued(s, events) : queue' = [queue EXCEPT ![s] = q]
          /\ Finished(c, "MAINTENANCE_ENQUEUE", [x EXCEPT !.queued = Cardinality(events)])
  BY DEF EnqueueMaintenance
<1>2. s \in Environments /\ (settings.owned => s = x.environment)
  BY <1>0, FirstEnvironment DEF Enqueuer, SupervisorOf
<1>3. /\ events \subseteq CreatedIds(x) /\ Cardinality(events) \in Nat
      /\ events \subseteq notes[x.environment] /\ events \subseteq Calls \X Roles
  <2>1. events \subseteq CreatedIds(x) /\ IsFiniteSet(CreatedIds(x))
    BY DEF Accepted, IInv, Stored
  <2>2. IsFiniteSet(events)
    BY <2>1, FS_Subset
  <2> QED
    BY <1>0, <2>1, <2>2, FS_CardinalityType DEF IInv, Stored, Shape
<1>4. PICK order \in [1..Cardinality(events) -> events] : queue' = [queue EXCEPT ![s] = queue[s] \o order]
  BY <1>1 DEF Enqueued
<1> HIDE DEF s, x
<1>5. order \in Seq(events) /\ order \in Seq(Calls \X Roles) /\ Len(order) = Cardinality(events)
  <2> DEFINE n == Cardinality(events)
  <2>1. n \in Nat /\ order \in [1..n -> events] /\ order \in [1..n -> Calls \X Roles]
    BY <1>3
  <2> HIDE DEF n
  <2>2. order \in Seq(events) /\ order \in Seq(Calls \X Roles) /\ Len(order) = n
    BY <2>1
  <2> QED
    BY <2>2 DEF n
<1>6. queue[s] \in Seq(Calls \X Roles) /\ queue \in [Environments -> Seq(Calls \X Roles)]
  BY <1>0, <1>2 DEF Shape
<1>7. queue' \in [Environments -> Seq(Calls \X Roles)]
  BY <1>2, <1>4, <1>5, <1>6
<1>8. ASSUME settings.owned
      PROVE  \A e \in Environments : \A i \in 1..Len(queue'[e]) : queue'[e][i] \in notes[e]
  <2>1. \A e \in Environments : \A i \in 1..Len(queue[e]) : queue[e][i] \in notes[e]
    BY <1>8 DEF IInv, Waiting
  <2>2. \A i \in 1..Len(order) : order[i] \in notes[s]
    BY <1>2, <1>3, <1>5, <1>8
  <2>3. \A i \in 1..Len(queue[s] \o order) : (queue[s] \o order)[i] \in notes[s]
    <3>0. /\ Len(queue[s] \o order) = Len(queue[s]) + Len(order)
          /\ \A j \in 1..Len(queue[s]) + Len(order) :
               (queue[s] \o order)[j] =
                 IF j <= Len(queue[s]) THEN queue[s][j] ELSE order[j - Len(queue[s])]
      <4> DEFINE q == queue[s]
      <4>1. q \in Seq(Calls \X Roles)
        BY <1>6
      <4> HIDE DEF q
      <4>2. /\ Len(q \o order) = Len(q) + Len(order)
            /\ \A j \in 1..Len(q) + Len(order) :
                 (q \o order)[j] = IF j <= Len(q) THEN q[j] ELSE order[j - Len(q)]
        BY <1>5, <4>1, ConcatProperties, Zenon
      <4> QED
        BY <4>2 DEF q
    <3> SUFFICES ASSUME NEW i \in 1..Len(queue[s] \o order)
                 PROVE  (queue[s] \o order)[i] \in notes[s]
      OBVIOUS
    <3>1. /\ Len(queue[s] \o order) = Len(queue[s]) + Len(order)
          /\ (queue[s] \o order)[i] =
               IF i <= Len(queue[s]) THEN queue[s][i] ELSE order[i - Len(queue[s])]
      BY <3>0
    <3>2. Len(queue[s]) \in Nat /\ Len(order) \in Nat
      BY <1>5, <1>6
    <3>3. CASE i <= Len(queue[s])
      <4>1. i \in 1..Len(queue[s])
        BY <3>1, <3>2, <3>3
      <4> QED
        BY <1>2, <2>1, <3>1, <3>3, <4>1
    <3>4. CASE ~(i <= Len(queue[s]))
      <4>1. i - Len(queue[s]) \in 1..Len(order)
        BY <3>1, <3>2, <3>4
      <4> QED
        BY <2>2, <3>1, <3>4, <4>1
    <3> QED
      BY <3>3, <3>4
  <2>4. /\ queue'[s] = queue[s] \o order
        /\ \A e \in Environments : e # s => queue'[e] = queue[e]
    BY <1>2, <1>4, <1>6
  <2> QED
    BY <2>1, <2>3, <2>4
<1>9. /\ calls' = [calls EXCEPT ![c] = calls'[c]] /\ IsCall(calls'[c])
      /\ Same(calls[c], calls'[c])
  <2> DEFINE y == [calls[c] EXCEPT !.queued = Cardinality(events)]
  <2>1. IsCall(y) /\ Same(calls[c], y)
    BY <1>0 DEF IsCall, Fields, Same
  <2>2. Finished(c, "MAINTENANCE_ENQUEUE", y)
    BY <1>1 DEF x
  <2>3. calls' = [calls EXCEPT ![c] = calls'[c]] /\ IsCall(calls'[c]) /\ Same(y, calls'[c])
    BY <1>0, <2>1, <2>2, FinishedSays
  <2> QED
    BY <2>1, <2>3 DEF Same
<1>10. CreatedIds(calls'[c]) = CreatedIds(calls[c]) /\ UNCHANGED <<settings, current, notes, failed>>
  BY <1>9 DEF Same, CreatedIds, EnqueueMaintenance, store
<1> QED
  BY <1>0, <1>7, <1>8, <1>9, <1>10 DEF Step, Same, IInv, Shape, Stored

LEMMA PhaseSteps ==
    ASSUME IInv, NEW c \in Calls, PhaseStep(c)
    PROVE  Step(c)
  BY AnalysingSteps, EvidenceStep, StoringSteps, EnqueueSteps, CancelledStep DEF PhaseStep

-----------------------------------------------------------------------------
(* Arrivals and departures, resets, the maintenance workers. *)

\* A call begins or ends: nothing is known of its record but where it belongs.
LEMMA RenewKeeps ==
    ASSUME IInv, NEW c \in Calls, NEW y, IsCall(y),
           y.at # "idle", y.evidence = {}, CreatedIds(y) = {},
           y.environment \in Environments, y.arrived \in Environments,
           y.at = "running" => y.environment = y.arrived,
           calls[c].at = "idle" \/ y.arrived = calls[c].arrived,
           calls' = [calls EXCEPT ![c] = y],
           UNCHANGED <<settings, current, notes, maintenance>>
    PROVE  IInv'
<1>1. calls'[c] = y /\ \A d \in Calls : d # c => calls'[d] = calls[d]
  BY DEF IInv, Shape
<1>2. Shape'
  BY <1>1 DEF IInv, Shape, maintenance
<1>3. Bound'
  BY <1>1 DEF IInv, Bound
<1>4. Owned'
  <2> SUFFICES ASSUME NEW e \in Environments, NEW n \in notes[e]
               PROVE  calls'[n[1]].at # "idle" /\ calls'[n[1]].arrived = e
    BY DEF Owned
  <2>1. n[1] \in Calls /\ calls[n[1]].at # "idle" /\ calls[n[1]].arrived = e
    BY DEF IInv, Shape, Owned
  <2> QED
    BY <1>1, <2>1
<1>5. Cited'
  BY <1>1 DEF IInv, Cited
<1>6. Stored'
  <2>1. IsFiniteSet({})
    BY FS_EmptySet
  <2> QED
    BY <1>1, <2>1 DEF IInv, Stored
<1>7. Waiting'
  BY DEF IInv, Waiting, maintenance
<1> QED
  BY <1>2, <1>3, <1>4, <1>5, <1>6, <1>7 DEF IInv

LEMMA SubmitKeeps ==
    ASSUME IInv, NEW c \in Calls, Submit(c)
    PROVE  IInv'
<1>1. PICK r \in Requests[c], session \in Sessions :
        calls' = [calls EXCEPT ![c] =
           [Idle EXCEPT !.at = "running", !.route = r[1], !.session = session,
                        !.adapter = r[3], !.environment = BoundTo,
                        !.todo = Routes[r[1]].phases, !.compresses = r[2],
                        !.status = "RUNNING", !.arrived = current]]
  BY DEF Submit
<1> DEFINE todo == Routes[r[1]].phases
           x == [Idle EXCEPT !.at = "running", !.route = r[1], !.session = session,
                             !.adapter = r[3], !.environment = current]
           y == [x EXCEPT !.todo = todo, !.compresses = r[2], !.status = "RUNNING",
                          !.arrived = current]
<1>2. calls' = [calls EXCEPT ![c] = y]
  BY <1>1 DEF BoundTo
<1> HIDE DEF todo
<1>3. /\ IsCall(y) /\ y.at = "running" /\ y.environment = current /\ y.arrived = current
      /\ y.evidence = {} /\ y.created = {} /\ y.ingested = {}
  <2>1. /\ IsCall(x) /\ x.at = "running" /\ x.environment = current
        /\ x.evidence = {} /\ x.created = {} /\ x.ingested = {}
    BY Fresh, ZenonT(30) DEF IsCall, Fields
  <2> HIDE DEF x
  <2> QED
    BY <2>1, ZenonT(30) DEF IsCall, Fields
<1>4. CreatedIds(y) = {}
  BY <1>3 DEF CreatedIds
<1>5. /\ current \in Environments /\ calls[c].at = "idle"
      /\ UNCHANGED <<settings, current, notes, maintenance>>
  BY DEF IInv, Shape, Submit, store
<1> HIDE DEF y
<1> QED
  BY <1>2, <1>3, <1>4, <1>5, RenewKeeps

LEMMA EndKeeps ==
    ASSUME IInv, NEW c \in Calls, Reject(c) \/ Return(c) \/ Abandon(c)
    PROVE  IInv'
<1>1. ASSUME NEW y, IsCall(y), y.at \in {"returned", "abandoned"}, y.environment = 0,
             y.evidence = {}, y.created = {}, y.ingested = {}, y.arrived \in Environments,
             calls[c].at = "idle" \/ y.arrived = calls[c].arrived,
             calls' = [calls EXCEPT ![c] = y]
      PROVE  IInv'
  <2>1. CreatedIds(y) = {} /\ UNCHANGED <<settings, current, notes, maintenance>>
    BY <1>1 DEF CreatedIds, Reject, Return, Abandon, store
  <2> QED
    BY <1>1, <2>1, FirstEnvironment, RenewKeeps
<1>2. calls[c].arrived \in Environments
  BY DEF IInv, Shape
<1>3. CASE Reject(c)
  <2> DEFINE y == [Idle EXCEPT !.at = "returned"]
  <2>1. calls' = [calls EXCEPT ![c] = y] /\ calls[c].at = "idle"
    BY <1>3 DEF Reject
  <2>2. /\ IsCall(y) /\ y.at = "returned" /\ y.environment = 0 /\ y.arrived = 0
        /\ y.evidence = {} /\ y.created = {} /\ y.ingested = {}
    BY Fresh DEF IsCall, Fields
  <2> HIDE DEF y
  <2> QED
    BY <1>1, <2>1, <2>2, FirstEnvironment
<1>4. CASE Return(c)
  <2> DEFINE status == Ended(c).status
             result == Adapted(calls[c], Responded(c))
             y == [Idle EXCEPT !.at = "returned", !.arrived = calls[c].arrived,
                               !.status = status, !.result = result]
  <2>1. calls' = [calls EXCEPT ![c] = y]
    BY <1>4 DEF Return
  <2> HIDE DEF status, result
  <2>2. /\ IsCall(y) /\ y.at = "returned" /\ y.environment = 0 /\ y.arrived = calls[c].arrived
        /\ y.evidence = {} /\ y.created = {} /\ y.ingested = {}
    BY Fresh DEF IsCall, Fields
  <2> HIDE DEF y
  <2> QED
    BY <1>1, <1>2, <2>1, <2>2
<1>5. CASE Abandon(c)
  <2> DEFINE y == [Idle EXCEPT !.at = "abandoned", !.arrived = calls[c].arrived]
  <2>1. calls' = [calls EXCEPT ![c] = y]
    BY <1>5 DEF Abandon
  <2>2. /\ IsCall(y) /\ y.at = "abandoned" /\ y.environment = 0 /\ y.arrived = calls[c].arrived
        /\ y.evidence = {} /\ y.created = {} /\ y.ingested = {}
    BY Fresh DEF IsCall, Fields
  <2> HIDE DEF y
  <2> QED
    BY <1>1, <1>2, <2>1, <2>2
<1> QED
  BY <1>3, <1>4, <1>5

\* Nothing that belongs to somebody changes when the runtime refers to new parts.
LEMMA ResetKeeps ==
    ASSUME IInv, Reset \/ ResetReplaces
    PROVE  IInv'
<1>1. UNCHANGED <<notes, queue, failed, calls>> /\ settings'.owned = settings.owned
  BY DEF Reset, ResetReplaces, IInv, Shape, maintenance
<1>2. current' \in Environments
  BY RuntimeAssumption DEF IInv, Shape, Reset, ResetReplaces, Environments
<1>3. settings' = [f \in {"mode", "memory", "state", "owned", "rerank", "maintain"} |-> settings'[f]]
  BY DEF IInv, Shape, Reset, ResetReplaces
<1>4. Shape'
  BY <1>1, <1>2, <1>3 DEF IInv, Shape
<1>5. Bound' /\ Owned' /\ Cited'
  BY <1>1 DEF IInv, Bound, Owned, Cited
<1>6. Stored' /\ Waiting'
  BY <1>1 DEF IInv, Stored, Waiting
<1> QED
  BY <1>4, <1>5, <1>6 DEF IInv

LEMMA MaintainKeeps ==
    ASSUME IInv, Maintain
    PROVE  IInv'
<1>1. PICK s \in Environments :
        /\ queue[s] # <<>>
        /\ queue' = [queue EXCEPT ![s] = Tail(queue[s])]
        /\ failed' = IF Head(queue[s]) \in Behind(s) THEN failed
                     ELSE failed \cup {<<s, Head(queue[s])>>}
  BY DEF Maintain
<1>2. UNCHANGED <<settings, current, notes, calls>>
  BY DEF Maintain, store
<1>3. /\ queue[s] \in Seq(Calls \X Roles) /\ Tail(queue[s]) \in Seq(Calls \X Roles)
      /\ Len(queue[s]) \in Nat \ {0} /\ Len(Tail(queue[s])) = Len(queue[s]) - 1
      /\ \A i \in 1..Len(Tail(queue[s])) : Tail(queue[s])[i] = queue[s][i + 1]
      /\ Head(queue[s]) = queue[s][1]
  BY <1>1, HeadTailProperties, EmptySeq DEF IInv, Shape
<1>4. /\ queue' \in [Environments -> Seq(Calls \X Roles)]
      /\ queue'[s] = Tail(queue[s]) /\ \A e \in Environments : e # s => queue'[e] = queue[e]
  BY <1>1, <1>3 DEF IInv, Shape
<1>5. Shape'
  BY <1>2, <1>4 DEF IInv, Shape
<1>6. Waiting'
  <2> SUFFICES ASSUME settings.owned
               PROVE  /\ failed' = {}
                      /\ \A e \in Environments : \A i \in 1..Len(queue'[e]) : queue'[e][i] \in notes[e]
    BY <1>2 DEF Waiting
  <2>1. failed = {} /\ \A e \in Environments : \A i \in 1..Len(queue[e]) : queue[e][i] \in notes[e]
    BY DEF IInv, Waiting
  <2>2. Head(queue[s]) \in notes[s]
    BY <1>3, <2>1
  <2>3. failed' = {}
    BY <1>1, <2>1, <2>2 DEF Behind
  <2>4. \A i \in 1..Len(Tail(queue[s])) : i + 1 \in 1..Len(queue[s])
    BY <1>3
  <2>5. \A i \in 1..Len(queue'[s]) : queue'[s][i] \in notes[s]
    BY <1>3, <1>4, <2>1, <2>4
  <2> QED
    BY <1>4, <2>1, <2>3, <2>5
<1> QED
  BY <1>2, <1>5, <1>6 DEF IInv, Bound, Owned, Cited, Stored

-----------------------------------------------------------------------------
(* The invariant, and what it is for. *)

LEMMA InitKeeps == Init => IInv
<1> SUFFICES ASSUME Init
             PROVE  IInv
  OBVIOUS
<1>1. \A c \in Calls : calls[c] = Idle /\ calls[c].environment = 0 /\ calls[c].arrived = 0
  BY DEF Init, Idle
<1>2. settings = [f \in {"mode", "memory", "state", "owned", "rerank", "maintain"} |-> settings[f]]
  BY RuntimeAssumption DEF Init
<1>3. Shape
  BY <1>1, <1>2, Fresh, FirstEnvironment DEF Init, Shape
<1>4. Idle.at = "idle"
  BY DEF Idle
<1>5. Bound /\ Owned /\ Cited
  BY <1>1, <1>4, Fresh DEF Init, Bound, Owned, Cited
<1>6. Stored
  BY <1>1, Fresh, FS_EmptySet DEF Stored
<1>7. Waiting
  <2>1. \A s \in Environments : queue[s] = <<>> /\ Len(queue[s]) = 0
    BY DEF Init
  <2> QED
    BY <2>1 DEF Init, Waiting
<1> QED
  BY <1>3, <1>5, <1>6, <1>7 DEF IInv

LEMMA NextKeeps == IInv /\ [Next]_vars => IInv'
<1> SUFFICES ASSUME IInv, [Next]_vars
             PROVE  IInv'
  OBVIOUS
<1>1. ASSUME NEW c \in Calls, Submit(c)
      PROVE  IInv'
  BY <1>1, SubmitKeeps
<1>2. ASSUME NEW c \in Calls, PhaseStep(c)
      PROVE  IInv'
  BY <1>2, PhaseSteps, StepKeeps
<1>3. ASSUME NEW c \in Calls, Reject(c) \/ Return(c) \/ Abandon(c)
      PROVE  IInv'
  BY <1>3, EndKeeps
<1>4. CASE Reset \/ ResetReplaces
  BY <1>4, ResetKeeps
<1>5. CASE Maintain
  BY <1>5, MaintainKeeps
<1>6. CASE UNCHANGED vars
  <2>1. UNCHANGED <<settings, current, notes, queue, failed, calls>>
    BY <1>6 DEF vars, store, maintenance
  <2> QED
    BY <2>1 DEF IInv, Shape, Bound, Owned, Cited, Stored, Waiting
<1> QED
  BY <1>1, <1>2, <1>3, <1>4, <1>5, <1>6 DEF Next

LEMMA Inductive == Spec => []IInv
  BY InitKeeps, NextKeeps, PTL DEF Spec

\* A reset that replaces the repository isolates memory (reset and execute of
\* runtime/prima_runtime.py), for any number of callers and of resets: what a request
\* cites was stored by requests that came between the same two resets, because a request
\* keeps the workflow of its arrival and what it stores stays in that workflow's repository.
THEOREM Isolates == Spec => []ResetIsolates
<1>1. IInv => ResetIsolates
  <2> SUFFICES ASSUME IInv, NEW c \in Calls, NEW n \in calls[c].evidence
               PROVE  calls[n[1]].arrived = calls[c].arrived
    BY DEF ResetIsolates
  <2>1. calls[c].arrived \in Environments /\ n \in notes[calls[c].arrived]
    BY DEF IInv, Shape, Cited
  <2> QED
    BY <2>1 DEF IInv, Owned
<1> QED
  BY <1>1, Inductive, PTL

\* A worker of the runtime's own supervisor finds every note it is given (the maintenance
\* controller of workflow/prima_workflow.py and the pipeline behind the supervisor), for
\* any number of resets and any size of the queue: whatever waits is in the repository
\* that was built together with the supervisor, and repositories only grow.
THEOREM MaintainedThere == Spec => []MaintainedWhereStored
<1>1. IInv => MaintainedWhereStored
  BY DEF IInv, Waiting, MaintainedWhereStored
<1> QED
  BY <1>1, Inductive, PTL

-----------------------------------------------------------------------------
(* What a response reports.  A route covers the components its phases run: *)
(* whatever is executed was planned.                                       *)

\* The phases of a route.
Runs(r) == {Routes[r].phases[i] : i \in DOMAIN Routes[r].phases}

\* A route plans the components that its phases may run, for the task and the profile.
Covers(components, phases, task, profile) ==
    /\ Control \cup {"output_shaper", "state_commit"} \subseteq components
    /\ "AFFECT" \in phases => "affect_engine" \in components
    /\ "EVIDENCE_ACQUISITION" \in phases =>
         IF profile = "prima_full" THEN FullRetrieval \subseteq components
                                   ELSE SimpleRetrieval \subseteq components
    /\ phases \cap {"PLANNING", "WORLD_SIMULATION", "UNCERTAINTY_ESTIMATION", "REFLECTION"} # {} =>
         Deliberate \subseteq components
    /\ "ACTION" \in phases /\ task = "tool_request" => "tool_executor" \in components
    /\ "ANSWER_GENERATION" \in phases => "model_executor" \in components
    /\ "OUTPUT_VALIDATION" \in phases => "output_validator" \in components
    /\ "DOCUMENT_INGESTION" \in phases =>
         {"document_encoder", "memory_index", "memory_commit"} \subseteq components
    /\ "MEMORY_COMMIT" \in phases => "memory_commit" \in components
    /\ "MEMORY_COMMIT" \in phases /\ task = "historical_replay" => "memory_index" \in components
    /\ "MAINTENANCE_ENQUEUE" \in phases => "maintenance_events" \in components
    /\ profile # "prima_full" =>
         components \cap {"world_model", "uncertainty_estimator"} = {}

\* Without leaves a phase out and adds none.
LEMMA WithoutRuns ==
    ASSUME NEW S, NEW s \in Seq(S), s # <<>>, NEW phase
    PROVE  Without(s, phase) \in Seq(S)
<1> DEFINE k == CHOOSE n \in DOMAIN s : s[n] = phase
           w == [n \in 1..(Len(s) - 1) |-> IF n < k THEN s[n] ELSE s[n + 1]]
<1>1. Without(s, phase) = w
  BY DEF Without
<1>2. Len(s) \in Nat \ {0} /\ DOMAIN s = 1..Len(s)
  OBVIOUS
<1> HIDE DEF k
<1>3. w \in Seq(S)
  BY <1>2
<1> QED
  BY <1>1, <1>3

ModelPhases ==
    {"STATE_LOAD", "ANSWER_GENERATION", "OUTPUT_VALIDATION", "OUTPUT", "STATE_COMMIT",
     "MEMORY_COMMIT", "MAINTENANCE_ENQUEUE"}
RagPhases == ModelPhases \cup {"EVIDENCE_ACQUISITION"}
FullPhases ==
    RagPhases \cup {"AFFECT", "PLANNING", "WORLD_SIMULATION", "UNCERTAINTY_ESTIMATION",
                    "EXECUTION_DECISION", "REFLECTION", "ACTION"}

LEMMA LiteralRoutes ==
    /\ ModelOnly \in Seq(ModelPhases) /\ ModelOnly # <<>>
    /\ SimpleRag \in Seq(RagPhases) /\ SimpleRag # <<>>
    /\ PrimaFull \in Seq(FullPhases) /\ PrimaFull # <<>>
    /\ Ingestion \in Seq({"STATE_LOAD", "DOCUMENT_INGESTION", "OUTPUT", "STATE_COMMIT",
                          "MAINTENANCE_ENQUEUE"})
    /\ AffectOnly \in Seq({"STATE_LOAD", "AFFECT", "OUTPUT", "STATE_COMMIT"})
    /\ HistoricalReplay \in Seq({"STATE_LOAD", "AFFECT", "OUTPUT", "STATE_COMMIT",
                                 "MEMORY_COMMIT", "MAINTENANCE_ENQUEUE"})
<1>1. ModelOnly \in Seq(ModelPhases) /\ ModelOnly # <<>>
  BY DEF ModelOnly, ModelPhases
<1>2. SimpleRag \in Seq(RagPhases) /\ SimpleRag # <<>>
  BY DEF SimpleRag, RagPhases, ModelPhases
<1>3. PrimaFull \in Seq(FullPhases) /\ PrimaFull # <<>>
  BY DEF PrimaFull, FullPhases, RagPhases, ModelPhases
<1>4. Ingestion \in Seq({"STATE_LOAD", "DOCUMENT_INGESTION", "OUTPUT", "STATE_COMMIT",
                          "MAINTENANCE_ENQUEUE"})
  BY DEF Ingestion
<1>5. AffectOnly \in Seq({"STATE_LOAD", "AFFECT", "OUTPUT", "STATE_COMMIT"})
  BY DEF AffectOnly
<1>6. HistoricalReplay \in Seq({"STATE_LOAD", "AFFECT", "OUTPUT", "STATE_COMMIT",
                                 "MEMORY_COMMIT", "MAINTENANCE_ENQUEUE"})
  BY DEF HistoricalReplay
<1> QED
  BY <1>1, <1>2, <1>3, <1>4, <1>5, <1>6

\* The route of a tool request generates no answer.
LEMMA ToolsAnswerNothing ==
    \A i \in DOMAIN Without(PrimaFull, "ANSWER_GENERATION") :
        Without(PrimaFull, "ANSWER_GENERATION")[i] # "ANSWER_GENERATION"
<1> DEFINE k == CHOOSE n \in DOMAIN PrimaFull : PrimaFull[n] = "ANSWER_GENERATION"
           w == [n \in 1..(Len(PrimaFull) - 1) |->
                   IF n < k THEN PrimaFull[n] ELSE PrimaFull[n + 1]]
<1>1. Without(PrimaFull, "ANSWER_GENERATION") = w
  BY DEF Without
<1>2. Len(PrimaFull) = 15 /\ DOMAIN PrimaFull = 1..15
  BY DEF PrimaFull
<1>3. /\ PrimaFull[10] = "ANSWER_GENERATION"
      /\ \A n \in 1..9 : PrimaFull[n] # "ANSWER_GENERATION"
      /\ \A n \in 11..15 : PrimaFull[n] # "ANSWER_GENERATION"
  BY DEF PrimaFull
<1>4. k = 10
  <2>1. k \in 1..15 /\ PrimaFull[k] = "ANSWER_GENERATION"
    BY <1>2, <1>3
  <2> HIDE DEF k
  <2> QED
    BY <1>3, <2>1
<1> HIDE DEF k
<1>5. \A i \in DOMAIN w : w[i] # "ANSWER_GENERATION"
  BY <1>2, <1>3, <1>4
<1> QED
  BY <1>1, <1>5

LEMMA RouteFields ==
    ASSUME NEW task, NEW profile, NEW components, NEW phases
    PROVE  /\ Route(task, profile, components, phases).task = task
           /\ Route(task, profile, components, phases).profile = profile
           /\ Route(task, profile, components, phases).components = components
           /\ Route(task, profile, components, phases).phases = phases
  BY DEF Route

\* The ten routes, with the phases each may run.
LEMMA TheRoutes ==
    ASSUME NEW r \in DOMAIN Routes
    PROVE  \E task, profile, components, phases :
             /\ Routes[r].task = task /\ Routes[r].profile = profile
             /\ Routes[r].components = components /\ Routes[r].phases \in Seq(phases)
             /\ Covers(components, phases, task, profile)
<1> DEFINE Fits(task, profile, components, phases) ==
             /\ Routes[r].task = task /\ Routes[r].profile = profile
             /\ Routes[r].components = components /\ Routes[r].phases \in Seq(phases)
<1>1. ASSUME NEW S, NEW s \in Seq(S), Routes[r].phases = s
      PROVE  Routes[r].phases \in Seq(S)
  BY <1>1
<1>2. ASSUME NEW S, NEW s \in Seq(S), s # <<>>, NEW phase, Routes[r].phases = Without(s, phase)
      PROVE  Routes[r].phases \in Seq(S)
  BY <1>2, WithoutRuns
<1>3. CASE r \in {"conversation_model", "factual_model"}
  <2>1. \E task \in {"conversation", "factual_qa"} : Fits(task, "model_only", PlannedModel, ModelPhases)
    <3>1. CASE r = "conversation_model"
      <4>1. Routes[r] = Route("conversation", "model_only", PlannedModel, ModelOnly)
        BY <3>1 DEF Routes
      <4> QED
        BY <1>1, <4>1, RouteFields, LiteralRoutes
    <3>2. CASE r = "factual_model"
      <4>1. Routes[r] = Route("factual_qa", "model_only", PlannedModel, Without(ModelOnly, "MEMORY_COMMIT"))
        BY <3>2 DEF Routes
      <4> QED
        BY <1>2, <4>1, RouteFields, LiteralRoutes
    <3> QED
      BY <1>3, <3>1, <3>2
  <2>2. \A task \in {"conversation", "factual_qa"} :
          Covers(PlannedModel, ModelPhases, task, "model_only")
    BY DEF Covers, PlannedModel, ModelPhases, Control, Commit
  <2> QED
    BY <2>1, <2>2
<1>4. CASE r \in {"conversation_rag", "factual_rag"}
  <2>1. \E task \in {"conversation", "factual_qa"} : Fits(task, "simple_rag", PlannedRag, RagPhases)
    <3>1. CASE r = "conversation_rag"
      <4>1. Routes[r] = Route("conversation", "simple_rag", PlannedRag, SimpleRag)
        BY <3>1 DEF Routes
      <4> QED
        BY <1>1, <4>1, RouteFields, LiteralRoutes
    <3>2. CASE r = "factual_rag"
      <4>1. Routes[r] = Route("factual_qa", "simple_rag", PlannedRag, Without(SimpleRag, "MEMORY_COMMIT"))
        BY <3>2 DEF Routes
      <4> QED
        BY <1>2, <4>1, RouteFields, LiteralRoutes
    <3> QED
      BY <1>4, <3>1, <3>2
  <2>2. \A task \in {"conversation", "factual_qa"} :
          Covers(PlannedRag, RagPhases, task, "simple_rag")
    BY DEF Covers, PlannedRag, PlannedModel, RagPhases, ModelPhases, Control, Commit,
       SimpleRetrieval
  <2> QED
    BY <2>1, <2>2
<1>5. CASE r \in {"conversation_full", "factual_full"}
  <2>1. \E task \in {"conversation", "factual_qa"} : Fits(task, "prima_full", PlannedFull, FullPhases)
    <3>1. CASE r = "conversation_full"
      <4>1. Routes[r] = Route("conversation", "prima_full", PlannedFull, PrimaFull)
        BY <3>1 DEF Routes
      <4> QED
        BY <1>1, <4>1, RouteFields, LiteralRoutes
    <3>2. CASE r = "factual_full"
      <4>1. Routes[r] = Route("factual_qa", "prima_full", PlannedFull, Without(PrimaFull, "MEMORY_COMMIT"))
        BY <3>2 DEF Routes
      <4> QED
        BY <1>2, <4>1, RouteFields, LiteralRoutes
    <3> QED
      BY <1>5, <3>1, <3>2
  <2>2. \A task \in {"conversation", "factual_qa"} :
          Covers(PlannedFull, FullPhases, task, "prima_full")
    BY DEF Covers, PlannedFull, PlannedModel, FullPhases, RagPhases, ModelPhases, Control, Commit,
       Deliberate
  <2> QED
    BY <2>1, <2>2
<1>6. CASE r = "tool_full"
  <2>1. Routes[r] = Route("tool_request", "prima_full", PlannedTool, Without(PrimaFull, "ANSWER_GENERATION"))
    BY <1>6 DEF Routes
  <2>2. Routes[r].phases \in Seq(FullPhases \ {"ANSWER_GENERATION"})
    <3>1. Routes[r].phases = Without(PrimaFull, "ANSWER_GENERATION")
      BY <2>1, RouteFields
    <3>2. Routes[r].phases \in Seq(FullPhases)
      BY <1>2, <3>1, LiteralRoutes
    <3>3. \A i \in DOMAIN Routes[r].phases : Routes[r].phases[i] # "ANSWER_GENERATION"
      BY <3>1, ToolsAnswerNothing
    <3> DEFINE s == Routes[r].phases
               S == FullPhases
    <3> HIDE DEF s, S
    <3>4. s \in Seq(S) /\ \A i \in DOMAIN s : s[i] # "ANSWER_GENERATION"
      BY <3>2, <3>3 DEF s, S
    <3>5. s \in Seq(S \ {"ANSWER_GENERATION"})
      BY <3>4
    <3> QED
      BY <3>5 DEF s, S
  <2>3. Covers(PlannedTool, FullPhases \ {"ANSWER_GENERATION"}, "tool_request", "prima_full")
    BY DEF Covers, PlannedTool, PlannedFull, PlannedModel, FullPhases, RagPhases, ModelPhases,
       Control, Commit, FullRetrieval, SimpleRetrieval, Deliberate
  <2> QED
    BY <2>1, <2>2, <2>3, RouteFields
<1>7. CASE r = "replay"
  <2> DEFINE S == {"STATE_LOAD", "AFFECT", "OUTPUT", "STATE_COMMIT", "MEMORY_COMMIT",
                   "MAINTENANCE_ENQUEUE"}
  <2>1. Routes[r] = Route("historical_replay", "prima_full", PlannedReplay, HistoricalReplay)
    BY <1>7 DEF Routes
  <2>2. Routes[r].phases \in Seq(S)
    BY <1>1, <2>1, RouteFields, LiteralRoutes
  <2>3. Covers(PlannedReplay, S, "historical_replay", "prima_full")
    BY DEF Covers, PlannedReplay, Control
  <2> QED
    BY <2>1, <2>2, <2>3, RouteFields
<1>8. CASE r = "ingestion"
  <2> DEFINE S == {"STATE_LOAD", "DOCUMENT_INGESTION", "OUTPUT", "STATE_COMMIT",
                   "MAINTENANCE_ENQUEUE"}
  <2>1. Routes[r] = Route("document_ingestion", "ingestion_only", PlannedIngestion, Ingestion)
    BY <1>8 DEF Routes
  <2>2. Routes[r].phases \in Seq(S)
    BY <1>1, <2>1, RouteFields, LiteralRoutes
  <2>3. Covers(PlannedIngestion, S, "document_ingestion", "ingestion_only")
    BY DEF Covers, PlannedIngestion, Control
  <2> QED
    BY <2>1, <2>2, <2>3, RouteFields
<1>9. CASE r = "emotion"
  <2> DEFINE S == {"STATE_LOAD", "AFFECT", "OUTPUT", "STATE_COMMIT"}
  <2>1. Routes[r] = Route("emotion_classification", "affect_only", PlannedAffect, AffectOnly)
    BY <1>9 DEF Routes
  <2>2. Routes[r].phases \in Seq(S)
    BY <1>1, <2>1, RouteFields, LiteralRoutes
  <2>3. Covers(PlannedAffect, S, "emotion_classification", "affect_only")
    BY DEF Covers, PlannedAffect, Control
  <2> QED
    BY <2>1, <2>2, <2>3, RouteFields
<1>10. r \in {"conversation_model", "conversation_rag", "conversation_full", "factual_model",
              "factual_rag", "factual_full", "tool_full", "replay", "ingestion", "emotion"}
  BY DEF Routes
<1> QED
  BY <1>3, <1>4, <1>5, <1>6, <1>7, <1>8, <1>9, <1>10

\* Every route covers what it runs.
LEMMA RoutesCover ==
    ASSUME NEW r \in DOMAIN Routes
    PROVE  /\ Covers(Routes[r].components, Runs(r), Routes[r].task, Routes[r].profile)
           /\ Routes[r].phases \in Seq(Runs(r))
<1>1. PICK task, profile, components, phases :
             /\ Routes[r].task = task /\ Routes[r].profile = profile
             /\ Routes[r].components = components /\ Routes[r].phases \in Seq(phases)
             /\ Covers(components, phases, task, profile)
  BY TheRoutes
<1> DEFINE s == Routes[r].phases
<1>2. Runs(r) = {s[i] : i \in DOMAIN s} /\ s \in Seq(phases)
  BY <1>1 DEF Runs
<1> HIDE DEF s
<1>3. Runs(r) \subseteq phases
  BY <1>2
<1>4. s \in Seq({s[i] : i \in DOMAIN s})
  BY <1>2
<1> QED
  BY <1>1, <1>2, <1>3, <1>4 DEF Covers, s

\* What an execution that ran may have left, seen from its response.
Strategic(x) == x.retrieval.strategies \subseteq Strategies(Of(x).profile)

LEMMA StrategiesAreRetrieval ==
    ASSUME NEW profile, NEW s \in Strategies(profile)
    PROVE  /\ StrategyComponent[s] \in IF profile = "prima_full" THEN FullRetrieval
                                                                ELSE SimpleRetrieval
           /\ s = "graph" => profile = "prima_full"
  BY DEF Strategies, StrategyComponent, FullRetrieval, SimpleRetrieval

\* Executed, without its abbreviations.
Ran(x) ==
    UNION {
          {"input_parser", "task_scheduler", "policy_router", "execution_dispatcher"},
          IF "STATE_LOAD" \in x.completed THEN {"state_manager", "persistent_state"} ELSE {},
          IF "AFFECT" \in x.completed THEN {"emotion_classifier", "affect_engine"} ELSE {},
          IF "EVIDENCE_ACQUISITION" \in x.completed THEN
                {"query_rewriter", "memory_index", "fusion", "confidence_estimator"}
                \cup (IF x.retrieval.reranker # "disabled" THEN {"reranker"} ELSE {})
                \cup {StrategyComponent[s] : s \in x.retrieval.strategies}
                \cup (IF "graph" \in x.retrieval.strategies THEN {"graph_reasoning"} ELSE {})
                \cup (IF x.compressed = "applied" THEN {"context_compressor"} ELSE {}) ELSE {},
          IF "PLANNING" \in x.completed THEN {"planner"} ELSE {},
          IF "WORLD_SIMULATION" \in x.completed THEN {"world_model"} ELSE {},
          IF "UNCERTAINTY_ESTIMATION" \in x.completed THEN {"uncertainty_estimator"} ELSE {},
          IF "REFLECTION" \in x.completed THEN {"reflection"} ELSE {},
          IF "ACTION" \in x.completed THEN
                IF Of(x).task = "tool_request" THEN {"tool_executor"} ELSE {} ELSE {},
          IF "ANSWER_GENERATION" \in x.completed THEN
                IF x.called THEN {"model_executor"} ELSE {} ELSE {},
          IF "OUTPUT_VALIDATION" \in x.completed THEN {"output_validator"} ELSE {},
          IF "DOCUMENT_INGESTION" \in x.completed THEN
                {"document_encoder", "memory_index", "memory_commit"} ELSE {},
          IF "OUTPUT" \in x.completed THEN {"output_shaper"} ELSE {},
          IF "MEMORY_COMMIT" \in x.completed THEN {"memory_commit"}
                \cup (IF Of(x).task = "historical_replay" THEN {"memory_index"} ELSE {}) ELSE {},
          IF "MAINTENANCE_ENQUEUE" \in x.completed THEN
                IF x.queued > 0 THEN {"maintenance_events"} ELSE {} ELSE {},
          IF "STATE_COMMIT" \in x.completed THEN
                IF x.committed THEN {"state_commit"} ELSE {} ELSE {}}

LEMMA ExecutedIs ==
    ASSUME NEW x
    PROVE  Executed(x) = Ran(x)
  BY Zenon DEF Executed, Ran

\* Whatever runs was planned, but for the classifier of the full routes.
LEMMA ExecutedArePlanned ==
    ASSUME NEW x, x.route \in DOMAIN Routes, x.completed \subseteq Runs(x.route), Strategic(x)
    PROVE  Executed(x) \ {"emotion_classifier"} \subseteq Of(x).components
<1> DEFINE C == Of(x).components
           P == Runs(x.route)
           task == Of(x).task
           profile == Of(x).profile
<1>1. Covers(C, P, task, profile)
  BY RoutesCover DEF Of
<1>2. x.completed \subseteq P
  OBVIOUS
<1>3. Executed(x) = Ran(x)
  BY ExecutedIs
<1> SUFFICES ASSUME NEW k \in Executed(x), k # "emotion_classifier"
             PROVE  k \in C
  OBVIOUS
<1>4. \/ k \in Control \cup {"output_shaper", "state_commit"}
      \/ "AFFECT" \in P /\ k = "affect_engine"
      \/ "EVIDENCE_ACQUISITION" \in P /\ k \in SimpleRetrieval
      \/ /\ "EVIDENCE_ACQUISITION" \in P
         /\ \E s \in x.retrieval.strategies : k = StrategyComponent[s]
      \/ /\ "EVIDENCE_ACQUISITION" \in P
         /\ "graph" \in x.retrieval.strategies /\ k = "graph_reasoning"
      \/ "PLANNING" \in P /\ k \in Deliberate
      \/ "WORLD_SIMULATION" \in P /\ k \in Deliberate
      \/ "UNCERTAINTY_ESTIMATION" \in P /\ k \in Deliberate
      \/ "REFLECTION" \in P /\ k \in Deliberate
      \/ "ACTION" \in P /\ task = "tool_request" /\ k = "tool_executor"
      \/ "ANSWER_GENERATION" \in P /\ k = "model_executor"
      \/ "OUTPUT_VALIDATION" \in P /\ k = "output_validator"
      \/ "DOCUMENT_INGESTION" \in P /\ k \in {"document_encoder", "memory_index", "memory_commit"}
      \/ "MEMORY_COMMIT" \in P /\ k = "memory_commit"
      \/ "MEMORY_COMMIT" \in P /\ task = "historical_replay" /\ k = "memory_index"
      \/ "MAINTENANCE_ENQUEUE" \in P /\ k = "maintenance_events"
  <2> HIDE DEF P
  <2> QED
    BY <1>2, <1>3 DEF Ran, Control, SimpleRetrieval, Deliberate
<1>5. ASSUME "EVIDENCE_ACQUISITION" \in P,
             \/ k \in SimpleRetrieval
             \/ \E s \in x.retrieval.strategies : k = StrategyComponent[s]
             \/ "graph" \in x.retrieval.strategies /\ k = "graph_reasoning"
      PROVE  k \in C
  <2>1. SimpleRetrieval \subseteq FullRetrieval /\ "graph_reasoning" \in FullRetrieval
    BY DEF FullRetrieval
  <2> QED
    BY <1>1, <1>5, <2>1, StrategiesAreRetrieval DEF Covers, Strategic
<1> HIDE DEF C, P, task, profile
<1> QED
  BY <1>1, <1>4, <1>5 DEF Covers

\* Three components can be switched off, and then their phases do not run them.
LEMMA ExecutedTells ==
    ASSUME NEW x, x.route \in DOMAIN Routes, Strategic(x)
    PROVE  /\ "reranker" \in Executed(x) =>
                "EVIDENCE_ACQUISITION" \in x.completed /\ x.retrieval.reranker # "disabled"
           /\ "context_compressor" \in Executed(x) <=>
                "EVIDENCE_ACQUISITION" \in x.completed /\ x.compressed = "applied"
           /\ "maintenance_events" \in Executed(x) => x.queued > 0
<1>1. \A s \in x.retrieval.strategies :
          StrategyComponent[s] \notin {"reranker", "context_compressor", "maintenance_events"}
  BY DEF Strategic, Strategies, StrategyComponent
<1>2. Executed(x) = Ran(x)
  BY ExecutedIs
<1> QED
  BY <1>1, <1>2 DEF Ran

\* What a retrieval that searched reports.
Retrieves(x, set) ==
    [strategies |-> Strategies(Of(x).profile),
     reranker |-> IF set.rerank THEN "active" ELSE "disabled"]

\* What the phases of an execution leave for its response, with these settings.
Fits(x, set) ==
    /\ x.route \in DOMAIN Routes /\ x.completed \subseteq Runs(x.route)
    /\ x.retrieval \in {NoRetrieval, Retrieves(x, set)}
    /\ x.compressed = "applied" => x.compresses /\ "EVIDENCE_ACQUISITION" \in x.completed
    /\ x.queued > 0 => set.maintain

LEMMA ReportsAgree ==
    ASSUME NEW x, Fits(x, settings), NEW trace
    PROVE  ListsAgree(Diagnostics(x, settings, trace),
                      "EVIDENCE_ACQUISITION" \in x.completed /\ x.retrieval = NoRetrieval)
<1> DEFINE d == Diagnostics(x, settings, trace)
           bypassed == "EVIDENCE_ACQUISITION" \in x.completed /\ x.retrieval = NoRetrieval
           executed == d.executed \ {"emotion_classifier"}
<1>1. /\ d.planned = Of(x).components /\ d.enabled = Enabled(x, settings)
      /\ d.executed = Executed(x) /\ d.details = [k \in Detailed(x) |-> Status(x, settings, k)]
  BY DEF Diagnostics
<1>2. Strategic(x)
  BY DEF Fits, Strategic, NoRetrieval, Retrieves
<1>3. x.route \in DOMAIN Routes /\ x.completed \subseteq Runs(x.route)
  BY DEF Fits
<1>4. executed \subseteq d.planned
  BY <1>1, <1>2, <1>3, ExecutedArePlanned
<1>5. ASSUME ~bypassed
      PROVE  executed \subseteq d.enabled
  <2>1. ASSUME "reranker" \in Executed(x)
        PROVE  settings.rerank
    <3>1. "EVIDENCE_ACQUISITION" \in x.completed /\ x.retrieval.reranker # "disabled"
      BY <1>2, <1>3, <2>1, ExecutedTells
    <3>2. x.retrieval = Retrieves(x, settings)
      BY <1>5, <3>1 DEF Fits
    <3> QED
      BY <3>1, <3>2 DEF Retrieves
  <2>2. ASSUME "context_compressor" \in Executed(x)
        PROVE  x.compresses
    BY <1>2, <1>3, <2>2, ExecutedTells DEF Fits
  <2>3. ASSUME "maintenance_events" \in Executed(x)
        PROVE  settings.maintain
    BY <1>2, <1>3, <2>3, ExecutedTells DEF Fits
  <2>4. Executed(x) \cap Disabled(x, settings) = {}
    BY <2>1, <2>2, <2>3 DEF Disabled
  <2> QED
    BY <1>1, <1>4, <2>4 DEF Enabled
<1>6. ASSUME NEW k \in DOMAIN d.details \ {"emotion_classifier"}
      PROVE  d.details[k] = "executed" <=> k \in d.executed
  <2>1. k \in Detailed(x) /\ d.details[k] = Status(x, settings, k)
    BY <1>1
  <2>2. CASE k \in ByProfile
    <3>1. Of(x).profile # "prima_full" => k \notin Executed(x)
      <4>1. Covers(Of(x).components, Runs(x.route), Of(x).task, Of(x).profile)
        BY <1>3, RoutesCover DEF Of
      <4> QED
        BY <1>1, <1>4, <2>2, <4>1 DEF Covers, ByProfile
    <3> QED
      BY <1>1, <2>1, <2>2, <3>1 DEF Status
  <2>3. CASE k = "context_compressor"
    <3>1. k \in Executed(x) <=> x.compressed = "applied"
      BY <1>2, <1>3, <2>3, ExecutedTells DEF Fits
    <3>2. k \notin ByProfile
      BY <2>3 DEF ByProfile
    <3> QED
      BY <1>1, <2>1, <2>3, <3>1, <3>2 DEF Status
  <2>4. CASE k \in ByLists /\ k \notin ByProfile /\ k # "context_compressor"
    BY <1>1, <2>1, <2>4 DEF Status
  <2>5. CASE k \notin ByLists \cup ByProfile \cup {"context_compressor"}
    <3>1. k \notin Executed(x)
      BY <1>1, <1>4, <2>1, <2>5 DEF Detailed, Skipped
    <3> QED
      BY <1>1, <2>1, <2>5, <3>1 DEF Status
  <2> QED
    BY <2>2, <2>3, <2>4, <2>5
<1> QED
  BY <1>4, <1>5, <1>6 DEF ListsAgree

\* The events of a call are its completed phases, in the workflow of its environment.
Logged(c, x, events) ==
    /\ \A e \in Environments : \A t \in events[e] :
         t[1] = c => e = x.environment /\ \E p \in x.completed : t = <<c, p>>
    /\ \A p \in x.completed : <<c, p>> \in events[x.environment]

Tells(c, x, set, events) ==
    /\ x.at = "running" =>
         Fits(x, set) /\ x.todo \in Seq(Runs(x.route)) /\ Logged(c, x, events)
    /\ x.at = "idle" => x.completed = {} /\ Logged(c, x, events)

Told ==
    /\ log = [e \in Environments |-> log[e]]
    /\ \A c \in Calls : Tells(c, calls[c], settings, log)

\* What one call does is not told of another.
LEMMA OthersTold ==
    ASSUME Told, NEW c \in Calls, \A d \in Calls : d # c => calls'[d] = calls[d],
           settings'.rerank = settings.rerank, settings'.maintain = settings.maintain,
           log' = [e \in Environments |-> log'[e]],
           \A e \in Environments : log[e] \subseteq log'[e],
           \A e \in Environments : \A t \in log'[e] \ log[e] : t[1] = c,
           \A d \in Calls : calls[d].environment \in Environments,
           Tells(c, calls'[c], settings', log')
    PROVE  Told'
<1> SUFFICES ASSUME NEW d \in Calls, d # c
             PROVE  Tells(d, calls[d], settings', log')
  BY DEF Told
<1>1. Tells(d, calls[d], settings, log)
  BY DEF Told
<1>2. Fits(calls[d], settings) => Fits(calls[d], settings')
  BY DEF Fits, Retrieves
<1>3. Logged(d, calls[d], log) => Logged(d, calls[d], log')
  <2> SUFFICES ASSUME Logged(d, calls[d], log)
               PROVE  Logged(d, calls[d], log')
    OBVIOUS
  <2>1. \A e \in Environments : \A t \in log'[e] : t[1] = d => t \in log[e]
    OBVIOUS
  <2> QED
    BY <2>1 DEF Logged
<1> QED
  BY <1>1, <1>2, <1>3 DEF Tells

LEMMA TailRuns ==
    ASSUME NEW S, NEW s \in Seq(S), s # <<>>
    PROVE  Head(s) \in S /\ Tail(s) \in Seq(S)
  OBVIOUS

\* A phase that completes tells so, and leaves what its route and the settings allow.
LEMMA FinishedTold ==
    ASSUME IInv, Told, NEW c \in Calls, NEW phase, At(c, phase), NEW x, IsCall(x),
           x.at = "running", x.route = calls[c].route, x.todo = calls[c].todo,
           x.completed = calls[c].completed, x.environment = calls[c].environment,
           x.compresses = calls[c].compresses,
           x.retrieval \in {calls[c].retrieval, Retrieves(calls[c], settings)},
           \/ x.compressed = calls[c].compressed
           \/ phase = "EVIDENCE_ACQUISITION" /\ (x.compressed = "applied" => x.compresses),
           x.queued = calls[c].queued \/ (x.queued > 0 => settings.maintain),
           Finished(c, phase, x), UNCHANGED settings
    PROVE  Told'
<1> DEFINE todo == Tail(x.todo)
           completed == x.completed \cup {phase}
           y == [x EXCEPT !.todo = todo, !.completed = completed]
           env == calls[c].environment
<1>1. calls' = [calls EXCEPT ![c] = y] /\ log' = [log EXCEPT ![env] = @ \cup {<<c, phase>>}]
  BY DEF Finished
<1> HIDE DEF todo, completed
<1>2. calls'[c] = y /\ \A d \in Calls : d # c => calls'[d] = calls[d]
  BY <1>1 DEF IInv, Shape
<1>3. \A d \in Calls : calls[d].environment \in Environments
  BY DEF IInv, Shape
<1>4. /\ log' = [e \in Environments |-> log'[e]]
      /\ log'[env] = log[env] \cup {<<c, phase>>}
      /\ \A e \in Environments : e # env => log'[e] = log[e]
  BY <1>1, <1>3 DEF Told
<1>5. /\ y.todo = todo /\ y.completed = completed /\ y.at = "running"
      /\ y.route = calls[c].route /\ y.environment = env /\ y.compresses = calls[c].compresses
      /\ y.retrieval = x.retrieval /\ y.compressed = x.compressed /\ y.queued = x.queued
  BY DEF IsCall, Fields
<1> HIDE DEF y
<1>6. /\ calls[c].at = "running" /\ calls[c].todo # <<>> /\ Head(calls[c].todo) = phase
      /\ Fits(calls[c], settings) /\ calls[c].todo \in Seq(Runs(calls[c].route))
      /\ Logged(c, calls[c], log)
  BY DEF At, Told, Tells
<1>7. phase \in Runs(y.route) /\ y.todo \in Seq(Runs(y.route))
  <2>1. Head(calls[c].todo) \in Runs(calls[c].route)
        /\ Tail(calls[c].todo) \in Seq(Runs(calls[c].route))
    BY <1>6, TailRuns
  <2> QED
    BY <1>5, <1>6, <2>1 DEF todo
<1>8. Retrieves(y, settings) = Retrieves(calls[c], settings)
  BY <1>5 DEF Retrieves, Of
<1>9. Fits(y, settings)
  BY <1>5, <1>6, <1>7, <1>8 DEF Fits, completed
<1>10. Logged(c, y, log')
  <2>1. /\ \A e \in Environments : \A t \in log[e] :
             t[1] = c => e = env /\ \E p \in y.completed : t = <<c, p>>
        /\ \A p \in calls[c].completed : <<c, p>> \in log[env]
    BY <1>5, <1>6 DEF Logged, completed
  <2>2. \A p \in y.completed : p = phase \/ <<c, p>> \in log[env]
    BY <1>5, <2>1 DEF completed
  <2>3. phase \in y.completed
    BY <1>5 DEF completed
  <2> QED
    BY <1>3, <1>4, <1>5, <2>1, <2>2, <2>3 DEF Logged
<1>11. Tells(c, y, settings, log')
  BY <1>5, <1>7, <1>9, <1>10 DEF Tells
<1>12. /\ \A e \in Environments : log[e] \subseteq log'[e]
       /\ \A e \in Environments : \A t \in log'[e] \ log[e] : t[1] = c
  BY <1>4
<1> QED
  BY <1>2, <1>3, <1>4, <1>11, <1>12, OthersTold

\* The fields of a call that its response is made of, but for what it stored.
Alike(x, y) ==
    /\ y.at = x.at /\ y.route = x.route /\ y.completed = x.completed
    /\ y.environment = x.environment /\ y.compresses = x.compresses
    /\ y.retrieval = x.retrieval /\ y.compressed = x.compressed /\ y.queued = x.queued

LEMMA AlikeTold ==
    ASSUME IInv, Told, NEW c \in Calls, NEW phase, At(c, phase), NEW x, IsCall(x),
           Alike(calls[c], x), x.todo = calls[c].todo, Finished(c, phase, x), UNCHANGED settings
    PROVE  Told'
<1>1. calls[c].at = "running"
  BY DEF At
<1> QED
  BY <1>1, FinishedTold DEF Alike

LEMMA AnalysingTold ==
    ASSUME IInv, Told, NEW c \in Calls,
           \/ LoadState(c) \/ Analyse(c) \/ Reflect(c) \/ Decide(c) \/ Act(c) \/ Generate(c)
           \/ IngestDocument(c) \/ ShapeOutput(c) \/ CommitState(c) \/ CommitMemory(c)
    PROVE  Told'
<1>0. IsCall(calls[c]) /\ Alike(calls[c], calls[c])
  BY DEF IInv, Shape, Alike
<1>1. CASE LoadState(c)
  <2> DEFINE x == [calls[c] EXCEPT !.version = stored[calls[c].session]]
  <2>1. IsCall(x) /\ Alike(calls[c], x) /\ x.todo = calls[c].todo
    BY <1>0 DEF IsCall, Fields, Alike
  <2> QED
    BY <1>1, <2>1, AlikeTold DEF LoadState
<1>2. CASE Analyse(c) \/ Reflect(c)
  BY <1>2, <1>0, AlikeTold DEF Analyse, Reflect
<1>3. CASE Decide(c)
  <2>1. PICK decision : Finished(c, "EXECUTION_DECISION", [calls[c] EXCEPT !.decision = decision])
    BY <1>3 DEF Decide
  <2> DEFINE x == [calls[c] EXCEPT !.decision = decision]
  <2>2. IsCall(x) /\ Alike(calls[c], x) /\ x.todo = calls[c].todo
    BY <1>0 DEF IsCall, Fields, Alike
  <2> QED
    BY <1>3, <2>1, <2>2, AlikeTold DEF Decide
<1>4. CASE Act(c)
  <2>1. PICK action : Finished(c, "ACTION", [calls[c] EXCEPT !.action = action])
    BY <1>4 DEF Act
  <2> DEFINE x == [calls[c] EXCEPT !.action = action]
  <2>2. IsCall(x) /\ Alike(calls[c], x) /\ x.todo = calls[c].todo
    BY <1>0 DEF IsCall, Fields, Alike
  <2> QED
    BY <1>4, <2>1, <2>2, AlikeTold DEF Act
<1>5. CASE Generate(c)
  <2> DEFINE called == Asks(calls[c])
  <2>1. PICK generation : Finished(c, "ANSWER_GENERATION",
            [calls[c] EXCEPT !.generation = generation, !.called = called])
    BY <1>5 DEF Generate
  <2> HIDE DEF called
  <2> DEFINE x == [calls[c] EXCEPT !.generation = generation, !.called = called]
  <2>2. IsCall(x) /\ Alike(calls[c], x) /\ x.todo = calls[c].todo
    BY <1>0 DEF IsCall, Fields, Alike
  <2> QED
    BY <1>5, <2>1, <2>2, AlikeTold DEF Generate
<1>6. CASE IngestDocument(c)
  <2> DEFINE x == [calls[c] EXCEPT !.ingested = {<<c, "document">>}]
  <2>1. IsCall(x) /\ Alike(calls[c], x) /\ x.todo = calls[c].todo
    BY <1>0 DEF IsCall, Fields, Alike
  <2> QED
    BY <1>6, <2>1, AlikeTold DEF IngestDocument
<1>7. CASE ShapeOutput(c)
  <2> DEFINE x == [calls[c] EXCEPT !.outcome = Shaped(calls[c])]
  <2>1. IsCall(x) /\ Alike(calls[c], x) /\ x.todo = calls[c].todo
    BY <1>0 DEF IsCall, Fields, Alike
  <2> QED
    BY <1>7, <2>1, AlikeTold DEF ShapeOutput
<1>8. CASE CommitState(c)
  <2> DEFINE x == [calls[c] EXCEPT !.version = @ + 1, !.committed = TRUE]
  <2>1. IsCall(x) /\ Alike(calls[c], x) /\ x.todo = calls[c].todo
    BY <1>0 DEF IsCall, Fields, Alike
  <2>2. \/ Finished(c, "STATE_COMMIT", calls[c])
        \/ Finished(c, "STATE_COMMIT", x)
    BY <1>8 DEF CommitState
  <2> QED
    BY <1>8, <1>0, <2>1, <2>2, AlikeTold DEF CommitState
<1>9. CASE CommitMemory(c)
  <2>1. PICK roles : Finished(c, "MEMORY_COMMIT",
            [calls[c] EXCEPT !.created = {<<c, role>> : role \in roles},
               !.admitted = IF {<<c, role>> : role \in roles} = {} THEN "not_stored" ELSE "stored"])
    BY <1>9 DEF CommitMemory
  <2> DEFINE new == {<<c, role>> : role \in roles}
             said == IF new = {} THEN "not_stored" ELSE "stored"
             x == [calls[c] EXCEPT !.created = new, !.admitted = said]
  <2>2. Finished(c, "MEMORY_COMMIT", x)
    BY <2>1
  <2> HIDE DEF new, said
  <2>3. IsCall(x) /\ Alike(calls[c], x) /\ x.todo = calls[c].todo
    BY <1>0 DEF IsCall, Fields, Alike
  <2> QED
    BY <1>9, <2>2, <2>3, AlikeTold DEF CommitMemory
<1> QED
  BY <1>1, <1>2, <1>3, <1>4, <1>5, <1>6, <1>7, <1>8, <1>9

LEMMA EvidenceTold ==
    ASSUME IInv, Told, NEW c \in Calls, AcquireEvidence(c)
    PROVE  Told'
<1> DEFINE compressed == IF calls[c].compresses THEN "applied" ELSE "bypassed"
           retrieval == [strategies |-> Strategies(Of(calls[c]).profile),
                         reranker |-> IF settings.rerank THEN "active" ELSE "disabled"]
           bypassed(said) == [calls[c] EXCEPT !.compressed = compressed, !.sufficiency = said]
           searched(cited, said) ==
               [calls[c] EXCEPT !.compressed = compressed, !.retrieval = retrieval,
                   !.evidence = cited, !.sufficiency = said]
<1>0. /\ IsCall(calls[c]) /\ calls[c].at = "running" /\ At(c, "EVIDENCE_ACQUISITION")
      /\ UNCHANGED settings
  BY DEF IInv, Shape, AcquireEvidence, At
<1>1. \/ \E said : Finished(c, "EVIDENCE_ACQUISITION", bypassed(said))
      \/ \E cited, said : Finished(c, "EVIDENCE_ACQUISITION", searched(cited, said))
  BY DEF AcquireEvidence
<1>2. /\ compressed = "applied" => calls[c].compresses
      /\ retrieval = Retrieves(calls[c], settings)
  BY DEF Retrieves
<1> HIDE DEF compressed, retrieval
<1>3. ASSUME NEW said, Finished(c, "EVIDENCE_ACQUISITION", bypassed(said))
      PROVE  Told'
  <2> DEFINE x == bypassed(said)
  <2>1. /\ IsCall(x) /\ x.at = "running" /\ x.route = calls[c].route
        /\ x.todo = calls[c].todo /\ x.completed = calls[c].completed
        /\ x.environment = calls[c].environment
        /\ x.compresses = calls[c].compresses /\ x.queued = calls[c].queued
        /\ x.retrieval = calls[c].retrieval /\ x.compressed = compressed
    BY <1>0 DEF IsCall, Fields
  <2>2. Finished(c, "EVIDENCE_ACQUISITION", x)
    BY <1>3
  <2> HIDE DEF x
  <2> QED
    BY <1>0, <1>2, <2>1, <2>2, FinishedTold
<1>4. ASSUME NEW cited, NEW said, Finished(c, "EVIDENCE_ACQUISITION", searched(cited, said))
      PROVE  Told'
  <2> DEFINE x == searched(cited, said)
  <2>1. /\ IsCall(x) /\ x.at = "running" /\ x.route = calls[c].route
        /\ x.todo = calls[c].todo /\ x.completed = calls[c].completed
        /\ x.environment = calls[c].environment
        /\ x.compresses = calls[c].compresses /\ x.queued = calls[c].queued
        /\ x.retrieval = retrieval /\ x.compressed = compressed
    BY <1>0 DEF IsCall, Fields
  <2>2. Finished(c, "EVIDENCE_ACQUISITION", x)
    BY <1>4
  <2> HIDE DEF x
  <2> QED
    BY <1>0, <1>2, <2>1, <2>2, FinishedTold
<1> QED
  BY <1>1, <1>3, <1>4

\* A supervisor that does not maintain takes no event.
LEMMA EnqueueTold ==
    ASSUME IInv, Told, NEW c \in Calls, EnqueueMaintenance(c)
    PROVE  Told'
<1>0. /\ IsCall(calls[c]) /\ At(c, "MAINTENANCE_ENQUEUE") /\ calls[c].at = "running"
      /\ UNCHANGED settings
  BY DEF IInv, Shape, EnqueueMaintenance, At
<1>1. PICK events \in Accepted(calls[c], Enqueuer(calls[c])) :
          Finished(c, "MAINTENANCE_ENQUEUE", [calls[c] EXCEPT !.queued = Cardinality(events)])
  BY DEF EnqueueMaintenance
<1> DEFINE n == Cardinality(events)
           x == [calls[c] EXCEPT !.queued = n]
<1>2. n > 0 => settings.maintain
  <2> SUFFICES ASSUME ~settings.maintain PROVE ~(n > 0)
    OBVIOUS
  <2>1. Cardinality(CreatedIds(calls[c])) \in Nat
    BY FS_CardinalityType DEF IInv, Stored
  <2>2. n = IF Cardinality(CreatedIds(calls[c])) < 0 THEN Cardinality(CreatedIds(calls[c])) ELSE 0
    BY DEF Accepted
  <2> HIDE DEF n
  <2> QED
    BY <2>1, <2>2
<1>3. Finished(c, "MAINTENANCE_ENQUEUE", x)
  BY <1>1
<1> HIDE DEF n
<1>4. /\ IsCall(x) /\ x.at = "running" /\ x.route = calls[c].route
      /\ x.todo = calls[c].todo /\ x.completed = calls[c].completed
      /\ x.environment = calls[c].environment
      /\ x.compresses = calls[c].compresses /\ x.queued = n
      /\ x.retrieval = calls[c].retrieval /\ x.compressed = calls[c].compressed
  BY <1>0 DEF IsCall, Fields
<1> HIDE DEF x
<1> QED
  BY <1>0, <1>2, <1>3, <1>4, FinishedTold

\* The record of a call changes, and the logs do not.
LEMMA QuietTold ==
    ASSUME IInv, Told, NEW c \in Calls, NEW y, calls' = [calls EXCEPT ![c] = y],
           UNCHANGED <<settings, log>>, Tells(c, y, settings, log)
    PROVE  Told'
<1>1. /\ calls'[c] = y /\ \A d \in Calls : d # c => calls'[d] = calls[d]
      /\ \A d \in Calls : calls[d].environment \in Environments
  BY DEF IInv, Shape
<1> QED
  BY <1>1, OthersTold DEF Told

LEMMA OmittedTold ==
    ASSUME IInv, Told, NEW c \in Calls, SkipPhase(c) \/ PhaseFails(c) \/ CancelledWithin(c)
    PROVE  Told'
<1>0. /\ IsCall(calls[c]) /\ calls[c].at = "running" /\ calls[c].todo # <<>>
      /\ Fits(calls[c], settings) /\ calls[c].todo \in Seq(Runs(calls[c].route))
      /\ Logged(c, calls[c], log) /\ UNCHANGED <<settings, log>>
  BY DEF IInv, Shape, SkipPhase, PhaseFails, CancelledWithin, At, Told, Tells
<1>1. ASSUME NEW y, Alike(calls[c], y), y.todo \in Seq(Runs(calls[c].route)),
             calls' = [calls EXCEPT ![c] = y]
      PROVE  Told'
  <2>1. Fits(y, settings) /\ Logged(c, y, log)
    BY <1>0, <1>1 DEF Alike, Fits, Retrieves, Of, Logged
  <2>2. Tells(c, y, settings, log)
    BY <1>0, <1>1, <2>1 DEF Alike, Tells
  <2> QED
    BY <1>0, <1>1, <2>2, QuietTold
<1>2. CASE SkipPhase(c)
  <2> DEFINE todo == Tail(calls[c].todo)
             y == [calls[c] EXCEPT !.todo = todo]
  <2>1. calls' = [calls EXCEPT ![c] = y] /\ todo \in Seq(Runs(calls[c].route))
    BY <1>0, <1>2, TailRuns DEF SkipPhase
  <2> HIDE DEF todo
  <2>2. Alike(calls[c], y) /\ y.todo = todo
    BY <1>0 DEF IsCall, Fields, Alike
  <2> HIDE DEF y
  <2> QED
    BY <1>1, <2>1, <2>2
<1>3. ASSUME NEW status, calls' = [calls EXCEPT ![c] = [calls[c] EXCEPT !.status = status]]
      PROVE  Told'
  <2> DEFINE y == [calls[c] EXCEPT !.status = status]
  <2>1. calls' = [calls EXCEPT ![c] = y]
    BY <1>3
  <2>2. Alike(calls[c], y) /\ y.todo = calls[c].todo
    BY <1>0 DEF IsCall, Fields, Alike
  <2> HIDE DEF y
  <2> QED
    BY <1>0, <1>1, <2>1, <2>2
<1>4. \E status : calls' = [calls EXCEPT ![c] = [calls[c] EXCEPT !.status = status]]
      \/ SkipPhase(c)
  BY DEF PhaseFails, CancelledWithin
<1> QED
  BY <1>2, <1>3, <1>4

LEMMA EndTold ==
    ASSUME IInv, Told, NEW c \in Calls, Reject(c) \/ Return(c) \/ Abandon(c)
    PROVE  Told'
<1>1. ASSUME NEW y, IsCall(y), y.at \in {"returned", "abandoned"}, calls' = [calls EXCEPT ![c] = y]
      PROVE  Told'
  <2>1. Tells(c, y, settings, log) /\ UNCHANGED <<settings, log>>
    BY <1>1 DEF Tells, Reject, Return, Abandon
  <2> QED
    BY <1>1, <2>1, QuietTold
<1>2. CASE Reject(c)
  <2> DEFINE y == [Idle EXCEPT !.at = "returned"]
  <2>1. calls' = [calls EXCEPT ![c] = y]
    BY <1>2 DEF Reject
  <2>2. IsCall(y) /\ y.at = "returned"
    BY Fresh DEF IsCall, Fields
  <2> HIDE DEF y
  <2> QED
    BY <1>1, <2>1, <2>2
<1>3. CASE Return(c)
  <2> DEFINE status == Ended(c).status
             result == Adapted(calls[c], Responded(c))
             y == [Idle EXCEPT !.at = "returned", !.arrived = calls[c].arrived,
                               !.status = status, !.result = result]
  <2>1. calls' = [calls EXCEPT ![c] = y]
    BY <1>3 DEF Return
  <2> HIDE DEF status, result
  <2>2. IsCall(y) /\ y.at = "returned"
    BY Fresh DEF IsCall, Fields
  <2> HIDE DEF y
  <2> QED
    BY <1>1, <2>1, <2>2
<1>4. CASE Abandon(c)
  <2> DEFINE y == [Idle EXCEPT !.at = "abandoned", !.arrived = calls[c].arrived]
  <2>1. calls' = [calls EXCEPT ![c] = y]
    BY <1>4 DEF Abandon
  <2>2. IsCall(y) /\ y.at = "abandoned"
    BY Fresh DEF IsCall, Fields
  <2> HIDE DEF y
  <2> QED
    BY <1>1, <2>1, <2>2
<1> QED
  BY <1>2, <1>3, <1>4

LEMMA SubmitTold ==
    ASSUME IInv, Told, NEW c \in Calls, Submit(c)
    PROVE  Told'
<1>1. PICK r \in Requests[c], session \in Sessions :
        /\ r[1] # "invalid"
        /\ calls' = [calls EXCEPT ![c] =
             [Idle EXCEPT !.at = "running", !.route = r[1], !.session = session,
                          !.adapter = r[3], !.environment = BoundTo,
                          !.todo = Routes[r[1]].phases, !.compresses = r[2],
                          !.status = "RUNNING", !.arrived = current]]
  BY DEF Submit
<1> DEFINE todo == Routes[r[1]].phases
           x == [Idle EXCEPT !.at = "running", !.route = r[1], !.session = session,
                             !.adapter = r[3], !.environment = current]
           y == [x EXCEPT !.todo = todo, !.compresses = r[2], !.status = "RUNNING",
                          !.arrived = current]
<1>2. calls' = [calls EXCEPT ![c] = y]
  BY <1>1 DEF BoundTo
<1>3. r[1] \in DOMAIN Routes /\ todo \in Seq(Runs(r[1]))
  <2>1. r[1] \in DOMAIN Routes
    BY <1>1, RuntimeAssumption
  <2> QED
    BY <2>1, RoutesCover
<1> HIDE DEF todo
<1>4. Idle.completed = {} /\ Idle.retrieval = NoRetrieval /\ Idle.compressed = "none" /\ Idle.queued = 0
  BY DEF Idle
<1>5. /\ y.at = "running" /\ y.route = r[1] /\ y.todo = todo /\ y.completed = {}
      /\ y.environment = current /\ y.retrieval = NoRetrieval /\ y.compressed = "none"
      /\ y.queued = 0
  <2>1. /\ IsCall(x) /\ x.at = "running" /\ x.route = r[1] /\ x.completed = {}
        /\ x.environment = current /\ x.retrieval = NoRetrieval /\ x.compressed = "none"
        /\ x.queued = 0
    BY <1>4, Fresh, ZenonT(30) DEF IsCall, Fields
  <2> HIDE DEF x
  <2> QED
    BY <2>1, ZenonT(30) DEF IsCall, Fields
<1> HIDE DEF y
<1>6. calls[c].at = "idle" /\ UNCHANGED <<settings, log>>
  BY DEF Submit
<1>7. calls[c].completed = {} /\ Logged(c, calls[c], log)
  BY <1>6 DEF Told, Tells
<1>8. Logged(c, y, log)
  BY <1>5, <1>7 DEF Logged
<1>9. Fits(y, settings)
  BY <1>3, <1>5 DEF Fits
<1>10. Tells(c, y, settings, log)
  BY <1>3, <1>5, <1>8, <1>9 DEF Tells
<1> QED
  BY <1>2, <1>6, <1>10, QuietTold

LEMMA InitTold == Init => Told
<1> SUFFICES ASSUME Init
             PROVE  Told
  OBVIOUS
<1>1. Idle.at = "idle" /\ Idle.completed = {}
  BY DEF Idle
<1>2. \A c \in Calls : calls[c] = Idle
  BY DEF Init
<1>3. log = [e \in Environments |-> {}]
  BY DEF Init
<1> QED
  BY <1>1, <1>2, <1>3 DEF Told, Tells, Logged

LEMMA NextTold == IInv /\ Told /\ [Next]_vars => Told'
<1> SUFFICES ASSUME IInv, Told, [Next]_vars
             PROVE  Told'
  OBVIOUS
<1>1. ASSUME NEW c \in Calls, Submit(c)
      PROVE  Told'
  BY <1>1, SubmitTold
<1>2. ASSUME NEW c \in Calls, PhaseStep(c)
      PROVE  Told'
  BY <1>2, AnalysingTold, EvidenceTold, EnqueueTold, OmittedTold DEF PhaseStep
<1>3. ASSUME NEW c \in Calls, Reject(c) \/ Return(c) \/ Abandon(c)
      PROVE  Told'
  BY <1>3, EndTold
<1>4. CASE Reset \/ ResetReplaces \/ Maintain \/ UNCHANGED vars
  <2>1. /\ UNCHANGED <<calls, log>>
        /\ settings'.rerank = settings.rerank /\ settings'.maintain = settings.maintain
    BY <1>4 DEF Reset, ResetReplaces, Maintain, vars, IInv, Shape
  <2>2. \A c \in Calls : Fits(calls[c], settings) => Fits(calls[c], settings')
    BY <2>1 DEF Fits, Retrieves
  <2> QED
    BY <2>1, <2>2 DEF Told, Tells
<1> QED
  BY <1>1, <1>2, <1>3, <1>4 DEF Next

LEMMA Reported == Spec => []Told
  BY InitTold, NextTold, Inductive, PTL DEF Spec

\* The response of a call that returns, from what the invariants say of its record.
LEMMA ResponseIsOwn ==
    ASSUME IInv, Told, NEW c \in Calls, calls[c].at = "running"
    PROVE  LET x == Ended(c)
               response == Responded(c)
           IN  /\ TraceIsOwn(x, response.diagnostics.traced, c)
               /\ response.created \subseteq notes[x.environment]
               /\ ListsAgree(response.diagnostics,
                             "EVIDENCE_ACQUISITION" \in x.completed /\ x.retrieval = NoRetrieval)
<1> DEFINE x == Ended(c)
<1>1. /\ IsCall(calls[c]) /\ Fits(calls[c], settings) /\ Logged(c, calls[c], log)
      /\ CreatedIds(calls[c]) \subseteq notes[calls[c].environment]
      /\ current \in Environments
  BY DEF IInv, Shape, Stored, Told, Tells
<1>2. /\ Alike(calls[c], x) /\ CreatedIds(x) = CreatedIds(calls[c])
  BY <1>1 DEF Ended, IsCall, Fields, Alike, CreatedIds
<1> HIDE DEF x
<1>3. Fits(x, settings)
  BY <1>1, <1>2 DEF Alike, Fits, Retrieves, Of
<1>4. /\ Responded(c).diagnostics = Diagnostics(x, settings, Traced(c))
      /\ Responded(c).created = CreatedIds(x)
      /\ Responded(c).diagnostics.traced = Traced(c)
  BY DEF Responded, Response, Diagnostics, x
<1>5. TraceIsOwn(x, Traced(c), c)
  <2>1. \A t \in Traced(c) : t \in log[current] /\ t[1] = c
    BY DEF Traced
  <2>2. CASE current = calls[c].environment
    <3>1. \A t \in Traced(c) : \E p \in x.completed : t = <<c, p>>
      BY <1>1, <1>2, <2>1 DEF Logged, Alike
    <3>2. \A p \in x.completed : <<c, p>> \in Traced(c)
      BY <1>1, <1>2, <2>2 DEF Logged, Alike, Traced
    <3>3. {t[2] : t \in Traced(c)} = x.completed
      <4>1. \A t \in Traced(c) : t[2] \in x.completed
        BY <3>1
      <4>2. \A p \in x.completed : \E t \in Traced(c) : t[2] = p
        BY <3>2
      <4> QED
        BY <4>1, <4>2
    <3> QED
      BY <2>1, <3>3 DEF TraceIsOwn
  <2>3. CASE current # calls[c].environment
    <3>1. Traced(c) = {}
      BY <1>1, <2>1, <2>3 DEF Logged
    <3> QED
      BY <3>1 DEF TraceIsOwn
  <2> QED
    BY <2>2, <2>3
<1>6. ListsAgree(Diagnostics(x, settings, Traced(c)),
                 "EVIDENCE_ACQUISITION" \in x.completed /\ x.retrieval = NoRetrieval)
  BY <1>3, ReportsAgree
<1>7. CreatedIds(x) \subseteq notes[x.environment]
  BY <1>1, <1>2 DEF Alike
<1> QED
  BY <1>4, <1>5, <1>6, <1>7 DEF x

\* A response tells of its own execution only (_response and the diagnostics of
\* runtime/prima_runtime.py), for any callers, routes, settings and resets: its trace is what
\* the execution completed, or empty once its workflow was replaced; the notes it names are
\* stored; and what it lists as executed was planned and enabled, in its details as well.
THEOREM ReportsOwn == Spec => ReportIsOwn
<1>1. IInv /\ Told /\ [Next]_vars =>
        [\A c \in Calls : calls[c].at = "running" /\ calls'[c].at = "returned" =>
           LET x == Ended(c)
               response == Responded(c)
           IN  /\ TraceIsOwn(x, response.diagnostics.traced, c)
               /\ response.created \subseteq notes[x.environment]
               /\ ListsAgree(response.diagnostics,
                             "EVIDENCE_ACQUISITION" \in x.completed /\ x.retrieval = NoRetrieval)]_vars
  BY ResponseIsOwn
<1> QED
  BY <1>1, Inductive, Reported, PTL DEF Spec, ReportIsOwn
=============================================================================
