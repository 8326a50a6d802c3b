------------------------- MODULE MemoryMaintenance -------------------------
(***************************************************************************)
(* The memories of one conversation and what maintenance makes of them.    *)
(* A benchmark driver runs a conversation as one task: it starts the       *)
(* supervisor, ingests the turns, asks the questions with the barriers of  *)
(* the maintenance mode between them, and stops the supervisor.  Meanwhile *)
(* the worker takes the admitted memories one by one through               *)
(* MaintenancePipeline.handle, whose work runs in threads: embed, score,   *)
(* and, once per batch, consolidate the repository and evolve abstractions *)
(* over the graph MemoryIndex derives from the notes.                      *)
(*                                                                         *)
(* The queue and the retries of the supervisor are those of                *)
(* MaintenanceSupervisor, reduced to what a handler sees.  The repository  *)
(* is the in-memory one.  Every note it holds is episodic or semantic: the *)
(* runtime admits no working memory, so consolidation promotes none.       *)
(***************************************************************************)
EXTENDS Naturals, Sequences, FiniteSets, FiniteSetsExt, SequencesExt, Functions

CONSTANTS
    Turns,             \* the memories the turns admit, in order
    Questions,         \* the memories the answered questions admit, in order
    Stored,            \* memories in the repository before the runtime was made
    Words,             \* the keywords of each memory
    Boilerplate,       \* the keywords of every abstraction, its first words
    Modes,             \* MaintenanceMode values the driver is run with
    Batch,             \* batch_size of the pipeline
    Retries,           \* max_retries of the supervisor
    MaxAbstractions,   \* bound on abstractions
    Capacity,          \* max_queue_size of the supervisor
    MaxFaults,         \* bound on engine calls that raise and requests that fail
    Nothing

Admitted == ToSet(Turns) \cup ToSet(Questions)
Abstractions == 1..MaxAbstractions
Ids == Admitted \cup Stored \cup Abstractions
Barriers == {"after_conversation", "before_question", "before_finalization"}

\* Every memory that is admitted gets an id of its own.
ASSUME MemoryAssumption ==
    /\ Turns \in Seq(Admitted) /\ Questions \in Seq(Admitted)
    /\ IsInjective(Turns) /\ IsInjective(Questions) /\ ToSet(Turns) \cap ToSet(Questions) = {}
    /\ Admitted \cap Stored = {} /\ (Admitted \cup Stored) \cap Abstractions = {}
    /\ Nothing \notin Admitted /\ Nothing \notin {"worker", "driver"}
    /\ DOMAIN Words = Admitted \cup Stored
    /\ Modes \subseteq {"eventual", "flush_after_conversation", "flush_before_question", "flush_before_finalization"}
    /\ Batch \in Nat \ {0} /\ Capacity \in Nat \ {0} /\ Retries \in Nat /\ MaxAbstractions \in Nat /\ MaxFaults \in Nat

VARIABLES
    notes,        \* the repository: a function from the ids it holds
    nodes,        \* graph nodes, by memory id
    edges,        \* graph edges, as pairs of memory ids
    synced,       \* _graph_initialized
    queue,        \* events of the supervisor's queue, by memory id
    worker,       \* the worker task: where it is, its event and attempts
    pending,      \* _pending_heavy, by memory id
    actor,        \* the task that runs pipeline.flush, and what it has read
    driver,       \* the task of _run_conversation: its step and place in it
    mode,         \* the maintenance mode
    failures,     \* the failure store, by memory id
    unqueued,     \* memories stored by a request that failed before it queued them
    lost,         \* memories of a batch an engine raised on, which nobody retries or records
    unlinked,     \* notes with a node whose links are missing
    faults

repository == <<notes, nodes, edges, synced>>
fates == <<failures, unqueued, lost, unlinked>>
memoryVars == <<notes, nodes, edges, synced, queue, worker, pending, actor, driver, mode,
                failures, unqueued, lost, unlinked, faults>>

-----------------------------------------------------------------------------
(* Notes and the graph derived from them. *)

Blank(words) ==
    [version |-> 1, words |-> words, encoded |-> FALSE, scored |-> FALSE, decays |-> 0,
     parents |-> {}, ancestors |-> {}, origins |-> {}, generation |-> 0]

Updated(note) == [note EXCEPT !.version = @ + 1]

Embedded(note) == [Updated(note) EXCEPT !.encoded = TRUE]
Salient(note) == [Updated(note) EXCEPT !.scored = TRUE]

\* f where it is defined, g elsewhere.
Over(f, g) == [x \in DOMAIN f \cup DOMAIN g |-> IF x \in DOMAIN f THEN f[x] ELSE g[x]]

Overlap(a, b, store) == store[a].words \cap store[b].words # {}

LinksOf(id, store) == {{id, other} : other \in {o \in DOMAIN store \ {id} : Overlap(id, o, store)}}

Index(ids, store) ==
    /\ nodes' = nodes \cup ids
    /\ edges' = edges \cup UNION {LinksOf(id, store) : id \in ids}

Save(id, note) ==
    /\ notes' = Over([x \in {id} |-> note], notes)
    /\ Index({id}, notes')
    /\ UNCHANGED synced

\* Mutant: a graph that is not empty is taken for one of all notes.
EnsureGraphIndexIfEmpty ==
    /\ synced' = TRUE
    /\ IF synced \/ nodes # {} THEN UNCHANGED <<nodes, edges>> ELSE Index(DOMAIN notes \ nodes, notes)
    /\ UNCHANGED notes

\* ensure_graph_index, before a question searches the graph.
EnsureGraphIndex ==
    /\ synced' = TRUE
    /\ IF synced THEN UNCHANGED <<nodes, edges>> ELSE Index(DOMAIN notes \ nodes, notes)
    /\ UNCHANGED notes

\* The least set that an edge never leaves and that has the note.
Component(id) ==
    LET all == nodes \cup UNION edges
    IN  {x \in all : \A part \in SUBSET all :
            id \in part /\ (\A e \in edges : e \cap part # {} => e \subseteq part) => x \in part}

\* detect_communities, for the communities big enough to abstract: none, one
\* or two disjoint ones, each a pair within a component or all of it, if there
\* is room for their abstractions.
Communities ==
    LET room == MaxAbstractions - Cardinality(DOMAIN notes \cap Abstractions)
        parts == {Component(x) : x \in nodes}
        some == UNION {{c \in {part} \cup {{x, y} : x, y \in part} : Cardinality(c) > 1} : part \in parts}
    IN  {cs \in {<<>>} \cup {<<c>> : c \in some} \cup {<<c, d>> : c, d \in some} :
            Len(cs) <= room /\ (Len(cs) = 2 => cs[1] \cap cs[2] = {})}

\* Mutant: the parents' own parents are not carried over.
LineageOfAncestorsOnly(parents) == UNION {notes[p].ancestors : p \in parents}
Ancestors(parents) == UNION {notes[p].ancestors \cup notes[p].parents : p \in parents}

Origins(parents) == UNION {IF notes[p].origins = {} THEN {p} ELSE notes[p].origins : p \in parents}

Abstract(parents) ==
    [Blank(Boilerplate) EXCEPT !.version = 2,
        !.parents = parents, !.ancestors = Ancestors(parents), !.origins = Origins(parents),
        !.generation = 1 + Max({notes[p].generation : p \in parents})]

-----------------------------------------------------------------------------
(* The supervisor's worker and MaintenancePipeline.handle. *)

Idle == [at |-> "idle", event |-> Nothing, note |-> Nothing, tries |-> 0]
NoActor == [task |-> Nothing, at |-> "off", batch |-> {}, read |-> Nothing]

MemoryInit ==
    /\ notes = [id \in Stored |-> Blank(Words[id])]
    /\ nodes = {} /\ edges = {} /\ synced = FALSE
    /\ queue = <<>> /\ worker = Idle /\ pending = <<>> /\ actor = NoActor
    /\ driver = [step |-> 1, at |-> "next", failed |-> FALSE, seen |-> {}]
    /\ mode \in Modes
    /\ failures = {} /\ unqueued = {} /\ lost = {} /\ unlinked = {} /\ faults = 0

Take ==
    /\ worker.at = "idle" /\ queue # <<>> /\ driver.at # "over"
    /\ worker' = [at |-> "read", event |-> Head(queue), note |-> Nothing, tries |-> 0]
    /\ queue' = Tail(queue)
    /\ UNCHANGED <<repository, pending, actor, driver, mode, fates, faults>>

Read ==
    /\ worker.at = "read"
    /\ worker' = [worker EXCEPT !.at = "encode", !.note = Embedded(notes[worker.event])]
    /\ UNCHANGED <<repository, queue, pending, actor, driver, mode, fates, faults>>

Encode ==
    /\ worker.at = "encode"
    /\ Save(worker.event, worker.note)
    /\ worker' = [worker EXCEPT !.at = "score", !.note = Salient(@)]
    /\ UNCHANGED <<queue, pending, actor, driver, mode, fates, faults>>

Score ==
    /\ worker.at = "score"
    /\ Save(worker.event, worker.note)
    /\ pending' = Append(pending, worker.event)
    /\ worker' = [worker EXCEPT !.at = IF Len(pending') >= Batch THEN "flush" ELSE "done", !.note = Nothing]
    /\ UNCHANGED <<queue, actor, driver, mode, fates, faults>>

Done ==
    /\ worker.at = "done"
    /\ worker' = Idle
    /\ UNCHANGED <<repository, queue, pending, actor, driver, mode, fates, faults>>

\* The handler raises: it is tried again, or the event is given up.
Failed(w) ==
    IF w.tries < Retries THEN [w EXCEPT !.at = "read", !.note = Nothing, !.tries = w.tries + 1] ELSE Idle
GivenUp == IF worker.tries < Retries THEN {} ELSE {worker.event}

HandlerRaises ==
    /\ worker.at \in {"read", "encode", "score"} /\ faults < MaxFaults
    /\ worker' = Failed(worker)
    /\ failures' = failures \cup GivenUp
    /\ faults' = faults + 1
    /\ UNCHANGED <<repository, queue, pending, actor, driver, mode, unqueued, lost, unlinked>>

-----------------------------------------------------------------------------
(* MaintenancePipeline.flush, by the worker or by the driver's barrier. *)

Flushes(task) ==
    \/ task = "worker" /\ worker.at = "flush"
    \/ task = "driver" /\ driver.at = "flush"

Swap(task) ==
    /\ Flushes(task) /\ actor.task = Nothing /\ pending # <<>>
    /\ actor' = [task |-> task, at |-> "consolidate", batch |-> ToSet(pending), read |-> notes]
    /\ pending' = <<>>
    /\ UNCHANGED <<repository, queue, worker, driver, mode, fates, faults>>

\* ConsolidationEngine.run: each note as it was listed, with its decay.
Consolidate ==
    /\ actor.at = "consolidate"
    /\ LET decayed == [id \in DOMAIN actor.read |-> [Updated(actor.read[id]) EXCEPT !.decays = @ + 1]]
       IN  /\ notes' = Over(decayed, notes)
           /\ Index(DOMAIN actor.read, notes')
    /\ unlinked' = unlinked \ DOMAIN actor.read
    /\ actor' = [actor EXCEPT !.at = "rebuild", !.read = Nothing]
    /\ UNCHANGED <<synced, queue, worker, pending, driver, mode, failures, unqueued, lost, faults>>

Returned(task) ==
    /\ worker' = IF task = "worker" THEN [worker EXCEPT !.at = "done"] ELSE worker
    /\ driver' = IF task = "driver" THEN [driver EXCEPT !.at = "flushed"] ELSE driver

\* MemoryEvolutionEngine.evolve rebuilds the graph of the episodic notes, and
\* makes an abstraction for every community of two or more, however often it
\* was abstracted before.
Rebuild ==
    /\ actor.at = "rebuild"
    /\ LET episodic == DOMAIN notes \cap Admitted
       IN  /\ nodes' = nodes \cup episodic
           /\ edges' = edges \cup UNION {LinksOf(id, notes) \cap SUBSET episodic : id \in episodic}
    /\ actor' = [actor EXCEPT !.at = "evolve"]
    /\ UNCHANGED <<notes, synced, queue, worker, pending, driver, mode, fates, faults>>

Evolve ==
    /\ actor.at = "evolve"
    /\ \E cs \in Communities :
         LET first == Cardinality(DOMAIN notes \cap Abstractions)
             new == [n \in (first + 1)..(first + Len(cs)) |-> Abstract(cs[n - first])]
         IN  /\ notes' = Over(new, notes)
             /\ nodes' = nodes \cup DOMAIN new
             /\ edges' = edges \cup UNION {LinksOf(n, notes') \cup {{p, n} : p \in notes'[n].parents}
                                            : n \in DOMAIN new}
    /\ Returned(actor.task)
    /\ actor' = NoActor
    /\ UNCHANGED <<synced, queue, pending, mode, fates, faults>>

\* An engine raises, and its batch is gone.  Only the event in the worker's
\* hand is retried or recorded; of the others, and of what the driver's flush
\* had taken, nobody keeps anything.
FlushRaises ==
    /\ actor.task # Nothing /\ faults < MaxFaults
    /\ actor' = NoActor
    /\ faults' = faults + 1
    /\ \/ /\ actor.task = "worker"
          /\ worker' = Failed(worker) /\ failures' = failures \cup GivenUp
          /\ lost' = lost \cup (actor.batch \ {worker.event})
          /\ UNCHANGED driver
       \/ /\ actor.task = "driver"
          /\ driver' = [driver EXCEPT !.at = "raised"] /\ lost' = lost \cup actor.batch
          /\ UNCHANGED <<worker, failures>>
    /\ UNCHANGED <<repository, queue, pending, mode, unqueued, unlinked>>

-----------------------------------------------------------------------------
(* _run_conversation. *)

Step(kind, id) == [kind |-> kind, id |-> id]

Program ==
    [i \in DOMAIN Turns |-> Step("turn", Turns[i])]
    \o <<Step("barrier", "after_conversation")>>
    \o [j \in 1..(2 * Len(Questions)) |->
           IF j % 2 = 1 THEN Step("barrier", "before_question") ELSE Step("question", Questions[j \div 2])]
    \o <<Step("barrier", "before_finalization"), Step("stop", Nothing)>>

Now == Program[driver.step]
Advanced == [driver EXCEPT !.step = @ + 1, !.at = "next", !.seen = {}]

FlushesBy ==
    [flush_after_conversation |-> "after_conversation", flush_before_question |-> "before_question",
     flush_before_finalization |-> "before_finalization", eventual |-> "before_finalization"]

\* Mutant: the barrier before a question is taken for the one after the conversation.
FlushesAtOther(m, barrier) ==
    FlushesBy[m] = IF barrier = "before_question" THEN "after_conversation" ELSE barrier
\* apply_barrier.
FlushesAt(m, barrier) == FlushesBy[m] = barrier

\* A turn is ingested: the note is stored, indexed, and its event queued.
BeginTurn ==
    /\ driver.at = "next" /\ Now.kind = "turn" /\ ~driver.failed
    /\ driver' = [driver EXCEPT !.at = "store"]
    /\ UNCHANGED <<repository, queue, worker, pending, actor, mode, fates, faults>>

\* A question searches the graph in the driver's task while threads may grow it.
BeginQuestion ==
    /\ driver.at = "next" /\ Now.kind = "question" /\ ~driver.failed
    /\ EnsureGraphIndex
    /\ driver' = [driver EXCEPT !.at = "search", !.seen = nodes']
    /\ UNCHANGED <<queue, worker, pending, actor, mode, fates, faults>>

SearchEnds ==
    /\ driver.at = "search"
    /\ driver' = [driver EXCEPT !.at = "store", !.seen = {}]
    /\ UNCHANGED <<repository, queue, worker, pending, actor, mode, fates, faults>>

\* A dictionary that grows under an iteration raises; the question fails.
SearchRaises ==
    /\ driver.at = "search" /\ driver.seen # nodes
    /\ driver' = Advanced
    /\ UNCHANGED <<repository, queue, worker, pending, actor, mode, fates, faults>>

Store ==
    /\ driver.at = "store"
    /\ notes' = Over([id \in {Now.id} |-> Blank(Words[id])], notes)
    /\ driver' = [driver EXCEPT !.at = "index"]
    /\ UNCHANGED <<nodes, edges, synced, queue, worker, pending, actor, mode, fates, faults>>

IndexStored ==
    /\ driver.at = "index"
    /\ Index({Now.id}, notes)
    /\ driver' = [driver EXCEPT !.at = "enqueue"]
    /\ UNCHANGED <<notes, synced, queue, worker, pending, actor, mode, fates, faults>>

\* A full queue refuses the event, and the failure is recorded at once.
Enqueue ==
    /\ driver.at = "enqueue"
    /\ IF Len(queue) < Capacity
         THEN queue' = Append(queue, Now.id) /\ UNCHANGED failures
         ELSE failures' = failures \cup {Now.id} /\ UNCHANGED queue
    /\ driver' = Advanced
    /\ UNCHANGED <<repository, worker, pending, actor, mode, unqueued, lost, unlinked, faults>>

\* A failed turn ends the ingestion, and no question is asked after it.
FailedRequest ==
    IF Now.kind = "turn"
      THEN [driver EXCEPT !.failed = TRUE, !.step = Len(Turns) + 1, !.at = "next", !.seen = {}]
      ELSE Advanced

\* A request that fails before it admits.
RequestFails ==
    /\ driver.at \in {"next", "search", "store"} /\ Now.kind \in {"turn", "question"} /\ ~driver.failed
    /\ faults < MaxFaults
    /\ driver' = FailedRequest
    /\ faults' = faults + 1
    /\ UNCHANGED <<repository, queue, worker, pending, actor, mode, fates>>

\* A request that fails between the store of its note and the queue.  The index
\* sets the node first and then lists the notes to link it to.
CommitFails ==
    /\ driver.at \in {"index", "enqueue"} /\ faults < MaxFaults
    /\ IF driver.at = "index"
         THEN nodes' = nodes \cup {Now.id} /\ unlinked' = unlinked \cup {Now.id}
         ELSE UNCHANGED <<nodes, unlinked>>
    /\ unqueued' = unqueued \cup {Now.id}
    /\ driver' = FailedRequest
    /\ faults' = faults + 1
    /\ UNCHANGED <<notes, edges, synced, queue, worker, pending, actor, mode, failures, lost>>

\* The questions of a conversation whose ingestion failed are only recorded.
RecordFailed ==
    /\ driver.at = "next" /\ driver.failed
    /\ Now.kind = "question" \/ Now = Step("barrier", "before_question")
    /\ driver' = Advanced
    /\ UNCHANGED <<repository, queue, worker, pending, actor, mode, fates, faults>>

Barrier ==
    /\ driver.at = "next" /\ Now.kind = "barrier" /\ ~(driver.failed /\ Now.id = "before_question")
    /\ driver' = IF FlushesAt(mode, Now.id) THEN [driver EXCEPT !.at = "join"] ELSE Advanced
    /\ UNCHANGED <<repository, queue, worker, pending, actor, mode, fates, faults>>

\* A graceful stop flushes first, whatever the mode.
Stop ==
    /\ \/ driver.at = "raised" /\ Now.kind # "stop"
       \/ driver.at = "next" /\ Now.kind = "stop"
    /\ driver' = [driver EXCEPT !.at = "join", !.step = Len(Program)]
    /\ UNCHANGED <<repository, queue, worker, pending, actor, mode, fates, faults>>

\* Mutant: the barrier waits for the queue, not for the event in hand.
JoinedQueue == queue = <<>>
\* queue.join: every event taken has been marked done.
Joined == queue = <<>> /\ worker.at = "idle"

\* Mutant: the pipeline is only flushed of full batches.
RemainingBatch == Len(pending) >= Batch
Remaining == pending # <<>>

Join ==
    /\ driver.at = "join" /\ Joined
    /\ driver' = [driver EXCEPT !.at = IF Remaining THEN "flush" ELSE "flushed"]
    /\ UNCHANGED <<repository, queue, worker, pending, actor, mode, fates, faults>>

AfterFlush ==
    /\ driver.at = "flushed"
    /\ driver' = IF Now.kind = "stop" THEN [driver EXCEPT !.at = "over"] ELSE Advanced
    /\ UNCHANGED <<repository, queue, worker, pending, actor, mode, fates, faults>>

\* When the flush of the stop itself raises there is nothing left to flush.
StopRaises ==
    /\ driver.at = "raised" /\ Now.kind = "stop"
    /\ driver' = [driver EXCEPT !.at = "over"]
    /\ UNCHANGED <<repository, queue, worker, pending, actor, mode, fates, faults>>

-----------------------------------------------------------------------------
Worker == Take \/ Read \/ Encode \/ Score \/ Done \/ Swap("worker")
Thread == Consolidate \/ Rebuild \/ Evolve
Driver ==
    \/ BeginTurn \/ BeginQuestion \/ SearchEnds \/ Store \/ IndexStored \/ Enqueue
    \/ RecordFailed \/ Barrier \/ Stop \/ Join \/ Swap("driver") \/ AfterFlush \/ StopRaises

MemoryNext == Worker \/ Thread \/ Driver \/ HandlerRaises \/ FlushRaises \/ SearchRaises \/ RequestFails \/ CommitFails

MemorySpec == MemoryInit /\ [][MemoryNext]_memoryVars
\* The event loop runs every ready task and a thread ends.
FairSpec == MemorySpec /\ WF_memoryVars(Worker) /\ WF_memoryVars(Thread) /\ WF_memoryVars(Driver)

-----------------------------------------------------------------------------
(* Properties. *)

\* Nobody writes back what somebody else has changed since it was read: a
\* stored note only gives way to a later version, and keeps what maintenance
\* did to it.  The notes are read before an await and written after it, and
\* only the order of worker, barrier and requests keeps them apart.
NoUpdateLost ==
    [][\A id \in DOMAIN notes :
          /\ id \in DOMAIN notes'
          /\ notes'[id] # notes[id] =>
                /\ notes'[id].version > notes[id].version
                /\ notes[id].encoded => notes'[id].encoded
                /\ notes'[id].decays >= notes[id].decays]_memoryVars

Parents(id) == notes[id].parents

\* The least set that has the parents of the note and of each of its members.
Lineage(id) ==
    {x \in Ids : \A above \in SUBSET Ids :
        Parents(id) \subseteq above /\ (\A y \in above \cap DOMAIN notes : Parents(y) \subseteq above)
            => x \in above}

\* After any number of evolutions, of abstractions too, an abstraction names
\* everything it was made from, comes from notes somebody wrote, and is of a
\* later generation than its parents.
LineageClosed ==
    \A id \in DOMAIN notes \cap Abstractions :
       /\ Parents(id) \cup notes[id].ancestors = Lineage(id)
       /\ notes[id].origins = Lineage(id) \ Abstractions
       /\ \A p \in Parents(id) : notes[p].generation < notes[id].generation

\* Once the index is synchronised, and whenever no note is between its store
\* and its index, the graph is the one a rebuild from the notes would give:
\* a node for each note, an edge for each overlap, and no edge that dangles.
\* Only a note whose own indexing failed may lack edges, until a consolidation
\* writes it again.
GraphDerived ==
    synced /\ driver.at # "index" =>
       /\ nodes = DOMAIN notes
       /\ UNION edges \subseteq nodes
       /\ \A id \in DOMAIN notes \ unlinked : \A link \in LinksOf(id, notes) : link \in edges \/ link \cap unlinked # {}

\* What the code owes an admitted memory: it is encoded, scored and
\* consolidated, unless the supervisor recorded its failure or its own request
\* failed before it was queued.  A memory whose batch was lost to an engine
\* that raised is encoded and scored, may never be consolidated, and nothing
\* records that.
Settled(id) ==
    \/ id \in failures \cup unqueued
    \/ notes[id].encoded /\ notes[id].scored /\ (notes[id].decays > 0 \/ id \in lost)

\* With the barrier before each question, a question searches a memory that is
\* at rest: no thread can grow the graph under it, no event waits anywhere,
\* and every memory admitted so far is settled.  A lost batch is excused from
\* its consolidation here as in the code, which records no failure for it.
QuestionAtRest ==
    mode = "flush_before_question" /\ driver.at = "search" =>
       /\ driver.seen = nodes
       /\ queue = <<>> /\ worker.at = "idle" /\ pending = <<>> /\ actor = NoActor
       /\ \A id \in DOMAIN notes \cap Admitted : Settled(id)

\* Every admitted memory is settled in the end, in every mode: its failure is
\* recorded, its request failed, or it is encoded, scored and, unless its batch
\* was lost to an engine that raised, consolidated.
EveryMemoryMaintained ==
    \A id \in Admitted : id \in DOMAIN notes ~> id \in DOMAIN notes /\ Settled(id)

=============================================================================
