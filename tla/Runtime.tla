-------------------------------- MODULE Runtime --------------------------------
(***************************************************************************)
(* The runtime boundary (runtime/prima_runtime.py): requests of concurrent *)
(* callers run on the workflow that the runtime holds when they arrive,    *)
(* while reset() may replace its repository, supervisor and workflow under *)
(* them and a maintenance worker goes through what they have stored.       *)
(*                                                                         *)
(* An environment is a number: the repository, the memory index, the       *)
(* workflow and, when the runtime owns it, the supervisor that the         *)
(* constructor or a replacing reset built together. A note is a pair of    *)
(* the call that stored it and its role. A step is one phase of one call;  *)
(* Workflow has their retries and corrections, MaintenanceSupervisor the   *)
(* worker's.                                                               *)
(***************************************************************************)
EXTENDS RuntimeReport

CONSTANTS
    Calls,       \* callers, each with one request
    Sessions,    \* sessions the requests name
    Requests,    \* for each caller, what it may ask for: a route ("invalid" is a pair that has
                 \* none), whether to compress, and the method: "execute", "answer", "ingest"
                 \* or "process"
    Settings,    \* how the runtime may be constructed
    MaxResets,   \* bound on resets that replace the repository
    MaxLost,     \* bound on the executions that fail or are cancelled
    QueueSize,   \* maintenance_queue_size
    TopK         \* how many notes a retrieval cites

ASSUME RuntimeAssumption ==
    /\ \A c \in Calls : \A r \in Requests[c] :
         /\ r[1] \in DOMAIN Routes \cup {"invalid"} /\ r[2] \in BOOLEAN
         /\ r[3] \in {"execute", "answer", "ingest", "process"}
    /\ Settings \subseteq
         [mode : {"production", "benchmark", "test"}, memory : {"in_memory", "chroma"},
          state : {"in_memory", "json"}, owned : BOOLEAN, rerank : BOOLEAN, maintain : BOOLEAN]
    /\ {MaxResets, MaxLost} \subseteq Nat /\ QueueSize \in Nat \ {0} /\ TopK \in Nat

VARIABLES
    settings,   \* mode, storage, ownership of the supervisor, what is switched on
    current,    \* the environment the runtime's attributes refer to
    notes,      \* for each environment, the notes of its repository
    queue,      \* for each supervisor, the events waiting in its queue
    failed,     \* pairs of a supervisor and a note its pipeline did not find
    stored,     \* for each session, the version the state manager holds
    log,        \* for each workflow, its events: pairs of a call and a completed phase
    calls       \* the executions

store == <<notes, stored>>
maintenance == <<queue, failed>>
vars == <<settings, current, store, maintenance, log, calls>>

Environments == 0..MaxResets

Idle ==
    [at |-> "idle", route |-> "emotion", session |-> "", adapter |-> "execute",
     environment |-> 0, todo |-> <<>>, completed |-> {}, retrieval |-> NoRetrieval,
     compresses |-> TRUE, compressed |-> "none", evidence |-> {}, sufficiency |-> "none",
     decision |-> "none", action |-> "none", called |-> FALSE, generation |-> "none",
     outcome |-> "none", version |-> 0, committed |-> FALSE, created |-> {}, ingested |-> {},
     admitted |-> "none", queued |-> 0, status |-> "PENDING",
     result |-> "none", arrived |-> 0]

\* The repository that select_memory_repository takes for a mode: the one passed in, or the
\* one its backend and path configure.
Selected(mode, given, backend, path) ==
    IF given # "none"
    THEN IF \/ mode = "production" /\ given # "chroma"
            \/ mode = "benchmark" /\ backend = "none"
            \/ backend \notin {"none", given}
         THEN "refused" ELSE given
    ELSE IF \/ mode = "test" /\ backend = "none"
            \/ mode # "production" /\ backend = "in_memory"
         THEN "in_memory"
    ELSE IF backend = "chroma" /\ path THEN "chroma" ELSE "refused"

\* Where the cognitive state is kept: the manager passed in, or the one the mode asks for.
StateKept(mode, given, path) ==
    CASE mode = "production" ->
           IF given = "json" \/ (given = "none" /\ path) THEN "json" ELSE "refused"
      [] OTHER -> IF given = "none" THEN "in_memory" ELSE given

Storages == {"none", "in_memory", "chroma"}

\* The constructor accepts some arguments that lead to these settings.
Constructed(s) ==
    /\ \E given, backend \in Storages, path \in BOOLEAN :
         s.memory = Selected(s.mode, given, backend, path)
    /\ \E given \in {"none", "in_memory", "json"}, path \in BOOLEAN :
         s.state = StateKept(s.mode, given, path)

Init ==
    /\ settings \in Settings /\ Constructed(settings)
    /\ current = 0
    /\ notes = [e \in Environments |-> {}]
    /\ queue = [e \in Environments |-> <<>>]
    /\ failed = {}
    /\ stored = [s \in Sessions |-> 0]
    /\ log = [e \in Environments |-> {}]
    /\ calls = [c \in Calls |-> Idle]

\* A supervisor that the caller passed in survives every reset.
SupervisorOf(e) == IF settings.owned THEN e ELSE 0
-----------------------------------------------------------------------------
(* Requests. *)

\* The request each adapter builds.
Builds(adapter, request) ==
    CASE adapter = "answer" -> request = "factual_full"
      [] adapter = "ingest" -> request = "ingestion"
      [] adapter = "process" -> request = "conversation_full"
      [] OTHER -> TRUE

\* Mutant of BoundTo: a replacing reset keeps the workflow.
BoundToFirst == 0

\* The workflow that execute runs the request on, to its end.
BoundTo == current

\* arrived: history, after how many replacing resets the request came.
Submit(c) ==
    /\ calls[c].at = "idle"
    /\ \E r \in Requests[c], session \in Sessions :
         /\ r[1] # "invalid" /\ Builds(r[3], r[1])
         /\ calls' = [calls EXCEPT ![c] =
               [Idle EXCEPT !.at = "running", !.route = r[1], !.session = session,
                            !.adapter = r[3], !.environment = BoundTo,
                            !.todo = Routes[r[1]].phases, !.compresses = r[2],
                            !.status = "RUNNING", !.arrived = current]]
    /\ UNCHANGED <<settings, current, store, maintenance, log>>

\* select_route raises InvalidRouteError.
Reject(c) ==
    /\ calls[c].at = "idle"
    /\ \E request \in Requests[c] : request[1] = "invalid"
    /\ calls' = [calls EXCEPT ![c] = [Idle EXCEPT !.at = "returned"]]
    /\ UNCHANGED <<settings, current, store, maintenance, log>>
-----------------------------------------------------------------------------
(* Phases. *)

At(c, phase) ==
    /\ calls[c].at = "running" /\ calls[c].status = "RUNNING"
    /\ calls[c].todo # <<>> /\ Head(calls[c].todo) = phase

Withheld == {"RETRY_RETRIEVAL", "ASK_FOR_CLARIFICATION", "ABSTAIN"}

Omits(c, phase) ==
    \/ phase = "REFLECTION" /\ calls[c].decision # "REFLECT"
    \/ phase \in {"ACTION", "ANSWER_GENERATION"} /\ calls[c].decision \in Withheld

\* The phase returned x, and the workflow publishes PHASE_COMPLETED.
Finished(c, phase, x) ==
    /\ calls' = [calls EXCEPT ![c] =
          [x EXCEPT !.todo = Tail(@), !.completed = @ \cup {phase}]]
    /\ log' = [log EXCEPT ![calls[c].environment] = @ \cup {<<c, phase>>}]

SkipPhase(c) ==
    /\ \E phase \in {"REFLECTION", "ACTION", "ANSWER_GENERATION"} : At(c, phase) /\ Omits(c, phase)
    /\ calls' = [calls EXCEPT ![c].todo = Tail(@)]
    /\ UNCHANGED <<settings, current, store, maintenance, log>>

LoadState(c) ==
    /\ At(c, "STATE_LOAD")
    /\ Finished(c, "STATE_LOAD", [calls[c] EXCEPT !.version = stored[calls[c].session]])
    /\ UNCHANGED <<settings, current, store, maintenance>>

\* Phases whose results only feed the later choices.
Analyse(c) ==
    /\ \E phase \in {"AFFECT", "PLANNING", "WORLD_SIMULATION", "UNCERTAINTY_ESTIMATION",
                     "OUTPUT_VALIDATION"} :
         At(c, phase) /\ Finished(c, phase, calls[c])
    /\ UNCHANGED <<settings, current, store, maintenance>>

Reflect(c) ==
    /\ At(c, "REFLECTION") /\ ~Omits(c, "REFLECTION")
    /\ Finished(c, "REFLECTION", calls[c])
    /\ UNCHANGED <<settings, current, store, maintenance>>

Strategies(profile) ==
    IF profile = "prima_full" THEN {"dense", "sparse", "temporal", "graph"} ELSE {"dense", "sparse"}

\* Retrieval reads the repository of the call's environment. Its requests leave procedures
\* out; the neighbours that the graph strategy adds may be procedures.
Citable(x) ==
    {n \in notes[x.environment] :
       n[2] = "procedure" => "graph" \in Strategies(Of(x).profile)}

\* No retrieval answers a question that is only a greeting, or whose first retrieval raises.
\* A later one may raise after the others have found something.
AcquireEvidence(c) ==
    /\ At(c, "EVIDENCE_ACQUISITION")
    /\ LET x == calls[c]
           compressed == IF x.compresses THEN "applied" ELSE "bypassed"
           retrieval == [strategies |-> Strategies(Of(x).profile),
                         reranker |-> IF settings.rerank THEN "active" ELSE "disabled"]
       IN \/ \E sufficiency \in {"unanswerable", "error"} :
               Finished(c, "EVIDENCE_ACQUISITION",
                 [x EXCEPT !.compressed = compressed, !.sufficiency = sufficiency])
          \/ \E cited \in SUBSET Citable(x),
               sufficiency \in {"sufficient", "insufficient", "error"} :
               /\ Cardinality(cited) <= TopK
               /\ cited = {} => sufficiency # "sufficient"
               /\ Finished(c, "EVIDENCE_ACQUISITION",
                    [x EXCEPT !.compressed = compressed, !.retrieval = retrieval,
                              !.evidence = cited, !.sufficiency = sufficiency])
    /\ UNCHANGED <<settings, current, store, maintenance>>

Decide(c) ==
    /\ At(c, "EXECUTION_DECISION")
    /\ \E decision \in {"CONTINUE", "REFLECT", "ABSTAIN"} :
         Finished(c, "EXECUTION_DECISION", [calls[c] EXCEPT !.decision = decision])
    /\ UNCHANGED <<settings, current, store, maintenance>>

\* Whether the action succeeded is told apart for a tool request only.
Act(c) ==
    /\ At(c, "ACTION") /\ ~Omits(c, "ACTION")
    /\ \E action \in IF Of(calls[c]).task = "tool_request" THEN {"success", "failed"}
                     ELSE {"success"} :
         Finished(c, "ACTION", [calls[c] EXCEPT !.action = action])
    /\ UNCHANGED <<settings, current, store, maintenance>>

\* The model is called, unless a factual question has no sufficient evidence.
Asks(x) == Of(x).task = "factual_qa" => x.sufficiency \in {"none", "sufficient"}

Generations(x) ==
    IF Asks(x) THEN {"answered", "abstained", "failed"}
    ELSE IF x.sufficiency = "error" THEN {"failed"} ELSE {"abstained"}

\* The runtime passes a generation configuration that fits the task, always.
Generate(c) ==
    /\ At(c, "ANSWER_GENERATION") /\ ~Omits(c, "ANSWER_GENERATION")
    /\ LET called == Asks(calls[c])
       IN \E generation \in Generations(calls[c]) :
            Finished(c, "ANSWER_GENERATION",
                     [calls[c] EXCEPT !.generation = generation, !.called = called])
    /\ UNCHANGED <<settings, current, store, maintenance>>

IngestDocument(c) ==
    /\ At(c, "DOCUMENT_INGESTION")
    /\ notes' = [notes EXCEPT ![calls[c].environment] = @ \cup {<<c, "document">>}]
    /\ Finished(c, "DOCUMENT_INGESTION", [calls[c] EXCEPT !.ingested = {<<c, "document">>}])
    /\ UNCHANGED <<settings, current, stored, maintenance>>

Shaped(x) ==
    IF x.decision \in Withheld THEN "abstained"
    ELSE IF x.generation # "none" THEN x.generation
    ELSE IF x.ingested # {} \/ Of(x).task = "historical_replay" THEN "ingested"
    ELSE IF Of(x).task = "emotion_classification" THEN "classified" ELSE "actioned"

ShapeOutput(c) ==
    /\ At(c, "OUTPUT")
    /\ Finished(c, "OUTPUT", [calls[c] EXCEPT !.outcome = Shaped(calls[c])])
    /\ UNCHANGED <<settings, current, store, maintenance>>

\* save() with the loaded version; a conflict raises, and then the phase fails.
CommitState(c) ==
    /\ At(c, "STATE_COMMIT")
    /\ LET x == calls[c] IN
       \/ /\ x.outcome = "failed"
          /\ Finished(c, "STATE_COMMIT", x)
          /\ UNCHANGED stored
       \/ /\ x.outcome # "failed"
          /\ x.version = stored[x.session]
          /\ stored' = [stored EXCEPT ![x.session] = @ + 1]
          /\ Finished(c, "STATE_COMMIT", [x EXCEPT !.version = @ + 1, !.committed = TRUE])
    /\ UNCHANGED <<settings, current, notes, maintenance>>

\* The notes an admitted exchange becomes.
Memorable(x) ==
    IF x.outcome \in {"failed", "abstained"} THEN {}
    ELSE CASE Of(x).task = "tool_request" -> IF x.action = "success" THEN {"procedure"} ELSE {}
           [] Of(x).task = "historical_replay" -> {"user"}
           [] OTHER -> {"user", "assistant"}

CommitMemory(c) ==
    /\ At(c, "MEMORY_COMMIT")
    /\ \E roles \in {{}, Memorable(calls[c])} :
         LET created == {<<c, role>> : role \in roles}
         IN /\ notes' = [notes EXCEPT ![calls[c].environment] = @ \cup created]
            /\ Finished(c, "MEMORY_COMMIT",
                 [calls[c] EXCEPT !.created = created,
                    !.admitted = IF created = {} THEN "not_stored" ELSE "stored"])
    /\ UNCHANGED <<settings, current, stored, maintenance>>

\* Events the supervisor takes: as many as fit, none when it is disabled.
Accepted(x, s) ==
    LET room == IF settings.maintain THEN QueueSize - Len(queue[s]) ELSE 0
        waiting == CreatedIds(x)
    IN  {events \in SUBSET waiting :
           Cardinality(events) = IF Cardinality(waiting) < room THEN Cardinality(waiting) ELSE room}

Enqueued(s, events) ==
    {queue[s] \o order : order \in {o \in [1..Cardinality(events) -> events] :
                                      \A i, j \in DOMAIN o : o[i] = o[j] => i = j}}

\* Mutant of Enqueuer: the events go to the supervisor the runtime has by now.
EnqueuerNow(x) == SupervisorOf(current)

\* The supervisor that the workflow of the call was built with.
Enqueuer(x) == SupervisorOf(x.environment)

EnqueueMaintenance(c) ==
    /\ At(c, "MAINTENANCE_ENQUEUE")
    /\ LET x == calls[c]
           s == Enqueuer(x)
       IN \E events \in Accepted(x, s) :
            /\ \E q \in Enqueued(s, events) : queue' = [queue EXCEPT ![s] = q]
            /\ Finished(c, "MAINTENANCE_ENQUEUE", [x EXCEPT !.queued = Cardinality(events)])
    /\ UNCHANGED <<settings, current, store, failed>>

Lost == {c \in Calls : calls[c].status \in {"FAILED", "CANCELLED"} \/ calls[c].at = "abandoned"}

\* A controller raises after its retries. A memory commit may have stored the user note.
PhaseFails(c) ==
    /\ Cardinality(Lost) < MaxLost
    /\ calls[c].at = "running" /\ calls[c].status = "RUNNING"
    /\ calls[c].todo # <<>> /\ ~Omits(c, Head(calls[c].todo))
    /\ calls' = [calls EXCEPT ![c].status = "FAILED"]
    /\ \/ UNCHANGED notes
       \/ /\ At(c, "MEMORY_COMMIT")
          /\ "assistant" \in Memorable(calls[c])
          /\ notes' = [notes EXCEPT ![calls[c].environment] = @ \cup {<<c, "user">>}]
    /\ UNCHANGED <<settings, current, stored, maintenance, log>>

\* The phases in which a controller waits: a tool for its handler, a generation for the model.
Waits(x) ==
    {phase \in {"ACTION", "ANSWER_GENERATION"} :
       IF phase = "ACTION" THEN Of(x).task = "tool_request" ELSE Asks(x)}

\* The caller's task is cancelled there: the engine turns that into a cancelled workflow, and
\* returns its context as it is.
CancelledWithin(c) ==
    /\ Cardinality(Lost) < MaxLost
    /\ \E phase \in Waits(calls[c]) : At(c, phase) /\ ~Omits(c, phase)
    /\ calls' = [calls EXCEPT ![c].status = "CANCELLED"]
    /\ UNCHANGED <<settings, current, store, maintenance, log>>
-----------------------------------------------------------------------------
(* Responses. *)

\* Mutant of Traced: the trace is not filtered by the execution.
TracedAll(c) == log[current]

\* The events of the execution, read from the workflow the runtime has by now.
Traced(c) == {t \in log[current] : t[1] = c}

\* What the adapter makes of the response: ingest_document raises when the runtime's
\* repository, by now, does not have the note.
Adapted(x, response) ==
    CASE x.adapter = "process" -> RuntimeResult(response, notes[current], stored[x.session])
      [] x.adapter = "answer" -> Answer(response, notes[current])
      [] x.adapter = "ingest" ->
             IF response.created \cap notes[current] = {} THEN "raised" ELSE "note"
      [] OTHER -> "response"

Ended(c) ==
    IF calls[c].status \in {"FAILED", "CANCELLED"} THEN calls[c]
    ELSE [calls[c] EXCEPT !.status = "COMPLETED"]

\* The response of execute.
Responded(c) == Response(Ended(c), settings, Traced(c))

\* The caller has its response; of the execution only its notes and its events are left.
Return(c) ==
    /\ calls[c].at = "running"
    /\ calls[c].todo = <<>> \/ calls[c].status # "RUNNING"
    /\ calls' = [calls EXCEPT ![c] =
          [Idle EXCEPT !.at = "returned", !.arrived = calls[c].arrived, !.status = Ended(c).status,
                       !.result = Adapted(calls[c], Responded(c))]]
    /\ UNCHANGED <<settings, current, store, maintenance, log>>

\* The caller's task is cancelled anywhere else, before its first step or where a subscriber
\* of the workflow's events waits: CancelledError leaves execute without a response, and
\* nobody sees what its context held.
Abandon(c) ==
    /\ Cardinality(Lost) < MaxLost
    /\ calls[c].at = "running"
    /\ calls' = [calls EXCEPT ![c] =
          [Idle EXCEPT !.at = "abandoned", !.arrived = calls[c].arrived]]
    /\ UNCHANGED <<settings, current, store, maintenance, log>>
-----------------------------------------------------------------------------
(* Reset, and the maintenance workers. *)

\* The state manager forgets every session; memory stays.
Reset ==
    /\ stored' = [s \in Sessions |-> 0]
    /\ UNCHANGED <<settings, current, notes, maintenance, log, calls>>

\* reset("isolated", preserve_repository=False), in test mode only.
ResetReplaces ==
    /\ settings.mode = "test"
    /\ current < MaxResets
    /\ current' = current + 1
    /\ settings' = [settings EXCEPT !.memory = "in_memory"]
    /\ stored' = [s \in Sessions |-> 0]
    /\ UNCHANGED <<notes, maintenance, log, calls>>

\* The repository behind the pipeline of a supervisor.
Behind(s) == notes[s]

\* The worker of a supervisor goes on, also of one the runtime no longer refers to.
Maintain ==
    /\ \E s \in Environments :
         /\ queue[s] # <<>>
         /\ queue' = [queue EXCEPT ![s] = Tail(@)]
         /\ failed' = IF Head(queue[s]) \in Behind(s) THEN failed
                      ELSE failed \cup {<<s, Head(queue[s])>>}
    /\ UNCHANGED <<settings, current, store, log, calls>>
-----------------------------------------------------------------------------
PhaseStep(c) ==
    \/ SkipPhase(c) \/ LoadState(c) \/ Analyse(c) \/ Reflect(c) \/ AcquireEvidence(c)
    \/ Decide(c) \/ Act(c) \/ Generate(c) \/ IngestDocument(c) \/ ShapeOutput(c)
    \/ CommitState(c) \/ CommitMemory(c) \/ EnqueueMaintenance(c) \/ PhaseFails(c)
    \/ CancelledWithin(c)

Next ==
    \/ \E c \in Calls : Submit(c) \/ Reject(c) \/ PhaseStep(c) \/ Return(c) \/ Abandon(c)
    \/ Reset \/ ResetReplaces \/ Maintain

Spec == Init /\ [][Next]_vars
-----------------------------------------------------------------------------
(* Properties. *)

\* Memory is isolated by a replacing reset, whatever was in flight: a request that arrives
\* after it never cites a note of a request that arrived before it, nor the other way
\* round, although the older executions go on storing, and their worker goes on working.
ResetIsolates ==
    \A c \in Calls : \A n \in calls[c].evidence : calls[n[1]].arrived = calls[c].arrived

\* A supervisor that the runtime owns is never given the event of a note that its
\* pipeline's repository does not hold, which would cost the retries and end as a terminal
\* failure: an execution that a reset overtakes keeps its repository and its queue together.
MaintainedWhereStored == settings.owned => failed = {}

\* The workflow trace of a response is its own execution's: every phase it completed, or
\* nothing once a reset has replaced the workflow whose events it was to be read from.
TraceIsOwn(x, trace, c) ==
    /\ \A t \in trace : t[1] = c
    /\ {t[2] : t \in trace} \in {{}, x.completed}

\* What is reported as executed was planned, and enabled unless the question was bypassed; the
\* details say the same as the lists. EMOTION_CLASSIFIER runs unplanned on the full routes.
ListsAgree(d, bypassed) ==
    LET executed == d.executed \ {"emotion_classifier"}
    IN  /\ executed \subseteq d.planned
        /\ ~bypassed => executed \subseteq d.enabled
        /\ \A k \in DOMAIN d.details \ {"emotion_classifier"} :
             d.details[k] = "executed" <=> k \in d.executed

\* A response tells of its own execution only, and consistently: its trace, the notes it
\* names and the lists of its diagnostics, whatever other calls and resets ran beside it,
\* and whether its execution completed, failed or was cancelled in a controller.
ReportIsOwn ==
    [][\A c \in Calls : calls[c].at = "running" /\ calls'[c].at = "returned" =>
         LET x == Ended(c)
             response == Responded(c)
         IN  /\ TraceIsOwn(x, response.diagnostics.traced, c)
             /\ response.created \subseteq notes[x.environment]
             /\ ListsAgree(response.diagnostics,
                           "EVIDENCE_ACQUISITION" \in x.completed /\ x.retrieval = NoRetrieval)]_vars
=============================================================================
