# PRIMA_next in TLA+

Formal models of PRIMA_next, a cognitive agent runtime in Python: its bounded
maintenance worker and the memory pipeline behind it, the workflow engine with its
correction loop, the values the phases decide with, retrieval and the reasoning
loop, versioned session state, the runtime boundary with its resets, and the
crash-safe benchmark campaigns over a shared model client. TLC model-checks them
on small instances. TLAPS proves, for every value of the constants, the safety
properties of the maintenance supervisor, the state manager, the workflow, the runtime
boundary, the reasoning loop, the artifact store and campaigns, and most of those of
deliberation. `PROJECT.json` lists the components, the runs,
the code lines every definition stands for, the hazards and the theorems.

## The system

A caller submits a `PrimaRequest` to `PrimaRuntime.execute`. The runtime
selects a route (a tuple of phases) from the task and the profile, builds an
`ExecutionContext`, and lets `OrchestrationEngine` walk the phases. A phase is
one controller call; it may raise, be tried again, be skipped, or send the walk
back. At the end state is committed to the state manager, memory notes to the
repository, and maintenance events to the background supervisor, whose worker
runs the maintenance pipeline outside of the request. Benchmarks drive the same
runtime, keep crash-safe artifacts of what they did, and are scheduled as the modes
of a campaign that shares one model client.

| Component | State | Operations | Interacts with | Correct when |
|---|---|---|---|---|
| Maintenance supervisor (`memory/maintenance/background_supervisor.py`) | bounded `asyncio.Queue`, sets of pending, completed and terminal ids, failure rows, the worker task | `enqueue`, `start`, `flush`, `stop`, barriers, the worker loop | requests, the application, the pipeline, the failure store | each accepted event is settled once, nothing is lost, flush is a barrier |
| Workflow engine (`workflow/`, `runtime/route_profiles.py`, `uncertainty/execution_gate.py`) | the route and its index, status, retry counters, correction budgets, results in the context | `execute`, `cancel`, one controller per phase | the state manager, memory, the supervisor, the models, other executions of the session | it ends, reports something fresh, acts on what was judged, leaves what its outcome permits |
| State manager (`state/`) | states in memory, a JSON file, a lock | `load`, `save`, `apply_delta`, `reset` | executions, in one process; the file survives it | an acknowledged save stays, a stale one is refused |
| Runtime boundary (`runtime/prima_runtime.py`) | the objects of one environment: repository, index, supervisor, workflow | `execute`, adapters, `reset`, maintenance calls | everything | a request stays in its environment, a response tells of its own execution |
| Maintenance pipeline (`memory/maintenance/maintenance_pipeline.py`) | the batch of pending events, a short-term buffer | `handle`, `flush` | index, graph and notes, through threads | no update is lost, every memory is maintained or accounted for |
| Memory (`memory/`) | notes, their versions and lineage, the graph | add, update, query, evolve; retrieval strategies | pipeline, evidence acquisition, memory commit | graph and lineage are those of the notes |
| Reasoning controller (`reasoning/`) | the evidence of one question | a bounded loop of retrieval hops | retrieval, the reflection advisor and its memory | evidence is stored, counted once, within budgets; it ends |
| Affect, planning, world, uncertainty, reflection | the affect engine's history and last state, shared by sessions | one computation per phase | the context | a session's mood and decisions come from its own inputs |
| Actions and tools (`action/`, `tools/`) | none across calls | policy, routing, validation, execution with a timeout | planning, the registry | only permitted and successful work is remembered |
| Models (`llm/`) | the client's rate limiter | chat with retries | providers | the rate is kept |
| Benchmark artifacts (`benchmarks/common/`) | manifest, checkpoint, prediction and failure files | append once, reconcile, finalise, resume | benchmark drivers | a case is recorded once, complete means all of them |
| Campaign (`benchmarks/campaign/`) | root manifest, bounded provider with its cache | schedule modes in threads, resume | benchmark drivers | complete is earned, and what is finished is not run again |
| Event bus (`events/`) | the event store and subscribers | `publish`, `subscribe` | workflow and maintenance | |
| Configuration, security, monitoring, evaluation, entry points | none that outlives a call | | | |

What is hard here: tasks of one event loop that overlap between awaits (requests,
the worker, several control tasks), cancellation that arrives at any await, a
queue at its limit, handlers and phases that are tried again, a route that
rewrites itself under several budgets, threads that share versioned state, notes or a
provider, writes that a failure or a restart cuts in two, objects that a reset
replaces under running requests, and scores whose thresholds decide which of all
this happens. The hazards of `PROJECT.json` name each at its line.

## Modules

| Module | Models |
|---|---|
| `MaintenanceSupervisor` | the supervisor, action by action |
| `MaintenanceContract` | abstract: each event is accepted or refused once, settled at most once, and every failure leaves one row |
| `MaintenanceSupervisorProofs` | theorems about the supervisor |
| `Routes` | the ten routes; used by `Workflow` and `RuntimeReport` |
| `Workflow` | one execution: engine, correction loop, gate, controllers |
| `ExecutionContract` | abstract: what an execution may leave behind, and in which order |
| `WorkflowProofs` | theorems about `Workflow` |
| `Scores` | the arithmetic of scores: integers over 1000 |
| `Affect`, `Planning`, `World`, `Uncertainty`, `ActionTools`, `MemoryImportance`, `Reflection` | the pure computations of the phases, as functions |
| `Deliberation` | composes them: the turns of several sessions through one runtime |
| `DeliberationProofs` | theorems about `Deliberation` |
| `Retrieval` | one query over the notes: analysis, strategies, fusion, reranking, confidence |
| `Reasoning` | the hop loop over `Retrieval` and `Reflection` |
| `ReasoningProofs` | theorems about `Reasoning` and the searches in it |
| `StateManager` | `JsonStateManager` with threads, failing writes and restarts |
| `VersionedState` | abstract: states only grow, one version for each update |
| `MemoryMaintenance` | a benchmark conversation: driver, worker, pipeline, notes, graph |
| `StoreProofs` | theorems about `StateManager` and about `MemoryMaintenance` |
| `RuntimeReport` | the response of an execution, as a function of it |
| `Runtime` | callers, environments, resets, the workers behind them; uses `RuntimeReport` |
| `RuntimeProofs` | theorems about `Runtime` |
| `ArtifactStore` | one benchmark's directory and the driver that fills it, over several killed runs |
| `CaseLog` | abstract: one outcome for each selected case, for good; complete only when all have one |
| `ArtifactStoreProofs` | theorems about `ArtifactStore` |
| `ProviderSession` | the model client of a campaign: chat, retries, rate limiter, permits, cache |
| `Campaign` | the modes of a campaign over `ProviderSession`, with kills and resumes |
| `CampaignProofs` | theorems about `Campaign` and the session in it |
| `MC...` | definitions for TLC: symmetry sets, sets of requests, notes, texts and tools |

### MaintenanceSupervisor

A step is what one asyncio task does between two suspension points. `queue` and
`unfinished` are the content and the counter of `self._queue`; `completed`,
`terminal`, `pending` are the three id sets; `task[w]` says where each worker
task is suspended and `holding[w]` the event in its handler. `pc[c]` is where
a control task is suspended: in `queue.join()` ("joining"), past it ("joined"),
in the await of the cancelled worker ("awaiting"), or on a queue that has been
replaced ("stranded").

- `EnqueueAccepted`, `EnqueueRejected` are `enqueue`; a duplicate changes nothing
  but a counter.
- `WorkerStarts`, `WorkerWakes`, `HandlerReturns`, `HandlerRaisesRetried`,
  `HandlerRaisesTerminal` are `_run` and `_handle`. As in the code, an event is
  settled, marked done and the next one taken without a suspension
  (`NextRound`). `task_done` on a counter at zero raises and ends the worker.
- `CancelIdleWorker`, `CancelHandlerRequeued`, `CancelHandlerQueueFull` are the
  delivery of `CancelledError`.
- `Start`, `Flush`, `FlushReturns`, `StopFlushRaises`, `StopWithoutWorker`,
  `StopCancels`, `StopReturns`, `StopRaises` are the calls of control tasks;
  `Rebind` is `_rebind_queue`, with the case in which its own `task_done` raises
  halfway.

A worker that waits on a replaced queue never wakes, for nothing is put into
that queue any more: this is why no copy of an old queue is kept. The
supervisor is enabled; a disabled one returns at once from every call. Its
counters, which only `diagnostics()` reads, are left out. The failure store is
assumed not to raise (in production it appends to a file, see the hazards).

### Workflow

A step is a phase start, a phase result or an exception. `todo` is what is left
of the engine's list of phases; the gate and the correction loop splice phases in
front of it, as `phases[index:index] = ...` does. `spent` holds the five counters
the budgets limit, `signatures` the accepted advice, `query` the override of the
retrieval query. Results are reduced to what the control flow tells apart:
a generation is answered, uncited, abstained or failed; an action is a success,
a no-op, failed or blocked; whether evidence was found is a Boolean. The gate's
decision and the advisor's proposal are free choices, within what the code lets
them be. Comparisons of scores with thresholds are behind these choices; a
rejection for low confidence or for leakage is `CarryOn`.

`effects` collects what an execution has left behind (a document, notes, state,
maintenance), and `fresh` is a history variable: which of judgement, action and
answer were produced since the latest evidence or plan. The memory commit has two
steps because it makes two repository calls, the second of which may raise.
`OtherCommits` is another execution of the same session, so that a version
conflict can meet the state commit. `RequestCancel` is cooperative cancellation,
`TaskCancelled` a `CancelledError` raised inside a controller that suspends.

### StateManager

Clients are threads. `SaveAccepted`, `WriteTemporary` and `Replace` are one
`save` under the lock, cut where a failure (`WriteFails`) or the end of the
process (`Restart`) can fall; `reset` takes the lock for memory only and
rewrites the file without it, as in the code. A state is its version and
the set of updates that went into it: an update is in the state a client saves
if it was in the state this client had loaded. `dirty` is a history variable: some
client has loaded a state that the file does not hold, which a failed write leaves
in memory. Several processes on one file are outside the code's claim (its comment
says the lock is process-local) and the model.

### ArtifactStore

The variables of `disk` are the five files; `process` is what a kill forgets.
`Open` and `Resume` write the first manifest, `ReconcilePredictions` and
`ReconcileFailures` are the two rewrites of `reconcile()`, and the driver's
threads then `Take` cases and append a checkpoint row, a prediction row and a
failure row, each append with the strict read the code puts before it.
`WriteSummary` and `WriteLastManifest` are `finalize()`. `Crash` ends the
process between any two of these. `CrashTears` ends it inside an append, in one of two
ways: the file keeps part of a row, which makes it unreadable, as `read_jsonl` has it, or
it keeps the whole row without its newline, which `read_jsonl` reads like any other. `tail`
says what became of the checkpoints' last line: "whole", "cut" when its newline is missing,
and "glued" once a later append has put a second row on it, which no reader gets past
(`CanRead`). Mirrors lose nothing that way, for reconciliation rewrites them before the
next append. JSON files are replaced whole (`atomic_write_json`).

A row is its case and its outcome: complete, failed, or flagged (complete with an
evaluation failure, the one outcome with both mirror rows). `driver` tells what
happens to an exception in a case: GoEmotions records the case as failed,
LoCoMo lets the run end; HotpotQA is LoCoMo's with one appending thread. `splitting`
are the cases whose text holds a character at which `str.splitlines()` breaks a
line. An append that raises is assumed to leave no row; the identifiers in a
file are then always its index, and the model keeps no other copy. A selection is
part of the configuration, and a fingerprint is equal exactly when the
configuration is.

### ProviderSession and Campaign

`ProviderSession` is the one client the threads of a campaign share. A call waits for
the token bucket (`Granted`, `Limited`), then for a permit; under the permit it
looks the prompt up in the cache (`CacheHit`) or sends it (`Send`, `SendReturns`,
`SendFails`), and a failure leads to a retry or out. The lookup and the storing of an
answer are steps of their own, so that threads can come between them when there is
more than one permit. A response that `validate_output` refuses has already
been cached, as in the code. Time counts ticks from the construction of the client.

`Campaign` adds preflight, the root manifest with its exact resume, both schedulers,
`run_one` for each mode (open the child, ask each pending case, complete it, record
it), the paired comparisons, the aggregate and the final status. A kill may fall
between any two steps, a signal cancels, and a benchmark may raise, under both
failure policies; `MaxFaults` bounds them together. The record "complete" and the end of the
try in `run_one` are two steps (`Recorded`, `Leaves`): a signal in between is
caught by the handler, which records the mode "partial" over it (`Cancel`). A mode's benchmark is its child
manifest with its case log, which `ArtifactStore` has in detail.

### MemoryMaintenance

The driver is LoCoMo's conversation loop: it starts the supervisor, ingests the turns,
asks the questions, applies the barriers of one of four maintenance modes, and
stops. The worker runs `handle` step by step with the threads it waits for: read the
note, embed, write, score, write, and, when the batch is full, consolidate the
repository and evolve abstractions. Each write is of the note that was read
before the wait. Notes carry version, lineage, generation and the number of decays;
nodes and edges are the graph of the index. The queue and the retries are
those of `MaintenanceSupervisor`, reduced to what a handler sees: a queue of `Capacity`
events refuses one more and records its failure (`Enqueue`). A request may fail before it
admits anything (`RequestFails`), between the store of its note and its links in the graph,
or before its event is queued (`CommitFails`). Four variables keep apart what became of
memories that nobody will maintain: `failures` are those of the failure store,
`unqueued` those whose request failed before the queue, `lost` the siblings of a batch whose
engine raised, of which the code keeps no record, and `unlinked` those whose
own indexing failed, until a consolidation writes them again. `Settled` says what is then owed to
a memory. `MaxFaults` bounds engine calls that raise and requests that fail.

### Retrieval, Reflection and Reasoning

`Retrieval` is a function of the query and the notes in three stages: `Gathered`
(analysis, expansion, and dense, sparse, temporal and graph search), `Scored` (fusion,
semantic boost, reranking) and `Ranked` (cut and confidence). `Reasoning` runs a
question through hops of it: each hop adds evidence, verifies sufficiency, makes
an information need and asks the stopping policy; advice from `Reflection` may overrule
a stop, and a reflection may be stored as a note in the index that is being searched.
Time may run out before any hop. The three stages of one search are three
steps, each computed once from the result of the one before. Dense, sparse and temporal
search see the notes that the request's filter leaves, without procedures; the graph
strategy, which `prima_full` alone selects, takes neighbours from the whole repository, so
that there a procedure may be cited (`EvidenceIsOwn` says so).

### Deliberation

`Affect`, `Planning`, `World`, `Uncertainty`, `Reflection`, `ActionTools` and
`MemoryImportance` translate what the phases compute, in integer thousandths
rounded down; the logistic of the calibration is a table. `Deliberation` runs turns
of several sessions through them in the order of the routes: the engine's history
and last state are shared, the emotional section is each session's own, and the gate,
the correction budget, the tools and the admission of memories act on the computed
values. An acquisition may find notes, find nothing, or leave no retrieval response at
all, as when the first retrieval raises (`Responded`); then the gate has no retrieval signal
and takes 0.0 for its uncertainty. `own` is a history variable: the mood a session would have
if it had a classifier and nothing else. Turns follow one another; the histories an interleaving
would leave behind are among the initial ones.

### RuntimeReport and Runtime

An environment is a number: repository, index, workflow and supervisor that a
constructor or a replacing reset built together. A call keeps the environment it
arrived in; `ResetReplaces` makes the next one current, while the worker of the
old one goes on (`Maintain`). `RuntimeReport` computes the response: outcome,
trace, component lists and details. A step is one phase of one call, with the
results that the response tells apart; retries and corrections are those of
`Workflow`, and at most `MaxLost` executions fail or are cancelled. A cancellation that
reaches a controller while it waits for the model or a tool becomes a cancelled context,
of which the runtime still makes a response (`CancelledWithin`); anywhere else it leaves
`execute` without one (`Abandon`).

## Runs

| Run | Question | Result |
|---|---|---|
| `supervisor_one_controller` | one control task beside concurrent requests: is accepted work ever lost (`WorkAccounted`), is flush a barrier (`FlushBarrier`), does every call return (`CallsReturn`)? | holds |
| `supervisor_overlap` | three control tasks overlap: is an event ever handled twice, or after its outcome (`NoRework`)? Is the contract kept (`KeepsContract`), within the limits (`TypeOK`)? | holds |
| `workflow_routes` | all ten routes, any advice, a gate that asks for more retries than it is granted: does an execution end (`Terminates`), with something to report (`OutputHasResult`), leaving only what its outcome permits (`KeepsContract`)? Is the reported answer newer than the evidence and the plan (`ReportedResultIsFresh`), the plan acted on a judged one (`ActsOnJudgedPlan`)? | holds |
| `state_sharing` | two threads, two sessions, failing writes, restarts, a reset: while nobody has reset or loaded an unsaved state, is an acknowledged save durable (`AcknowledgedIsDurable`), and does the file only grow (`KeepsContract`)? | holds |
| `state_failed_write` | does an acknowledged save stay, without any reset, after a write has failed (`StaleWriteRefused`)? | violated |
| `artifact_resume` | three runs on one directory, two of them killed anywhere, rows torn anywhere, a failing append: is a case ever recorded twice (`CaseOnce`) or changed, or a campaign complete without all its cases (`KeepsContract`)? Do mirrors and summary agree with the checkpoints (`MirrorsMatch`, `SummaryIsOwn`)? Does a run that finds whole rows and is left alone complete the campaign (`ResumeCompletes`)? | holds |
| `artifact_append` | two runs, one killed: does a run that read the checkpoints append a line they can be read with again (`RowsAreLines`)? | violated |
| `campaign_shared_provider` | two modes over one provider, with faults: is complete earned (`CompleteIsEarned`), is what is finished kept, but for a signal inside the try (`FinishedModesKept`), is a prompt answered once (`AnsweredOnce`) and the rate kept (`GrantsWithinRate`), does a sequential campaign that is resumed end (`ResumeCompletes`)? | holds |
| `memory_conversation` | a turn and two questions, the first of which may fail before or after its memory is stored, in four maintenance modes with failing requests, handlers and engines and a queue for one event: is an update lost (`NoUpdateLost`), do lineage and graph stay those of the notes (`LineageClosed`, `GraphDerived`), does a question find maintenance at rest (`QuestionAtRest`), is every memory settled in the end (`EveryMemoryMaintained`)? | holds |
| `reasoning_hops` | five questions over seven notes: is the evidence the repository's (`EvidenceIsOwn`), does the loop keep its budgets and repeat no query (`LoopWithinBudget`), does it end (`QuestionEnds`)? | holds |
| `deliberation` | two turns of three sessions: do moods leak between sessions (`MoodIsOwn`)? Is an empty retrieval response acted on (`NothingFoundIsRetried`)? What may deny a plan (`DenialIsFromConstraints`), is a revision kept (`ReplanIsKept`), is an unverified procedure stored (`ProcedureIsVerified`), is a repetition (`RepeatNeedsRecurrence`)? | holds |
| `runtime_boundary` | two callers, a worker and a replacing reset: is memory isolated (`ResetIsolates`), is what is stored maintained in its own environment (`MaintainedWhereStored`), does a response, of a cancelled execution too, tell of its own execution (`ReportIsOwn`)? | holds |

Two runs are disagreements. In `state_failed_write` fifteen steps lead to
an acknowledged update that is gone. One client's write fails and leaves its state,
with the next version, in memory; a second client loads it; a third save takes the
same version from the file and is acknowledged; the second client's save compares
equal and replaces it. `dirty` is exactly the condition under which this can
start, and `AcknowledgedSaves` proves that nothing else can bring it about but a reset.

In `artifact_append` the first run is killed when a checkpoint row has reached the file and
its newline has not. The second run reads the row, counts the case as done, and appends its
own first row to the same line. `append_jsonl` documents a "single-line JSON record"; from here
on every reading of the checkpoints raises, so that the run cannot finalize and no later one
can begin. `tail = "whole"` in `ResumeCompletes` is exactly what excludes this.

What `Settled` owes to a memory is less than that it is maintained. The supervisor records the
failure of an event that it refused or gave up; of a request that failed between its
note and the queue the caller sees the failure; but when an engine raises over a batch, only
the event in the worker's hand is retried or recorded. Its siblings are encoded and scored,
may never be consolidated, and nothing says so (`lost`). `QuestionAtRest` and
`EveryMemoryMaintained` excuse them, because the code does.

### Where the code and its documents differ

The models show these too; the properties above are stated so that they are true of the
code, and the notes of the hazards say where they stop.

1. `flush()` promises to wait "until all work queued before the barrier is
   complete". A `stop(graceful=False)` of another task moves the queue to a
   fresh one and marks every item done on the old: the flush returns with the
   work still queued. (The old worker may later mark an event done on the new
   queue; in behaviours of this kind a flush can also wait for ever.) `FlushBarrier`
   and `CallsReturn` are therefore claimed for a single control task.
2. `stop()` promises that "cancellation preserves current work", but the event
   becomes a failure row when the queue has been refilled during its handler.
3. The correction budget is documented as a hard limit; the gate counts only its
   own retries, so a correction and then a gate retry acquire evidence twice.
4. The architecture decision record says that failed or cancelled responses do
   not commit state; phases after the commit can still fail.
5. Versions restart after a reset, so a stale version may compare equal. This is why
   `Undisturbed` excludes resets.
6. An artifact row is documented as a single line. A text with U+2028, U+2029 or
   U+0085 is written on one line and read as two, and the campaign can neither go
   on nor be resumed (`splitting`, which `ResumeCompletes` excludes).
7. The runbook promises that a campaign is resumed by the identical command. An
   interleaved one in which every mode is complete asks for a pool of zero workers
   and raises (`PoolRefused`): it can never be finalised.
8. The component lists: EMOTION_CLASSIFIER is reported as executed on routes
   that do not plan it, and a bypassed question reports components as executed that
   are disabled (`ListsAgree` makes both exceptions).
9. Retrieval leaves procedures out of every request but a tool's. The neighbours
   that the graph strategy adds are not asked for their type, and under `prima_full` a
   procedure is cited as evidence.

Some behaviours that no document speaks of, and that a reader may want to know: a
cached answer still costs a token of the rate limiter; a reset while a call is
running leaves its response with an empty trace or only the events of one
environment; the affect engine's history survives every reset; a plan's
predicted risk reaches the gate's denial threshold only with constraints the session
states itself (`DenialIsFromConstraints`); `max_tool_invocations` limits one
execution of an action, and a retried action starts again at zero; a session's emotional
volatility and stability are computed from the history that all sessions share; an
acquisition that leaves no retrieval response is not retried by the gate; a signal
that comes between the record of a complete mode and the end of its try takes the record
back, and the next resume opens the finished mode once more.

### Bounds

- Supervisor, one controller: four events, a queue of two, one retry. Two events
  fill the queue, a third is in the handler, and the fourth is refused or
  fills the slot a cancelled event needs: every relation between queue, handler
  and limit occurs. One worker identity suffices since a new one is only created
  when the old task has ended.
- Supervisor, overlap: three control tasks and three worker tasks, so that a
  flush, a stop and a start of a third lifecycle coexist, with two events, a queue
  of one and no retry (retries are in the other run). Identities are
  interchangeable, and no liveness is checked there, so symmetry is sound.
- Workflow: every route, with one phase retry, one retrieval correction, one replan, one
  intervention and two generations, which are the defaults of the code, and a gate that may
  ask for two retries instead of one, so that it also asks for one that the engine does not
  grant. The advice of the intervention is any; the theorems cover budgets of every
  size. Three queries: the user's, the one output validation derives, and one from the
  advisor. `MaxVersion` bounds the commits of other executions: one is
  enough for a conflict, and it meets each attempt of the commit phase.
- State: four accepted saves (`MaxUpdates`) by two clients on two sessions, any number
  of refused ones and of restarts; one reset (`MaxResets`). Four is what the shortest
  loss needs: one save whose write fails, one that is acknowledged, one that
  overwrites it, and one to be carried along. With three, the loss without a reset is
  out of reach. Clients and sessions are interchangeable and no liveness is
  checked, so symmetry is sound.
- Artifacts: three processes on one directory, so that a resume meets what a resumed
  run left; two threads and three cases, so that rows of two cases interleave
  while a third is pending; one failing append, which reaches every file and both
  drivers; a configuration that selects one case beside one that selects three, so that
  a wrong resume would be seen. `MaxStarts` also bounds kills: the last process is not
  killed, so that its end can be asked for. Torn rows need no bound of their own:
  each costs a process. `artifact_append` needs one kill, one thread and no error.
- Campaign: two modes that ask one prompt alike, one permit (the configured value for
  every local provider), one retry, a bucket of two tokens over two ticks, and one
  fault, which is a kill, a signal or a benchmark that raises, at any step.
- Memory: a turn and two questions over one stored note, a batch of two (so that the
  first question fills it and the second is left to a flush), one retry, two
  faults, a queue for one event (so that a second is refused while the worker has not
  taken the first), and two abstractions, so that an abstraction of an abstraction
  occurs. Two questions, because one that stored its memory and then failed can only be
  met by a later one.
- Reasoning: seven notes with a chain of two facts, a passage stored twice, a
  contradiction, a procedure and two reflections; four hops, three calls, a context of seven
  words, one intervention. Questions stop as sufficient, contradictory, ambiguous or
  unanswerable, by an error, for time, calls, context or no new evidence; none stops for
  `max_hops`, since each hop is a call and calls are used up first, or for `duplicate_query`,
  since no need that these notes raise repeats a query.
- Deliberation: two turns, so that the first leaves a history, a memory and a
  committed state to the second; three sessions of different confidence and
  constraints; texts, evidence and tools that put the gate on each side of its
  thresholds; longer pasts are among the initial histories and memories.
- Runtime: two callers, one replacing reset, one lost execution (failed, cancelled in a
  controller, or abandoned), a queue of one, so that an exchange of two notes overflows it.
  No caller of the instance asks for a tool; the theorem covers that route too. Four settings of storage and ownership, of which
  the constructor admits three.

Deadlock is not checked in `supervisor_overlap`, where stranded tasks may really leave
every task suspended, nor where executions, campaigns, questions and
conversations end for good (workflow, artifact, campaign, memory, reasoning and
runtime runs). It is checked in the others.

### Fairness

`supervisor_one_controller` assumes weak fairness of each worker task and of each
control task once it is resumed: the event loop runs every ready task, and a
handler ends or raises. No fairness is assumed of callers: nobody has to start,
flush or enqueue. `workflow_routes` assumes weak fairness of the engine: it is one
task that the loop resumes, and every controller returns or raises (the code
gives its phases no deadline; a model call that never returns would block the
execution). Cancellation and other executions are unfair. `artifact_resume` assumes
weak fairness of the driver and of each of its threads: a process that is not
killed runs on, and a case ends with an outcome. Nobody has to start or resume a run,
and no append has to fail or be torn. `campaign_shared_provider` assumes the threads and the
campaign's own steps fair, and an operator who runs the resume while there is no
process, which is what the runbook asks for; faults are not fair. `memory_conversation` assumes
the event loop runs worker and driver and that a thread ends. `reasoning_hops`
assumes only that the loop goes on; that time runs out is never assumed.

## Proofs

Eight modules of proofs, for every set of callers, clients, events, controllers, modes,
cases, notes and sessions, and every value of the limits that the named assumptions of the
modules permit.

`MaintenanceSupervisorProofs` (`ConstantsAssumption`: a queue size above zero, a
natural number of retries, an identity that is no worker's) states:

- `TypeCorrect`: `Spec => []TypeOK`. `TypeOK` is inductive. It carries two bounds:
  the queue never exceeds `max_queue_size`, although cancellation puts
  events back and a stop moves them, and no handler is tried more than
  `max_retries + 1` times.
- `NeverReworked`: `Spec => []NoRework`. That no event is queued or handled twice is
  not inductive by itself: the step that would break it is an enqueue of an event
  that is still queued or in a handler. `NoRework` therefore also says that whatever
  is queued or handled is pending, that nothing pending is settled, and that the two
  settled sets are disjoint; `Known` then refuses the duplicate. The proof
  has one lemma for each thing that moves events (`FetchNextPlaced`, `EndPlaced`,
  `AppendPlaced`, `RebindPlaced`), the last for the rebinding, including the one
  that fails halfway and leaves a suffix of the queue.
- `Implements`: `Spec => KeepsContract`, a refinement of `MaintenanceContract` under
  the mapping that reads each event's status from the id sets and the log from
  the failure rows. It rests on `NoRework`: only an event that is pending and not
  settled can be in a handler, so its settlement is a step from "accepted".

The lemmas `TailFacts` and `SuffixFacts` say element by element what a queue
operation leaves behind.

Two more hold when there is one control task, which is their hypothesis (`OneController`;
with several they are false, see difference 1 above):

- `LosesNoWork`: `OneController => (Spec => []WorkAccounted)`, and
- `FlushIsBarrier`: `OneController => (Spec => []FlushBarrier)`. Both follow from `OneInv`:
  at most one worker task has not ended, and it is the supervisor's own unless the
  control task is waiting for the one it cancelled (`Alone`); the unfinished count is the
  length of the queue plus the number of events in handlers, which is at most one then
  (`WorkAccounted`); what a flush waits for is pending or settled (`BarrierKnown`).
  A `join` that returns has therefore seen a count of zero, which leaves nothing of the barrier
  in the queue or in a handler.

`StoreProofs` has two parts. Of the state manager (`ConstantsAssumption`: the bounds are
natural numbers, `None` is no client) it states:

- `TypeCorrect`: `Spec => []TypeOK`, with the shape of a client's place: who holds the
  lock is in the middle of a save of its own.
- `AcknowledgedSaves`: `Spec => []AcknowledgedIsDurable`. The claim is not inductive:
  that the version check refuses a stale state is a fact about numbers, and the claim is
  one about sets of updates. `IInv` connects them: `VersionsCount`, which holds
  always, says that a version is the number of updates in its state, wherever
  the state is held; `Quiet`, which holds while nobody has reset or loaded an unsaved
  state, says that memory contains what the file contains and that what a client has
  loaded is part of what the file holds of its session. A subset of equal
  size is the whole set (`SameVersionSameUpdates`), so a save that passes the check was
  made from the very state it replaces. TLC has checked `IInv` on the instance of
  `state_sharing`.
- `Commits`: `Spec => KeepsContract`, the refinement of `VersionedState`: the renaming of
  the temporary file adds updates to the sessions, keeps the ones there, and
  counts each in the version. What a failed write left behind goes in with the
  next commit; this is why a commit may add several.

And of `MemoryMaintenance` (`MemoryAssumption`: each turn and each question is stored under an
id of its own, which no stored note and no abstraction has; the batch is positive), for all
conversations, contents of the repository, batches, retries and faults:

- `MemoryTypes`: `MemorySpec => [](MemoryTypeOK /\ Placed)`: worker and driver have the memory
  they work on, and it is in the repository.
- `NothingOverwritten`: `MemorySpec => NoUpdateLost`. What is written was read before the thread
  that the writer waited for, so the step alone does not give it. `Copies` says that what
  was read is still what is there; it stays so because one task at a time runs the engines
  and the driver's runs only while the worker rests (`Exclusive`), and because no request
  stores over a note (`Fresh`).
- `Lineages`: `MemorySpec => []LineageClosed`. Ancestors are computed once, from those of the
  parents. `LineagesInv` says of each note that parents and ancestors together are the
  least set with the parents in it that is closed under them, and that its origins are those
  of them that are no abstractions. There are no cycles since a parent has an earlier
  generation, and the number of an abstraction is new (`Numbered`, `Generations`).
- `GraphOfNotes`: `MemorySpec => []GraphDerived`, which lets a note lack links only when its
  own indexing failed and no consolidation has written it since. The index links a note to the nodes
  that are there, so a link is missing only while one of the two is not in the index:
  `Linked` and `Noded` leave out the note between its store and its index, and
  `WordsKept` says that a relation once true remains so.
- `QuestionsAtRest`: `MemorySpec => []QuestionAtRest`: nothing waits, and each memory is
  encoded, scored and consolidated, or its failure was recorded, or its request
  failed before the queue, or it is encoded and scored and its batch was lost. `Accounted`
  says of every admitted memory that somebody still owes it its maintenance, has done it, or
  that it is one of these exceptions (`Owed`); `Rested` that after its barrier and until
  its answer a question has worker, queue and batch at rest, where only settled memories
  are left. Which requests stand at which place of the driver's program are
  lemmas about `Program` (`ProgramShape`, `ProgramFresh`, `BeforeQuestion`).

TLC has checked every part of `MemoryInv` on the instance of `memory_conversation`.

`RuntimeProofs` (`RuntimeAssumption`: requests and settings have the documented values, the
queue holds at least one event, the other bounds are natural numbers) states:

- `Isolates`: `Spec => []ResetIsolates`. The claim compares two calls and says
  nothing of repositories, so it is not inductive. `IInv` goes through them: a running
  call keeps the environment it arrived in (`Bound`), the notes of an environment
  were stored by calls that arrived while it was current (`Owned`), and what a call
  cites is in the repository of its arrival (`Cited`).
- `MaintainedThere`: `Spec => []MaintainedWhereStored`. Whatever waits in an owned
  supervisor's queue is in the repository built with it (`Waiting`). An enqueue keeps
  this because what a call reports as stored is in its own environment (`Stored`), and it is a
  finite set, so the events that fit can be put in an order.
- `ReportsOwn`: `Spec => ReportIsOwn`. The response is computed at the end from what the
  call has gathered, so the invariant says at each moment what has been gathered so far:
  `Told` ties the completed phases of a running call, what is still to do on its route, and
  the events logged under it in its environment. That the lists of components then agree
  is a lemma about the routes (`Covers`): every route plans the components its phases run.
  TLC has checked `Told` on the instance of `runtime_boundary`.

The phases have one common lemma: each is a `Step` of its call, which adds notes in one
environment only and leaves call, place and arrival alone; `StepKeeps` then preserves
`IInv` once for all of them. TLC has checked `IInv` on the instance of `runtime_boundary`.

`CampaignProofs` (`SessionAssumption`, `CampaignAssumption`: finitely many threads, limits
that are positive where the configuration requires it, and a `None` that is no prompt, text or
manifest) has two parts. What a step of a campaign does to the session is a `SessionMove`
(`CampaignMoves`), and then:

- `RateKept`: `Spec => []GrantsWithinRate`. The grants alone are not inductive: `Metered` says
  that what was granted and what is left came in by the last refill, and
  `RefillMeters` that a refill adds no more tokens than intervals have passed since.
- `OneAnswer`: `Spec => []AnsweredOnce`. `Alone` adds what the permit is for: one
  request on its way at a time, for a prompt that nobody has cached.

And of the manifests, with `ManifestInv`:

- `Earned`: `Spec => []CompleteIsEarned`. `Opened` says that a child is marked partial
  before it is worked on and complete only with every case in its log; `Settled` that a
  mode recorded complete is not under way; `Told` that a campaign is complete only between
  processes, so that no mode can change under the status.
- `FinishedStays`: `Spec => FinishedModesKept`, from `Settled`: whoever writes a record or a
  child is under way, and of those a mode recorded complete can only be at the end of its try,
  where a signal records it partial and nothing touches its child.

`ArtifactStoreProofs` (`ConstantsAssumption`; `NoneAssumption`: `None` is no job, manifest,
outcome or selection) states:

- `TypeCorrect`: `Spec => []TypeOK`.
- `OneRowEach`: `Spec => []CaseOnce`. That a file has one row for each case is kept by the look
  at its index, except where files are rewritten: a mirror is a selection of the rows of the
  checkpoints. `Mirror` is a recursive function on the file's length, and `MirrorRows`
  proves by induction that it has the matching rows and no others, and each once when the
  file has.
- `MirrorsFollow`: `Spec => []MirrorsMatch`. `Derived` says that a mirror has no row the
  checkpoints do not have, `Followed` that a row which a mirror still lacks is on its way in
  a thread, as long as no append has failed and the checkpoints can be read; a torn row
  among them keeps the campaign from completing at all, and one in a mirror stays no longer
  than until the next reconciliation.
- `SummaryAddsUp`: `Spec => []SummaryIsOwn`. `Settled` holds from the summary to the next
  opening; the counts add up because outcomes are complete, flagged or failed, and each case
  has one row, which turns the length of a file into a cardinality.
- `Keeps`: `Spec => KeepsContract`, the refinement of `CaseLog`: an appended checkpoint is the
  log's one new entry, a crash, a torn row and a reconciliation are stutters, and
  the last manifest is the step to complete.

`WorkflowProofs` (`ConstantsAssumption`: the requests have routes, the advice is among the
actions there are, the two queries the code derives are queries and the budgets are natural
numbers) states:

- `TypeCorrect`: `Spec => []TypeOK`: no counter passes its budget, whatever is spliced in.
- `ActsWhenJudged`: `Spec => []ActsOnJudgedPlan`,
- `ShapesSomething`: `Spec => []OutputHasResult`, and
- `ReportsFreshResult`: `Spec => []ReportedResultIsFresh`. All three are about the list of
  phases that is left, and corrections splice phases into it again and again, so there is no
  finite set of lists to go through. `FlowsOn` is what holds of every list: it is a
  `Flow`, in which each acting phase has a judgement before it and no evidence or plan that
  undoes it in between (`Judged`), whatever is reworked leads on to the phase that
  produces the final result (`Leads`), nothing is reworked once the execution acts
  (`Calm`), and the closing phases come once and in their order (`Ranked`). A `Flow` is stated position by
  position; the lemmas carry it over to a list with one more phase in front, and
  so to each of the splices. `ResultComes` says that as long as the output is ahead, what it is
  shaped from is ahead as well or there already; `ResultOfRoute`
  which results an execution of a route can have at all.
- `Implements`: `Spec => KeepsContract`, the refinement of `ExecutionContract`, from
  `CommitsInOrder` (the outcome is shaped before state is committed, and each once) and
  `NotesAreKept`.

TLC has checked `IInv` on the instance of `workflow_routes`.

`ReasoningProofs` (`NotesAssumption`, `LexiconAssumption`, `LimitAssumption`, `BudgetAssumption`,
`QueryAssumption`: notes are made of words of the lexicon, sets of words are finite,
limits are positive, there are enough reflection notes for the interventions, and a
similarity is between -1 and 1) states:

- `Budgeted`: `Spec => []LoopWithinBudget`. The checks of the stopping policy come before a
  hop and the counting after it, so `Budgets` says at each place of the loop what has been
  checked there; that no query is repeated needs `Leads`, which queries a number of
  interventions can lead to, since an advised query is the last one with words appended.
- `Cites`: `Spec => []EvidenceIsOwn`, with procedures under `prima_full` alone. `Stages` says of each stage of the search what it
  may return: the results of the strategies, of fusion, reranking and the cut are among the
  notes that are open to the query, those of the graph among the stored ones; this takes a lemma for each stage of `Retrieval`
  (`DenseIs` to `CutIs`) and the facts about sums over finite sets that they need. `Cited`
  carries it into the evidence, with its limit and its freedom from copies; `Answering` ties the status to what was verified.

TLC has checked `IInv` on the instance of `reasoning_hops`.

`DeliberationProofs` (`RequestsAssumption`: a request comes from a session there is, with
a list of tools and a finite text; `FoundsAssumption`: what the confidence estimator says of
a retrieval without results, and that its scores are numbers; `SettledAssumption`: so are
the confidences of a loaded state; `AffectAssumption`: pleasure, arousal and dominance are
between -1 and 1, as `PADState` clamps them, in the engine's history and in a profile, whose
scores are between 0 and 1; `MemoriesAssumption`: notes and answers are finite sets of
tokens) states, for all sessions, requests and evidence:

- `KeepsMoods`: `Spec => []MoodIsOwn`, of pleasure, arousal, dominance and momentum. The
  engine's history and last state are shared (volatility and stability do come from that
  history, and nothing is claimed of them), so `Moods` follows the emotional section alone: what it was loaded from and, from
  the affect phase on, that it is what this session's own past and classification make it.
- `RetriesNothing`: `Spec => []NothingFoundIsRetried`, of acquisitions that left a response
  without results; the code does not retry one without a response. The gate reads an estimate; `Evidence`
  says that its retrieval part is the calibrated uncertainty of what was found (`Gap`), and
  `GapOfNothing` computes that of nothing: 715, where the gate retries from 700.
- `KeepsRevision`: `Spec => []ReplanIsKept`, from `Plans`: a revision is asked for at most once,
  and the plan that then stands is the revised one or about to be.
- `StoresVerified`: `Spec => []ProcedureIsVerified`, from `Executions`: each step that is a
  success was permitted by the policy and is its handler's own, and an execution is a success
  only if all its steps are.
- `DeniesForConstraints`: `Spec => []DenialIsFromConstraints`. The gate denies from a risk of
  0.75, so `Risks` keeps the predicted risk of a session without constraints below it. A
  plan has five to seven actions (`ActionsFit`); an action's risk is at most its
  rule's, 0.2 for confidence, 0.25 for the number of constraints and 0.25 for a tool, and
  the larger of that and what its constraints add (`ActionRiskIs`); no fixed constraint adds
  more than 0.384 (`ContributionIs`), whatever the confidences are. `SumBounded` adds the
  actions up and `AggregateIs` takes the mean. It holds because no plan consists of
  the risky actions only: `Fit` says how much the rules of a plan sum up to.
  `Numbers` is needed with it: a turn's emotions, salience and dissonance stay in their
  ranges through every decay, merge and mean of the engine (`DecayIs` to `ProcessIs`).
- `RepeatsOnRecurrence`: `Spec => RepeatNeedsRecurrence`. A repeated text has no novelty
  (`Notes`: the memory is a list of finite sets), one mention counts for a fifth of the
  recurrence (`RecurrenceIs`), and the other parts of the importance, at their most, then
  stay under the threshold of admission.

The first four rest on one idea: whatever was retried or corrected, the phases left are the
end of a route (`Rest`), so the phase at the head tells which phases have run before it. The
last two are arithmetic: the folds of `World` and `Affect` are linked to the sums of finite
sets (`Sums`, `Summing`), whose bounds are proved by induction over their subsets
(`SizeInduction`). TLC has checked `IInv`, `Numbers`, `Notes` and what `Risks` says of confidences, marks and
risks on the instance of `deliberation`.

Every invariant and every action property that the runs check is proved, but for
`StaleWriteRefused` and `RowsAreLines`, which are violated. Only model-checked is liveness (`CallsReturn`,
`Terminates`, `ResumeCompletes`, `EveryMemoryMaintained`, `QuestionEnds`), which the prover does
not reach, nor `ENABLED`.
The library's induction theorems take an operator as a parameter, which the provers cannot
instantiate; where a proof needs induction (`Mirror`, sums and cardinalities of finite
sets, lists of advice) it takes the set of counterexamples and its least element. No
module declares a `RECURSIVE` operator.

## Not modelled

- Embeddings and the models behind the classifier, the reranker and the language model:
  libraries and services. Their results are free choices or tables of an instance.
- The Chroma repository, the failure store's file and providers' HTTP: external. The
  models assume that the failure store does not raise.
- Matching inside words, texts of prompts, answers and reflections: strings.
- The event bus: delivery is sequential within one task, and nothing reads the
  events back but the trace, which `Runtime` has.
- The progress lifecycle and `mark_status` of the artifact store, cost
  estimates and the report files of campaigns: no driver reads them back.
- Retention, forgetting and the segmentation of events: no caller in the runtime.
- `src/evaluation/`: metrics over complete records, synthetic data, and offline runners.
- Configuration, monitoring, sanitising and redaction, and the command lines: stateless or
  write-only.
- Preflight checks, dataset loading, metrics and training of the benchmark drivers.

## Plan

What is left, most important first:

1. `Deliberation` inside `Workflow`: the computed decisions under the engine's retries
   and cancellation, on one route at a time.
2. The event bus with subscribers that fail and publish again.
3. A failure store that raises, in `MaintenanceSupervisor`, with its proofs.
4. A memory commit that fails between its two notes and is retried, in `Workflow`.

## Running

From this directory: `tlc -workers 2 -config SupervisorOverlap.cfg
MCMaintenanceSupervisor`, and likewise for every row of `runs`;
`tlapm MaintenanceSupervisorProofs.tla`, and likewise for `StoreProofs`,
`RuntimeProofs`, `CampaignProofs`, `ArtifactStoreProofs`, `WorkflowProofs`,
`ReasoningProofs` and `DeliberationProofs`, for the proofs.
