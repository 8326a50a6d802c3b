------------------------------ MODULE Workflow ------------------------------
(***************************************************************************)
(* One execution of the cognitive control bus: the engine that walks a     *)
(* route of phases (workflow/orchestration_engine.py), the correction loop *)
(* (workflow/correction_loop.py), the uncertainty gate                     *)
(* (uncertainty/execution_gate.py), and what the phase controllers leave   *)
(* behind (workflow/prima_workflow.py).                                    *)
(*                                                                         *)
(* A step is a phase start, a phase result, or an exception of a phase.    *)
(* Around it, another task may request cancellation and another execution  *)
(* of the same session may commit its state.                               *)
(*                                                                         *)
(* Texts, scores and thresholds are abstracted to the choices they lead    *)
(* to: which decision the gate takes, what the advisor proposes, how       *)
(* generation and action end.  A query is a member of Queries.             *)
(***************************************************************************)
EXTENDS Naturals, FiniteSets, Routes

CONSTANTS
    Requests,               \* names of the routes a request may select
    Advisable,              \* actions the reflection advisor may propose
    Queries,                \* retrieval queries; UserInput and Supporting are two of them
    UserInput,
    Supporting,
    NoQuery,                \* the empty suggestion
    MaxRetries,             \* RetryPolicy.max_retries
    GateRetries,            \* UncertaintyGatePolicy.max_retrieval_retries
    MaxRetrievalRetries,    \* CorrectionBudget.max_retrieval_retries
    MaxReplans,             \* CorrectionBudget.max_replans
    MaxInterventions,       \* CorrectionBudget.max_reflection_interventions
    MaxGenerations,         \* CorrectionBudget.max_generations
    MaxVersion              \* bound on commits of other executions

QueryActions == {"REVISE_QUERY", "BROADEN_QUERY", "PIVOT_ENTITY"}
Retrieving == QueryActions \cup {"RETRY_TRANSIENT_FAILURE"}
AdviceActions == Retrieving \cup {"REPLAN", "REGENERATE", "ASK_USER", "ABSTAIN"}

Decisions == {"CONTINUE", "REFLECT", "RETRY_RETRIEVAL", "ASK_FOR_CLARIFICATION", "ABSTAIN"}
Withheld == {"RETRY_RETRIEVAL", "ASK_FOR_CLARIFICATION", "ABSTAIN"}

ASSUME ConstantsAssumption ==
    /\ Requests \subseteq DOMAIN Routes
    /\ Advisable \subseteq AdviceActions
    /\ {UserInput, Supporting} \subseteq Queries /\ NoQuery \notin Queries
    /\ {MaxRetries, GateRetries, MaxRetrievalRetries, MaxReplans, MaxInterventions} \subseteq Nat
    /\ MaxGenerations \in Nat \ {0}
    /\ MaxVersion \in Nat

VARIABLES
    request,      \* the selected route
    status,       \* workflow_state.status
    todo,         \* phases[index:], what is left of the route
    current,      \* workflow_state.current_phase
    running,      \* inside _execute_phase_with_retries
    attempts,     \* its local counter
    cancelled,    \* context.cancellation_requested
    decision,     \* context.execution_decision
    evidence,     \* whether the latest evidence acquisition found evidence
    generation,   \* context.generation_result
    action,       \* status of context.action_result
    terminal,     \* metadata["correction_terminal_action"]
    query,        \* metadata["retrieval_query_override"]
    signatures,   \* metadata["correction_signatures"]
    spent,        \* the counters of metadata that the budgets limit
    fresh,        \* history: what was computed since the latest evidence or plan
    outcome,      \* output["outcome"]
    loaded,       \* context.cognitive_state.version
    stored,       \* the version the state manager holds for the session
    saved,        \* the user note of a memory commit in progress is stored
    notes,        \* what memory_notes_created and ingestion_result name
    effects       \* what the execution has left behind

engine == <<request, status, todo, current, running, attempts, cancelled>>
correction == <<terminal, query, signatures, spent>>
results == <<decision, evidence, generation, action, fresh>>
durable == <<outcome, loaded, stored, saved, notes, effects>>
vars == <<engine, correction, results, durable>>

Task == Routes[request].task

Init ==
    /\ request \in Requests
    /\ status = "PENDING"
    /\ todo = Routes[request].phases
    /\ current = "INPUT"
    /\ running = FALSE
    /\ attempts = 0
    /\ cancelled = FALSE
    /\ decision = "none"
    /\ evidence = FALSE
    /\ generation = "none"
    /\ action = "none"
    /\ terminal = "none"
    /\ query = UserInput
    /\ signatures = {}
    /\ spent = [interventions |-> 0, retrievals |-> 0, replans |-> 0, gate |-> 0, generations |-> 0]
    /\ fresh = {}
    /\ outcome = "none"
    /\ loaded = 0
    /\ stored = 0
    /\ saved = FALSE
    /\ notes = {}
    /\ effects = {}
-----------------------------------------------------------------------------
(* The engine's loop (execute) around the phases.                          *)

Begin ==
    /\ status = "PENDING"
    /\ status' = "RUNNING"
    /\ UNCHANGED <<request, todo, current, running, attempts, cancelled, correction, results, durable>>

\* Mutant of Skipped: a decision to reflect withholds the action and the answer.
SkippedOnReflect(phase) ==
    \/ phase = "REFLECTION" /\ decision \notin {"none", "REFLECT"}
    \/ /\ phase \in {"ACTION", "ANSWER_GENERATION"}
       /\ terminal # "none" \/ decision \in Withheld \cup {"REFLECT"}

Skipped(phase) ==
    \/ phase = "REFLECTION" /\ decision \notin {"none", "REFLECT"}
    \/ /\ phase \in {"ACTION", "ANSWER_GENERATION"}
       /\ terminal # "none" \/ decision \in Withheld

BetweenPhases == status = "RUNNING" /\ ~running

SkipPhase ==
    /\ BetweenPhases
    /\ todo # <<>> /\ Skipped(Head(todo))
    /\ todo' = Tail(todo)
    /\ UNCHANGED <<request, status, current, running, attempts, cancelled, correction, results, durable>>

StartPhase ==
    /\ BetweenPhases
    /\ todo # <<>> /\ ~Skipped(Head(todo))
    /\ ~cancelled
    /\ current' = Head(todo)
    /\ todo' = Tail(todo)
    /\ running' = TRUE
    /\ attempts' = 0
    /\ UNCHANGED <<request, status, cancelled, correction, results, durable>>

\* _check_cancelled raises WorkflowCancelledError.
StopCancelled ==
    /\ BetweenPhases
    /\ todo # <<>> /\ ~Skipped(Head(todo))
    /\ cancelled
    /\ status' = "CANCELLED"
    /\ UNCHANGED <<request, todo, current, running, attempts, cancelled, correction, results, durable>>

Finish ==
    /\ BetweenPhases
    /\ todo = <<>>
    /\ status' = "COMPLETED"
    /\ UNCHANGED <<request, todo, current, running, attempts, cancelled, correction, results, durable>>

In(phase) == status = "RUNNING" /\ running /\ current = phase

\* The phase returned: the engine completes it and splices stages in before what is left.
Return(stages) ==
    /\ running' = FALSE
    /\ attempts' = 0
    /\ todo' = stages \o todo
    /\ UNCHANGED <<request, status, current, cancelled>>

\* The controller raised; the phase runs again or the execution fails.
PhaseRaises ==
    /\ status = "RUNNING" /\ running
    /\ \/ /\ attempts < MaxRetries
          /\ attempts' = attempts + 1
          /\ UNCHANGED <<status, running>>
       \/ /\ attempts >= MaxRetries
          /\ status' = "FAILED"
          /\ running' = FALSE
          /\ attempts' = 0
    /\ saved' = FALSE
    /\ UNCHANGED <<request, todo, current, cancelled, correction, results, outcome, loaded, stored,
                   notes, effects>>

\* context.request_cancel() by another task.
RequestCancel ==
    /\ status = "RUNNING" /\ ~cancelled
    /\ cancelled' = TRUE
    /\ UNCHANGED <<request, status, todo, current, running, attempts, correction, results, durable>>

\* asyncio cancels the task while a controller that suspends is awaiting.
TaskCancelled ==
    /\ \E phase \in {"ACTION", "ANSWER_GENERATION", "MAINTENANCE_ENQUEUE"} : In(phase)
    /\ cancelled' = TRUE
    /\ status' = "CANCELLED"
    /\ running' = FALSE
    /\ attempts' = 0
    /\ UNCHANGED <<request, todo, current, correction, results, durable>>

\* Another execution of the session commits its state.
OtherCommits ==
    /\ status = "RUNNING"
    /\ stored < MaxVersion
    /\ stored' = stored + 1
    /\ UNCHANGED <<engine, correction, results, outcome, loaded, saved, notes, effects>>
-----------------------------------------------------------------------------
(* The correction loop.                                                    *)

Judging == <<"PLANNING", "WORLD_SIMULATION", "UNCERTAINTY_ESTIMATION", "EXECUTION_DECISION">>

ExecutionTail ==
    IF Task = "tool_request" THEN <<"ACTION", "OUTPUT_VALIDATION">>
    ELSE <<"ACTION", "ANSWER_GENERATION", "OUTPUT_VALIDATION">>

QueryRoute(post) ==
    IF Routes[request].profile # "prima_full"
    THEN <<"EVIDENCE_ACQUISITION", "ANSWER_GENERATION", "OUTPUT_VALIDATION">>
    ELSE <<"EVIDENCE_ACQUISITION">> \o Judging \o <<"REFLECTION">>
         \o (IF post THEN ExecutionTail ELSE <<>>)

\* Mutant of Stages: a new plan is acted on without a new decision.
StagesUnjudged(advised, post) ==
    CASE advised \in QueryActions -> QueryRoute(post)
      [] advised = "REPLAN" ->
           <<"PLANNING", "WORLD_SIMULATION">> \o (IF post THEN ExecutionTail ELSE <<>>)
      [] advised = "REGENERATE" -> <<"ANSWER_GENERATION", "OUTPUT_VALIDATION">>
      [] advised = "RETRY_TRANSIENT_FAILURE" ->
           IF post /\ action # "none" THEN <<"ACTION", "OUTPUT_VALIDATION">> ELSE QueryRoute(post)
      [] OTHER -> <<>>

\* The stages an accepted correction splices in (_correction_phases).
Stages(advised, post) ==
    CASE advised \in QueryActions -> QueryRoute(post)
      [] advised = "REPLAN" -> Judging \o <<"REFLECTION">> \o (IF post THEN ExecutionTail ELSE <<>>)
      [] advised = "REGENERATE" -> <<"ANSWER_GENERATION", "OUTPUT_VALIDATION">>
      [] advised = "RETRY_TRANSIENT_FAILURE" ->
           IF post /\ action # "none" THEN <<"ACTION", "OUTPUT_VALIDATION">> ELSE QueryRoute(post)
      [] OTHER -> <<>>

\* metadata["correction_queries"]: what the accepted retrieving corrections suggested.
Tried == {s[2] : s \in {t \in signatures : t[1] \in Retrieving}}

\* _rejection_reason finds none.
Acceptable(advised, candidate) ==
    /\ <<advised, candidate>> \notin signatures
    /\ spent.interventions < MaxInterventions
    /\ advised \in QueryActions => candidate \notin {NoQuery, query} \cup Tried
    /\ advised \in Retrieving => spent.retrievals + spent.gate < MaxRetrievalRetries
    /\ advised = "REPLAN" => spent.replans < MaxReplans
    /\ advised = "REGENERATE" => spent.generations < MaxGenerations

\* _consume_budget.
Consumed(advised) ==
    [spent EXCEPT !.interventions = @ + 1,
                  !.retrievals = IF advised \in Retrieving THEN @ + 1 ELSE @,
                  !.replans = IF advised = "REPLAN" THEN @ + 1 ELSE @]

\* The query override that an accepted correction leaves: a retried action leaves none.
Override(advised, candidate, post) ==
    IF \/ candidate = NoQuery
       \/ advised \notin Retrieving
       \/ advised = "RETRY_TRANSIENT_FAILURE" /\ post /\ action # "none"
    THEN query ELSE candidate

Correct(advised, candidate, post) ==
    /\ Acceptable(advised, candidate)
    /\ spent' = Consumed(advised)
    /\ signatures' = signatures \cup {<<advised, candidate>>}
    /\ query' = Override(advised, candidate, post)
    /\ terminal' = IF advised \in {"ASK_USER", "ABSTAIN"} THEN advised ELSE terminal
    /\ Return(Stages(advised, post))

\* No advice, or advice that is rejected: by a budget, as a duplicate, for its low
\* confidence, or because it leaks evaluation data.
CarryOn == Return(<<>>) /\ UNCHANGED correction
-----------------------------------------------------------------------------
(* The phases.                                                             *)

LoadState ==
    /\ In("STATE_LOAD")
    /\ loaded' = stored
    /\ CarryOn
    /\ UNCHANGED <<results, outcome, stored, saved, notes, effects>>

\* AFFECT, WORLD_SIMULATION and UNCERTAINTY_ESTIMATION only feed the later choices.
Analyse ==
    /\ \E phase \in {"AFFECT", "WORLD_SIMULATION", "UNCERTAINTY_ESTIMATION"} : In(phase)
    /\ CarryOn
    /\ UNCHANGED <<results, durable>>

AcquireEvidence ==
    /\ In("EVIDENCE_ACQUISITION")
    /\ evidence' \in BOOLEAN
    /\ fresh' = {}
    /\ CarryOn
    /\ UNCHANGED <<decision, generation, action, durable>>

MakePlan ==
    /\ In("PLANNING")
    /\ fresh' = {}
    /\ CarryOn
    /\ UNCHANGED <<decision, evidence, generation, action, durable>>

\* UncertaintyGate.evaluate allows RETRY_RETRIEVAL only below its own limit.
GateMay(d) == d = "RETRY_RETRIEVAL" => spent.gate < GateRetries

\* The engine honours it below both limits (_requests_retrieval_retry).
RetrievalAllowed == spent.gate < GateRetries /\ spent.gate < MaxRetrievalRetries

\* Mutant of Decide: the gate's retries are not counted.
DecideUncounted ==
    /\ In("EXECUTION_DECISION")
    /\ \E d \in Decisions :
         /\ GateMay(d)
         /\ decision' = d
         /\ IF d = "RETRY_RETRIEVAL" /\ RetrievalAllowed
            THEN Return(<<"EVIDENCE_ACQUISITION">> \o Judging)
            ELSE Return(<<>>)
    /\ fresh' = fresh \cup {"judgement"}
    /\ UNCHANGED <<evidence, generation, action, correction, durable>>

Decide ==
    /\ In("EXECUTION_DECISION")
    /\ \E d \in Decisions :
         /\ GateMay(d)
         /\ decision' = d
         /\ IF d = "RETRY_RETRIEVAL" /\ RetrievalAllowed
            THEN /\ spent' = [spent EXCEPT !.gate = @ + 1]
                 /\ Return(<<"EVIDENCE_ACQUISITION">> \o Judging)
            ELSE /\ UNCHANGED spent
                 /\ Return(<<>>)
    /\ fresh' = fresh \cup {"judgement"}
    /\ UNCHANGED <<evidence, generation, action, terminal, query, signatures, durable>>

Reflect ==
    /\ In("REFLECTION")
    /\ \/ CarryOn
       \/ \E advised \in Advisable, candidate \in Queries \cup {NoQuery} :
            Correct(advised, candidate, FALSE)
    /\ UNCHANGED <<results, durable>>

Act ==
    /\ In("ACTION")
    /\ action' \in {"success", "no_op", "failed", "blocked"}
    /\ fresh' = fresh \cup {"action"}
    /\ CarryOn
    /\ UNCHANGED <<decision, evidence, generation, durable>>

\* What a generation comes to, whether parsed or the fallback: an answer, "uncited"
\* when it names no source, an abstention, or a failure.
Generations == {"answered", "uncited", "abstained", "failed"}

Generate ==
    /\ In("ANSWER_GENERATION")
    /\ generation' \in Generations
    /\ spent' = [spent EXCEPT !.generations = @ + 1]
    /\ fresh' = fresh \cup {"answer"}
    /\ Return(<<>>)
    /\ UNCHANGED <<decision, evidence, action, terminal, query, signatures, durable>>

\* The first signal of _signals and the correction that it proposes.
Signal ==
    IF generation = "failed" THEN <<"REGENERATE", NoQuery>>
    ELSE IF generation = "uncited" /\ evidence /\ Task = "factual_qa"
         THEN <<"REVISE_QUERY", Supporting>>
    ELSE IF action = "failed" THEN <<"RETRY_TRANSIENT_FAILURE", NoQuery>>
    ELSE IF action = "blocked" THEN <<"ABSTAIN", NoQuery>>
    ELSE <<"NO_ACTION", NoQuery>>

ValidateOutput ==
    /\ In("OUTPUT_VALIDATION")
    /\ \/ CarryOn
       \/ /\ Signal[1] # "NO_ACTION"
          /\ Correct(Signal[1], Signal[2], TRUE)
    /\ UNCHANGED <<results, durable>>
-----------------------------------------------------------------------------
(* What an execution leaves behind.                                        *)

\* The note is indexed before the outcome is shaped and before the state is committed.
IngestDocument ==
    /\ In("DOCUMENT_INGESTION")
    /\ notes' = notes \cup {"document"}
    /\ effects' = effects \cup {"document"}
    /\ CarryOn
    /\ UNCHANGED <<results, outcome, loaded, stored, saved>>

\* Mutant of Shaped: a retrieval retry that was not granted does not withhold the answer.
ShapedDespiteRetry ==
    IF terminal # "none" \/ decision \in Withheld \ {"RETRY_RETRIEVAL"} THEN "abstained"
    ELSE IF generation # "none" THEN IF generation = "uncited" THEN "answered" ELSE generation
    ELSE IF "document" \in notes \/ Task = "historical_replay" THEN "ingested"
    ELSE IF Task = "emotion_classification" THEN "classified"
    ELSE IF action # "none" THEN "actioned"
    ELSE "nothing"

\* The outcome OutputController shapes; "nothing" is where it raises.
Shaped ==
    IF terminal # "none" \/ decision \in Withheld THEN "abstained"
    ELSE IF generation # "none" THEN IF generation = "uncited" THEN "answered" ELSE generation
    ELSE IF "document" \in notes \/ Task = "historical_replay" THEN "ingested"
    ELSE IF Task = "emotion_classification" THEN "classified"
    ELSE IF action # "none" THEN "actioned"
    ELSE "nothing"

ShapeOutput ==
    /\ In("OUTPUT")
    /\ Shaped # "nothing"
    /\ outcome' = Shaped
    /\ CarryOn
    /\ UNCHANGED <<results, loaded, stored, saved, notes, effects>>

\* Mutant of CommitState: failed outcomes are committed too.
CommitStateAlways ==
    /\ In("STATE_COMMIT")
    /\ loaded = stored
    /\ stored' = stored + 1
    /\ loaded' = stored + 1
    /\ effects' = effects \cup {"state"}
    /\ CarryOn
    /\ UNCHANGED <<results, outcome, saved, notes>>

\* save() with the loaded version; a conflict raises, which PhaseRaises models.
CommitState ==
    /\ In("STATE_COMMIT")
    /\ \/ /\ outcome = "failed"
          /\ UNCHANGED <<loaded, stored, effects>>
       \/ /\ outcome # "failed"
          /\ loaded = stored
          /\ stored' = stored + 1
          /\ loaded' = stored + 1
          /\ effects' = effects \cup {"state"}
    /\ CarryOn
    /\ UNCHANGED <<results, outcome, saved, notes>>

\* A failed or abstained outcome, an unimportant exchange, or an unverified procedure.
RememberNothing ==
    /\ In("MEMORY_COMMIT") /\ ~saved
    /\ CarryOn
    /\ UNCHANGED <<results, durable>>

RememberProcedure ==
    /\ In("MEMORY_COMMIT")
    /\ outcome \notin {"failed", "abstained"}
    /\ Task = "tool_request" /\ action = "success"
    /\ notes' = {"procedure"}
    /\ effects' = effects \cup {"procedure"}
    /\ CarryOn
    /\ UNCHANGED <<results, outcome, loaded, stored, saved>>

\* The first of the two repository.add calls; the second may raise.
RememberUser ==
    /\ In("MEMORY_COMMIT") /\ ~saved
    /\ outcome \notin {"failed", "abstained"}
    /\ Task # "tool_request"
    /\ saved' = TRUE
    /\ effects' = effects \cup {"user"}
    /\ UNCHANGED <<engine, correction, results, outcome, loaded, stored, notes>>

RememberExchange ==
    /\ In("MEMORY_COMMIT") /\ saved
    /\ LET exchange == IF Task = "historical_replay" THEN {"user"} ELSE {"user", "assistant"}
       IN notes' = exchange /\ effects' = effects \cup exchange
    /\ saved' = FALSE
    /\ CarryOn
    /\ UNCHANGED <<results, outcome, loaded, stored>>

\* One maintenance event is accepted by the supervisor.
EnqueueMaintenance ==
    /\ In("MAINTENANCE_ENQUEUE")
    /\ notes # {}
    /\ effects' = effects \cup {"maintenance"}
    /\ UNCHANGED <<engine, correction, results, outcome, loaded, stored, saved, notes>>

EnqueueReturns ==
    /\ In("MAINTENANCE_ENQUEUE")
    /\ CarryOn
    /\ UNCHANGED <<results, durable>>
-----------------------------------------------------------------------------
PhaseStep ==
    \/ LoadState \/ Analyse \/ AcquireEvidence \/ MakePlan \/ Decide \/ Reflect \/ Act \/ Generate
    \/ ValidateOutput \/ IngestDocument \/ ShapeOutput \/ CommitState
    \/ RememberNothing \/ RememberProcedure \/ RememberUser \/ RememberExchange
    \/ EnqueueMaintenance \/ EnqueueReturns \/ PhaseRaises

EngineStep == Begin \/ SkipPhase \/ StartPhase \/ StopCancelled \/ Finish \/ PhaseStep

Next == EngineStep \/ RequestCancel \/ TaskCancelled \/ OtherCommits

Spec == Init /\ [][Next]_vars

\* The event loop resumes the execution, and every controller returns or raises.
FairSpec == Spec /\ WF_vars(EngineStep)
-----------------------------------------------------------------------------
(* Properties. *)

\* However the corrections and the gate re-route an execution, the answer (or the action)
\* it reports was produced after its latest evidence acquisition and its latest plan: a
\* correction never ends with the answer it was meant to replace.
ReportedResultIsFresh ==
    /\ outcome = "answered" => "answer" \in fresh
    /\ outcome = "actioned" => "action" \in fresh

\* No action runs, and no answer is generated on the full route, on a plan that the
\* uncertainty gate has not judged since it was made.
ActsOnJudgedPlan ==
    \/ In("ACTION")
    \/ In("ANSWER_GENERATION") /\ Routes[request].profile = "prima_full"
    => "judgement" \in fresh /\ decision \notin Withheld

\* "Output shaping requires a generation, ingestion, classification, or action result":
\* no route and no correction brings an execution to OUTPUT with nothing to shape.
OutputHasResult == In("OUTPUT") => Shaped # "nothing"

\* Every execution ends, whatever the gate and the advisor propose.
Terminates == <>(status \in {"COMPLETED", "FAILED", "CANCELLED"})

\* What the execution leaves behind keeps the contract of ExecutionContract.
Contract == INSTANCE ExecutionContract

KeepsContract == Contract!Spec
=============================================================================
