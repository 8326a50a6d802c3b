----------------------------- MODULE RuntimeReport -----------------------------
(***************************************************************************)
(* What the runtime says of an execution that has ended: the response, the *)
(* component lists and details of its diagnostics, and the results of the  *)
(* compatibility adapters (runtime/prima_runtime.py). Pure.                *)
(*                                                                         *)
(* x is an execution: the name of its route, the phases it completed, what its latest  *)
(* retrieval ran (NoRetrieval when the reasoning took none), the state of  *)
(* its compressed context, and the results the phases left in the context. *)
(***************************************************************************)
EXTENDS Naturals, FiniteSets, Routes

Of(x) == Routes[x.route]

NoRetrieval == [strategies |-> {}, reranker |-> "unreported"]

StrategyComponent ==
    [dense |-> "dense_retrieval", sparse |-> "sparse_retrieval",
     temporal |-> "temporal_retrieval", graph |-> "graph_traversal"]

Skipped(x) == Components \ Of(x).components

\* The reranker counts as executed unless the latest retrieval reports it disabled.
Executed(x) ==
    LET When(condition, components) == IF condition THEN components ELSE {}
        After(phase, components) == When(phase \in x.completed, components)
    IN  UNION {
          {"input_parser", "task_scheduler", "policy_router", "execution_dispatcher"},
          After("STATE_LOAD", {"state_manager", "persistent_state"}),
          After("AFFECT", {"emotion_classifier", "affect_engine"}),
          After("EVIDENCE_ACQUISITION",
                {"query_rewriter", "memory_index", "fusion", "confidence_estimator"}
                \cup When(x.retrieval.reranker # "disabled", {"reranker"})
                \cup {StrategyComponent[s] : s \in x.retrieval.strategies}
                \cup When("graph" \in x.retrieval.strategies, {"graph_reasoning"})
                \cup When(x.compressed = "applied", {"context_compressor"})),
          After("PLANNING", {"planner"}),
          After("WORLD_SIMULATION", {"world_model"}),
          After("UNCERTAINTY_ESTIMATION", {"uncertainty_estimator"}),
          After("REFLECTION", {"reflection"}),
          After("ACTION", When(Of(x).task = "tool_request", {"tool_executor"})),
          After("ANSWER_GENERATION", When(x.called, {"model_executor"})),
          After("OUTPUT_VALIDATION", {"output_validator"}),
          After("DOCUMENT_INGESTION", {"document_encoder", "memory_index", "memory_commit"}),
          After("OUTPUT", {"output_shaper"}),
          After("MEMORY_COMMIT", {"memory_commit"}
                \cup When(Of(x).task = "historical_replay", {"memory_index"})),
          After("MAINTENANCE_ENQUEUE", When(x.queued > 0, {"maintenance_events"})),
          After("STATE_COMMIT", When(x.committed, {"state_commit"}))}

\* settings are the runtime's: whether it reranks, and whether it maintains.
Disabled(x, settings) ==
    LET on == [reranker |-> settings.rerank, context_compressor |-> x.compresses,
               maintenance_events |-> settings.maintain]
    IN  {k \in DOMAIN on : ~on[k]}

Enabled(x, settings) == Of(x).components \ Disabled(x, settings)

ByLists ==
    {"affect_engine", "dense_retrieval", "sparse_retrieval", "temporal_retrieval",
     "graph_traversal", "graph_reasoning", "reranker", "memory_index", "maintenance_events"}

ByProfile == {"world_model", "uncertainty_estimator"}

Detailed(x) == ByLists \cup ByProfile \cup {"context_compressor"} \cup Skipped(x)

\* component_details[k]["status"].
Status(x, settings, k) ==
    LET Unrun(enabled) == IF enabled THEN "enabled_not_executed" ELSE "disabled"
        ran == k \in Executed(x)
    IN  IF k \in ByProfile
        THEN IF Of(x).profile # "prima_full" THEN "disabled"
             ELSE IF ran THEN "executed" ELSE "enabled_not_executed"
        ELSE IF k = "context_compressor"
        THEN IF x.compressed = "none" THEN Unrun(k \in Enabled(x, settings))
             ELSE IF x.compressed = "applied" THEN "executed" ELSE "disabled"
        ELSE IF k \in ByLists
        THEN IF ran THEN "executed" ELSE Unrun(k \in Enabled(x, settings))
        ELSE "task_inapplicable"

\* The rule named as the decision's: the gate's own when it judged.
DecisionRule(x) ==
    IF x.decision # "none" THEN "gate"
    ELSE IF Of(x).profile = "prima_full" THEN "uncertainty_gate" ELSE "profile_direct_execution"

Diagnostics(x, settings, trace) ==
    [planned |-> Of(x).components, enabled |-> Enabled(x, settings), executed |-> Executed(x),
     unexecuted |-> Of(x).components \ Executed(x), skipped |-> Skipped(x),
     details |-> [k \in Detailed(x) |-> Status(x, settings, k)],
     rule |-> DecisionRule(x),
     reflections |-> Cardinality({t \in trace : t[2] = "REFLECTION"}),
     traced |-> trace]
-----------------------------------------------------------------------------
\* A completed execution that shaped a failed outcome is reported as failed.
Outcome(x) ==
    CASE x.status = "CANCELLED" -> "cancelled"
      [] x.status = "FAILED" -> "failed"
      [] OTHER -> IF x.outcome = "none" THEN "failed" ELSE x.outcome

ExecutionStatus(outcome) ==
    IF outcome \in {"failed", "cancelled"} THEN outcome ELSE "completed"

\* The note of an ingestion comes after those of the memory commit.
CreatedIds(x) == x.created \cup x.ingested

Admission(x) ==
    IF x.admitted # "none" THEN x.admitted
    ELSE CASE Of(x).task = "document_ingestion" ->
                 IF x.ingested # {} THEN "stored" ELSE "not_stored"
           [] Of(x).task = "factual_qa" -> "qa_read_only"
           [] Of(x).task = "emotion_classification" -> "classification_read_only"
           [] OTHER -> "successful_answers_only"

\* Where the reported confidence comes from: the first that the execution has.
ConfidenceOf(x) ==
    IF "EVIDENCE_ACQUISITION" \in x.completed THEN "reasoning"
    ELSE IF "PLANNING" \in x.completed THEN "plan" ELSE "affect"

Response(x, settings, trace) ==
    LET outcome == Outcome(x)
    IN  [status |-> ExecutionStatus(outcome), outcome |-> outcome, evidence |-> x.evidence,
         created |-> CreatedIds(x), committed |-> x.committed, version |-> x.version,
         admission |-> Admission(x), confidence |-> ConfidenceOf(x),
         sufficiency |-> x.sufficiency,
         diagnostics |-> Diagnostics(x, settings, trace)]

Rejected ==
    [status |-> "rejected", outcome |-> "failed", evidence |-> {}, created |-> {},
     committed |-> FALSE, version |-> 0, admission |-> "none", confidence |-> "none",
     sufficiency |-> "none",
     diagnostics |->
        [planned |-> {}, enabled |-> {}, executed |-> {}, unexecuted |-> {}, skipped |-> Components,
         details |-> [k \in {} |-> ""], rule |-> "none", reflections |-> 0,
         traced |-> {}]]

\* AnswerResult.status of the adapters; without reasoning an answer counts as sufficient.
Sufficiency(response) ==
    CASE response.outcome = "failed" -> "error"
      [] response.outcome = "abstained" -> "unanswerable"
      [] OTHER -> IF response.sufficiency = "none" THEN "sufficient" ELSE response.sufficiency

\* The adapters look notes up again, in the repository the runtime has by then.
Answer(response, repository) ==
    [status |-> Sufficiency(response), retrieved |-> response.evidence \cap repository]

\* The compatibility context is refreshed from the state manager, whatever happened since.
RuntimeResult(response, repository, version) ==
    [retrieved |-> Answer(response, repository).retrieved,
     created |-> response.created \cap repository, state |-> version]
=============================================================================
