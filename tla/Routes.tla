-------------------------------- MODULE Routes --------------------------------
(***************************************************************************)
(* The routes of runtime/route_profiles.py: for each pair of task kind and *)
(* execution profile that the runtime accepts, the phases of its workflow  *)
(* and the components it plans. Pure; shared by Workflow and Runtime.      *)
(***************************************************************************)
EXTENDS Naturals, Sequences

ModelOnly ==
    <<"STATE_LOAD", "ANSWER_GENERATION", "OUTPUT_VALIDATION", "OUTPUT", "STATE_COMMIT",
      "MEMORY_COMMIT", "MAINTENANCE_ENQUEUE">>
SimpleRag ==
    <<"STATE_LOAD", "EVIDENCE_ACQUISITION", "ANSWER_GENERATION", "OUTPUT_VALIDATION", "OUTPUT",
      "STATE_COMMIT", "MEMORY_COMMIT", "MAINTENANCE_ENQUEUE">>
PrimaFull ==
    <<"STATE_LOAD", "AFFECT", "EVIDENCE_ACQUISITION", "PLANNING", "WORLD_SIMULATION",
      "UNCERTAINTY_ESTIMATION", "EXECUTION_DECISION", "REFLECTION", "ACTION", "ANSWER_GENERATION",
      "OUTPUT_VALIDATION", "OUTPUT", "STATE_COMMIT", "MEMORY_COMMIT", "MAINTENANCE_ENQUEUE">>
Ingestion == <<"STATE_LOAD", "DOCUMENT_INGESTION", "OUTPUT", "STATE_COMMIT", "MAINTENANCE_ENQUEUE">>
AffectOnly == <<"STATE_LOAD", "AFFECT", "OUTPUT", "STATE_COMMIT">>
HistoricalReplay ==
    <<"STATE_LOAD", "AFFECT", "OUTPUT", "STATE_COMMIT", "MEMORY_COMMIT", "MAINTENANCE_ENQUEUE">>

Phases == {PrimaFull[i] : i \in DOMAIN PrimaFull} \cup {"DOCUMENT_INGESTION"}

\* No route has a phase twice.
Without(route, phase) ==
    LET i == CHOOSE n \in DOMAIN route : route[n] = phase
    IN [n \in 1..(Len(route) - 1) |-> IF n < i THEN route[n] ELSE route[n + 1]]

(* What a route plans, by the responsibilities of the target diagram.      *)
Control ==
    {"input_parser", "task_scheduler", "state_manager", "policy_router", "execution_dispatcher",
     "persistent_state"}
SimpleRetrieval ==
    {"query_rewriter", "memory_index", "dense_retrieval", "sparse_retrieval", "fusion", "reranker",
     "confidence_estimator", "context_compressor"}
FullRetrieval == SimpleRetrieval \cup {"temporal_retrieval", "graph_traversal", "graph_reasoning"}
Commit ==
    {"output_validator", "output_shaper", "state_commit", "memory_commit", "maintenance_events"}
Deliberate == {"affect_engine", "planner", "world_model", "uncertainty_estimator", "reflection"}

PlannedModel == Control \cup {"model_executor"} \cup Commit
PlannedRag == PlannedModel \cup SimpleRetrieval
PlannedFull == PlannedModel \cup FullRetrieval \cup Deliberate
PlannedTool == (PlannedFull \ {"model_executor"}) \cup {"tool_executor"}
PlannedIngestion ==
    Control \cup {"document_encoder", "memory_index", "memory_commit", "state_commit",
                  "maintenance_events", "output_shaper"}
PlannedAffect ==
    Control \cup {"emotion_classifier", "affect_engine", "state_commit", "output_shaper"}
PlannedReplay ==
    Control \cup {"affect_engine", "memory_index", "output_shaper", "state_commit",
                  "memory_commit", "maintenance_events"}

Components == PlannedFull \cup PlannedTool \cup PlannedIngestion \cup PlannedAffect

Route(task, profile, components, phases) ==
    [task |-> task, profile |-> profile, components |-> components, phases |-> phases]

Routes ==
    [conversation_model |-> Route("conversation", "model_only", PlannedModel, ModelOnly),
     conversation_rag   |-> Route("conversation", "simple_rag", PlannedRag, SimpleRag),
     conversation_full  |-> Route("conversation", "prima_full", PlannedFull, PrimaFull),
     factual_model |-> Route("factual_qa", "model_only", PlannedModel,
                             Without(ModelOnly, "MEMORY_COMMIT")),
     factual_rag   |-> Route("factual_qa", "simple_rag", PlannedRag,
                             Without(SimpleRag, "MEMORY_COMMIT")),
     factual_full  |-> Route("factual_qa", "prima_full", PlannedFull,
                             Without(PrimaFull, "MEMORY_COMMIT")),
     tool_full     |-> Route("tool_request", "prima_full", PlannedTool,
                             Without(PrimaFull, "ANSWER_GENERATION")),
     replay        |-> Route("historical_replay", "prima_full", PlannedReplay, HistoricalReplay),
     ingestion     |-> Route("document_ingestion", "ingestion_only", PlannedIngestion, Ingestion),
     emotion       |-> Route("emotion_classification", "affect_only", PlannedAffect, AffectOnly)]
=============================================================================
