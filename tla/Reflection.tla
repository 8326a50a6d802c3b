------------------------------ MODULE Reflection ------------------------------
(* ReflectionEngine.evaluate and the adapter that turns its result into the  *)
(* advice of the reasoning loop and of the workflow. The engine decides from *)
(* one context whether to reflect, and keeps what it reflected. Scores are   *)
(* integers over One; a text is the set of the tokens the classifier knows.  *)
EXTENDS Scores

(* The first of the classifier's lists with a token in the failure's text.   *)
Lists == <<"tool_failure", "memory_failure", "retrieval_failure", "planning_failure",
           "hallucination_risk", "goal_conflict", "state_conflict", "emotional_conflict">>

Classify(tokens) ==
    LET hits == {i \in 1 .. Len(Lists) : Lists[i] \in tokens}
    IN  IF hits = {} THEN "reasoning_failure" ELSE Lists[Min(hits)]

(* A context: failure is the caller's failure type or "none"; said is what   *)
(* the reason's text says; the scores may be None; settled says whether a    *)
(* cognitive state is given; dissonant holds the strengths of the affect     *)
(* signals that speak of conflict.                                           *)
Failure(ctx) == IF ctx.failure = "none" THEN Classify(ctx.said) ELSE ctx.failure

Contradicting == {"memory_failure", "state_conflict", "emotional_conflict"}

Severities(ctx) ==
    {ctx.severity}
    \cup (IF ctx.retrieval # None /\ ctx.retrieval < 400 THEN {One - ctx.retrieval} ELSE {})
    \cup ctx.dissonant

(* The type that the classifier found is not looked at here: only the        *)
(* caller's, and the words of the reason.                                    *)
Contradiction(ctx) ==
    IF ctx.failure \in Contradicting \/ "conflict" \in ctx.said
    THEN Max({Within(s) : s \in Severities(ctx)}) ELSE 0

TriggerScore(ctx) ==
    Within((70 * (One - Or(ctx.affect, One \div 2))
            + 20 * (One - Or(ctx.retrieval, One \div 2))
            + 10 * Contradiction(ctx)) \div 100)

Unsure(ctx) ==
    /\ Or(ctx.retrieval, One \div 2) < ctx.threshold
    /\ ctx.threshold <= 300 \/ ctx.audit

TriggerReasons(ctx) ==
    LET type == Failure(ctx)
    IN  {r \in {"affect_uncertainty", "low_confidence", "tool_failure", "contradiction",
                "hallucination", "constraint_violation", "retrieval_ambiguity"} :
          \/ r = "affect_uncertainty" /\ One - Or(ctx.affect, One \div 2) >= 700
          \/ r = "low_confidence" /\ Unsure(ctx)
          \/ r = "tool_failure" /\ type = "tool_failure"
          \/ r = "contradiction" /\ (type \in Contradicting \/ "conflict" \in ctx.said)
          \/ r = "hallucination" /\ type = "hallucination_risk"
          \/ r = "constraint_violation" /\ type \in {"planning_failure", "goal_conflict"}
          \/ /\ r = "retrieval_ambiguity" /\ Unsure(ctx)
             /\ type = "retrieval_failure" \/ Or(ctx.retrieval, One \div 2) < 400}

ShouldReflect(ctx) ==
    \/ ctx.reasoning
    \/ TriggerScore(ctx) >= 520 /\ TriggerReasons(ctx) # {}

StateSupport(ctx) ==
    IF ~ctx.settled THEN One \div 2 ELSE Or(ctx.state, 650)

EvidenceStrength(ctx) == IF ShouldReflect(ctx) THEN Min({One, (One * ctx.memories) \div 3}) ELSE 0

Relevance(ctx) == IF ShouldReflect(ctx) THEN One ELSE 550

(* A reflection's text is long enough and tells to verify or avoid; the text *)
(* of a suppressed one has seven words and says neither.                     *)
ReflectionConfidence(ctx) ==
    Within((25 * (IF ShouldReflect(ctx) THEN One ELSE 389) + 25 * Relevance(ctx) + 20 * EvidenceStrength(ctx)
            + 15 * Or(ctx.retrieval, One \div 2) + 15 * StateSupport(ctx)) \div 100)

BeforeConfidence(ctx) ==
    Within((65 * Or(ctx.retrieval, One \div 2) + 35 * StateSupport(ctx)) \div 100)

Utility(ctx) ==
    IF ShouldReflect(ctx) THEN Max({0, ReflectionConfidence(ctx) - BeforeConfidence(ctx)}) ELSE 0

(* ----- the adapter ----- *)

FailureOf(event) ==
    CASE event = "contradictory_evidence"    -> "memory_failure"
      [] event = "retrieval_failure"         -> "retrieval_failure"
      [] event = "plan_constraint_violation" -> "planning_failure"
      [] event = "tool_failure"              -> "tool_failure"
      [] event = "policy_violation"          -> "goal_conflict"
      [] event = "unsupported_claim"         -> "hallucination_risk"
      [] OTHER                               -> "reasoning_failure"

ActionFor(event) ==
    CASE event \in {"contradictory_evidence", "duplicate_query", "unsupported_claim"} -> "revise_query"
      [] event \in {"no_new_evidence", "low_confidence"}               -> "broaden_query"
      [] event \in {"retrieval_failure", "tool_failure"}               -> "retry_transient_failure"
      [] event = "plan_constraint_violation"                           -> "replan"
      [] event \in {"output_schema_failure", "logical_inconsistency"}  -> "regenerate"
      [] event = "policy_violation"                                    -> "abstain"

(* The words the adapter puts behind a query to revise or broaden it.        *)
Suffix == <<"additional", "independent", "context">>

Suggested(event, query) ==
    CASE ActionFor(event) \in {"revise_query", "broaden_query"} -> query \o Suffix
      [] ActionFor(event) = "retry_transient_failure"            -> query
      [] OTHER                                                   -> <<>>

AdviceFor(event, ctx, query) ==
    [trigger |-> ShouldReflect(ctx), action |-> ActionFor(event),
     query   |-> Suggested(event, query), confidence |-> ReflectionConfidence(ctx)]

(* advise(): the context of a failure inside the reasoning loop, which knows *)
(* neither the retrieval's confidence nor the state.                         *)
ReasoningContext(event, memories) ==
    [failure |-> FailureOf(event), said |-> {}, severity |-> One, retrieval |-> None,
     affect |-> None, state |-> None, settled |-> FALSE, memories |-> memories,
     threshold |-> 300, audit |-> FALSE, dissonant |-> {}, reasoning |-> TRUE]
=============================================================================
