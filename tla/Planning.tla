------------------------------- MODULE Planning -------------------------------
(* TaskPlanner: the plan it makes of a planning context, and what it thinks  *)
(* of that plan. Nothing here has state: the same context, prior plan and    *)
(* reason give the same plan. Scores are integers over One. A constraint is  *)
(* its type, a text and what the world model will read in that text, its     *)
(* marks; an action is its type.                                             *)
EXTENDS Scores

(* A planning context: what the session's state says (priority and explicit  *)
(* confidence, either of which may be None, and the constraints stated in    *)
(* it), what retrieval found, and what affect adds to it.                    *)
Marks == {"tools", "models", "unsure", "reflection", "workflow"}

(* ----- goal ----- *)

Urgency(ctx) ==
    Within((IF ctx.urgent THEN 350 ELSE 0) + Max({0, 450 - ctx.retrieval})
           + Percent(40, ctx.dissonance) + ctx.severity \div 2)

(* Whether the goal is of high or critical priority: the state's word or     *)
(* number if it has one of the known ones, the urgency otherwise.            *)
Priorities == {"low", "medium", "high", "critical"}

Pressing(ctx) ==
    \/ ctx.priority \in {"high", "critical"}
    \/ /\ ctx.priority \notin Priorities
       /\ \/ ctx.rank >= 650
          \/ ctx.rank = None /\ Urgency(ctx) >= 550
          \/ 250 < ctx.rank /\ ctx.rank < 650 /\ Urgency(ctx) >= 550

Support(ctx, default) == IF ctx.memories > 0 THEN ctx.retrieval ELSE default

GoalConfidence(ctx) ==
    IF ctx.explicit # None THEN Within(ctx.explicit)
    ELSE Within(Percent(45, Support(ctx, 250)) + Percent(25, ctx.profile) + 350 - Percent(25, ctx.severity))

(* ----- constraints ----- *)

Constraint(type, text, marks) == [type |-> type, text |-> text, marks |-> marks]

FixedConstraints ==
    <<Constraint("execution", "no external tools", {"tools"}),
      Constraint("execution", "no language models", {"models"}),
      Constraint("policy", "workflow owns dispatch", {"workflow"})>>

When(condition, item) == IF condition THEN <<item>> ELSE <<>>

(* Of two constraints of one type and text, the first stays.                 *)
Deduped(constraints) ==
    FoldLeft(LAMBDA kept, c : IF \E i \in DOMAIN kept : kept[i].type = c.type /\ kept[i].text = c.text
                              THEN kept ELSE Append(kept, c), <<>>, constraints)

Constraints(ctx, reason) ==
    Deduped(FixedConstraints
        \o When(ctx.retrieval < 400 \/ ctx.memories = 0,
                Constraint("memory", "surface retrieval uncertainty", {"unsure"}))
        \o When(ctx.priors, Constraint("affect", "priors are modifiers", {}))
        \o When(ctx.severity >= 450,
                Constraint("reflection", "reflect before action", {"reflection", "workflow"}))
        \o When(reason # "none", Constraint("policy", reason, {}))
        \o [i \in DOMAIN ctx.stated |-> Constraint("state", ctx.stated[i].text, ctx.stated[i].marks)])

(* ----- actions and intent ----- *)

NeedsReflection(ctx) == ctx.severity >= 450 \/ ctx.retrieval < 400 \/ ctx.dissonance >= 500

Actions(ctx, reason) ==
    When(reason # "none", "resolve_uncertainty")
    \o <<"review_state", IF ctx.memories > 0 THEN "integrate_memory" ELSE "resolve_uncertainty">>
    \o When(ctx.priors, "apply_affective_priors")
    \o When(NeedsReflection(ctx), "request_reflection")
    \o <<"plan_state_transition", "prepare_response">>

IntentType(ctx) ==
    CASE NeedsReflection(ctx) -> "respond_after_reflection"
      [] ~NeedsReflection(ctx) /\ ctx.memories = 0 /\ ctx.retrieval <= 150 -> "request_clarification"
      [] OTHER -> "respond"

IntentConfidence(ctx) ==
    Within(GoalConfidence(ctx) + (IF Pressing(ctx) THEN 100 ELSE 0) - Percent(15, ctx.severity))

(* ----- the evaluator ----- *)

BaseRisk ==
    [review_state |-> 50, integrate_memory |-> 150, apply_affective_priors |-> 120,
     resolve_uncertainty |-> 180, request_reflection |-> 80, plan_state_transition |-> 160,
     prepare_response |-> 200]

PlannedRisk(action, ctx) ==
    Within(BaseRisk[action] + Percent(35, Max({0, 400 - ctx.retrieval})) + Percent(25, ctx.severity))

PredictedRisk(actions, ctx) == MeanOver(DOMAIN actions, LAMBDA i : PlannedRisk(actions[i], ctx))

PredictedConfidence(actions, ctx) ==
    Within(Within(Percent(45, GoalConfidence(ctx)) + Percent(35, Support(ctx, 200))
                  + Percent(20, One - PredictedRisk(actions, ctx)))
           - Percent(20, ctx.severity))

EvaluatedUncertainty(ctx) ==
    Within(Percent(35, One - ctx.retrieval) + Percent(20, ctx.ambiguity) + Percent(25, ctx.severity)
           + Percent(15, ctx.dissonance) + (IF ctx.memories = 0 THEN 250 ELSE 0))

Reasons(ctx) ==
    {r \in {"low_retrieval_confidence", "memory_context_absent", "reflection_signal_pressure",
            "affective_dissonance"} :
        \/ r = "low_retrieval_confidence" /\ ctx.retrieval < 400
        \/ r = "memory_context_absent" /\ ctx.memories = 0
        \/ r = "reflection_signal_pressure" /\ ctx.severity >= 450
        \/ r = "affective_dissonance" /\ ctx.dissonance >= 500}

ShouldReplan(actions, ctx) ==
    EvaluatedUncertainty(ctx) >= 850 /\ "request_reflection" \notin ToSet(actions)

Plan(ctx, actions, reason, revision) ==
    [actions |-> actions, constraints |-> Constraints(ctx, reason), revision |-> revision,
     intent |-> IntentType(ctx), intent_confidence |-> IntentConfidence(ctx), tool |-> "none",
     confidence |-> Within(Percent(70, PredictedConfidence(actions, ctx))
                           + Percent(30, One - EvaluatedUncertainty(ctx))),
     uncertainty |-> EvaluatedUncertainty(ctx), risk |-> PredictedRisk(actions, ctx),
     reasons |-> Reasons(ctx), should_replan |-> ShouldReplan(actions, ctx)]

create_plan(ctx) == Plan(ctx, Actions(ctx, "none"), "none", 0)

replan(ctx, prior, reason) == Plan(ctx, Actions(ctx, reason), reason, prior.revision + 1)
=============================================================================
