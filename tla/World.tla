-------------------------------- MODULE World ---------------------------------
(* The symbolic world model: what StateSimulator predicts of a plan, from    *)
(* the confidence the session's state holds and the constraints of the plan  *)
(* and of the execution policy. A pure function of them.                     *)
EXTENDS Planning

(* What each action adds to the risk and to the probability of failure.      *)
SymbolicRules ==
    [review_state |-> [risk |-> 30, failure |-> 20], integrate_memory |-> [risk |-> 120, failure |-> 80],
     apply_affective_priors |-> [risk |-> 80, failure |-> 50],
     resolve_uncertainty |-> [risk |-> 160, failure |-> 120],
     request_reflection |-> [risk |-> 100, failure |-> 80],
     plan_state_transition |-> [risk |-> 140, failure |-> 100],
     prepare_response |-> [risk |-> 180, failure |-> 140]]

(* The confidence of a state: overall_confidence, else confidence, else 0.   *)
(* No transition of the rules touches either, so it is that of the whole     *)
(* plan. The two are None where the state has no such key.                   *)
StateConfidence(state) == Or(state.overall, Or(state.explicit, 0))

(* The constraints WORLD_SIMULATION puts before the plan's own.              *)
PolicyConstraints(policy) ==
    <<Constraint("text", "no unsupported claims", {"unsure"})>>
    \o When(~policy.external, Constraint("text", "no tools without permission", {"tools"}))
    \o When(policy.sandbox, Constraint("text", "external actions in the sandbox", {}))

risk_for(action, confidence, constraints, tool) ==
    Within(SymbolicRules[action].risk + Percent(20, One - confidence)
           + Min({250, 25 * Len(constraints)}) + (IF tool THEN 250 ELSE 0))

(* Every constraint of these plans is a required one.                        *)
failure_probability_for(action, confidence, constraints) ==
    Within(SymbolicRules[action].failure + Percent(25, One - confidence) + Min({300, 40 * Len(constraints)}))

Severity == 800

violation_probability(marks, action, confidence) ==
    Within(80
        + (IF "tools" \notin marks THEN 0
           ELSE IF action \in {"review_state", "request_reflection"} THEN 50 ELSE 400)
        + (IF "models" \in marks THEN 50 ELSE 0)
        + (IF "unsure" \in marks THEN Percent(30, One - confidence) ELSE 0)
        + (IF "reflection" \in marks /\ action # "request_reflection" THEN 150 ELSE 0)
        + (IF "workflow" \in marks THEN 40 ELSE 0))

risk_contribution(marks, action, confidence) ==
    Scaled(violation_probability(marks, action, confidence), Severity)

(* The largest contribution a constraint makes to an action.                 *)
ConstraintRisk(action, confidence, constraints) ==
    Max({risk_contribution(constraints[i].marks, action, confidence) : i \in DOMAIN constraints})

ActionRisk(action, confidence, constraints, tool) ==
    Max({risk_for(action, confidence, constraints, tool), ConstraintRisk(action, confidence, constraints)})

ActionFailure(action, confidence, constraints) ==
    Max({failure_probability_for(action, confidence, constraints),
         Percent(85, ConstraintRisk(action, confidence, constraints))})

MeanRisk(actions, confidence, constraints, tool) ==
    MeanOver(DOMAIN actions, LAMBDA i : ActionRisk(actions[i], confidence, constraints, tool))

(* Mutant: the risks of the actions and of the constraints add up.           *)
AggregateOfSums(actions, confidence, constraints, tool, planned) ==
    Within(MeanRisk(actions, confidence, constraints, tool)
        + Max({ConstraintRisk(a, confidence, constraints) : a \in ToSet(actions)}))

AggregateRisk(actions, confidence, constraints, tool, planned) ==
    Within(Percent(55, MeanRisk(actions, confidence, constraints, tool))
        + Percent(25, Max({ConstraintRisk(a, confidence, constraints) : a \in ToSet(actions)}))
        + Percent(20, One - planned))

AggregateFailure(actions, confidence, constraints, risk, planned) ==
    Within(Percent(55, MeanOver(DOMAIN actions, LAMBDA i : ActionFailure(actions[i], confidence, constraints)))
        + Percent(30, risk) + Percent(15, One - planned))

Violations(actions, confidence, constraints) ==
    Max({violation_probability(constraints[i].marks, a, confidence) :
           i \in DOMAIN constraints, a \in ToSet(actions)})

(* The prediction for a plan; pool holds the policy's constraints and the    *)
(* plan's.                                                                   *)
Prediction(plan, confidence, pool) ==
    LET risk == AggregateRisk(plan.actions, confidence, pool, plan.tool # "none", plan.confidence)
    IN  [risk |-> risk, violation |-> Violations(plan.actions, confidence, pool),
         failure |-> AggregateFailure(plan.actions, confidence, pool, risk, plan.confidence)]

simulate(plan, state, policy) ==
    Prediction(plan, StateConfidence(state), PolicyConstraints(policy) \o plan.constraints)
=============================================================================
