----------------------------- MODULE Uncertainty ------------------------------
(* The uncertainty layer: the confidence signals of the subsystems, their    *)
(* calibration, their weighted aggregate, and the gate that decides from the *)
(* aggregate and from the predicted risk how the turn goes on. A pure        *)
(* function of its inputs; the logistic of the calibration is a table.       *)
EXTENDS World

(* ----- signals ----- *)

Signal(source, confidence, uncertainty, reliability, evidence) ==
    [source |-> source, confidence |-> Within(confidence), uncertainty |-> Within(uncertainty),
     reliability |-> Within(reliability), evidence |-> evidence]

(* Whether an acquisition of evidence left a retrieval response.             *)
Responded(found) == found.confidence # None

(* A retrieval's coverage is a share of top_k; Python's round of five times  *)
(* it goes to the even neighbour at a half, which no share here reaches.     *)
RetrievalSignal(found) ==
    Signal("retrieval", found.confidence,
           Percent(45, One - found.confidence) + Percent(35, found.ambiguity)
           + Percent(20, One - found.coverage),
           found.quality, Max({1, (5 * found.coverage + One \div 2) \div One}))

(* The reflection's confidence and the four supports behind it.              *)
ReflectionSignal(r) ==
    Signal("reflection", r.confidence,
           Percent(60, One - r.confidence)
           + Percent(40, One - (r.evidence + r.relevance + r.retrieval + r.state) \div 4),
           (r.evidence + r.relevance) \div 2, 4)

(* The estimator asks the evolution for a volatility, and evolution_metrics  *)
(* has no such key: the volatility is always the default 0.                  *)
AffectSignal(update) ==
    Signal("affect", update.profile.confidence,
           Percent(45, One - update.profile.confidence) + Percent(35, update.dissonance)
           + Percent(5, update.salience),
           One - Percent(40, update.dissonance), 1)

PlannerSignal(plan) ==
    Signal("planner", Percent(75, plan.confidence) + Percent(25, plan.intent_confidence),
           Percent(75, Within(plan.uncertainty + (IF plan.should_replan THEN 200 ELSE 0)))
           + Percent(25, plan.risk),
           One - Percent(35, plan.risk), Cardinality(plan.reasons) + 1)

StateSignal(overall) == Signal("state", overall, One - overall, One, 1)

Permits(policy, tool) == tool = "none" \/ (policy.external /\ tool \in policy.tools)

PolicySignal(policy, tool) ==
    IF Permits(policy, tool) THEN Signal("policy", 950, 50, One, 1) ELSE Signal("policy", 50, 950, One, 1)

Signals(found, reflected, update, plan, overall, policy) ==
    (IF Responded(found) THEN <<RetrievalSignal(found)>> ELSE <<>>)
    \o (IF reflected = {} THEN <<>> ELSE <<ReflectionSignal(CHOOSE r \in reflected : TRUE)>>)
    \o <<AffectSignal(update), PlannerSignal(plan)>>
    \o (IF overall = None THEN <<>> ELSE <<StateSignal(Within(overall))>>)
    \o <<PolicySignal(policy, plan.tool)>>

(* ----- calibration ----- *)

SourceWeight ==
    [retrieval |-> 125, reflection |-> 100, affect |-> 70, planner |-> 115, state |-> 85, policy |-> 100]

ProfileReliability ==
    [retrieval |-> 950, reflection |-> 900, affect |-> 750, planner |-> 900, state |-> 800, policy |-> 1000]

(* The logistic of the log-odds over the temperature, at every tenth.        *)
Tempered ==
    [reflection |-> <<0, 119, 221, 316, 409, 500, 591, 684, 779, 881, 1000>>,
     affect     |-> <<0, 138, 240, 330, 416, 500, 584, 670, 760, 862, 1000>>,
     policy     |-> <<0, 80, 176, 281, 389, 500, 611, 719, 824, 920, 1000>>]

TemperatureScale(source, confidence) ==
    IF source \in DOMAIN Tempered THEN At(Tempered[source], 100, confidence) ELSE confidence

Calibrated(s) ==
    [s EXCEPT !.confidence = TemperatureScale(s.source, @),
              !.uncertainty = Percent(70, @) + Percent(30, One - ProfileReliability[s.source]),
              !.reliability = Scaled(@, ProfileReliability[s.source])]

(* ----- aggregation ----- *)

EvidenceFactor(s) == Max({250, Min({One, 200 * s.evidence})})

EffectiveWeight(s) == Scaled(Percent(SourceWeight[s.source], s.reliability), EvidenceFactor(s))

Weighted(signals, f(_)) ==
    SumOver(DOMAIN signals, LAMBDA i : f(signals[i]) * EffectiveWeight(signals[i]))
    \div SumOver(DOMAIN signals, LAMBDA i : EffectiveWeight(signals[i]))

Disagreement(signals, mean) ==
    Within(2 * Root(Weighted(signals, LAMBDA s : (s.confidence - mean) * (s.confidence - mean))))

Overall(confidence, uncertainty, disagreement) ==
    [confidence  |-> Within(Scaled(confidence, One - Percent(15, disagreement))),
     uncertainty |-> Within(Percent(75, uncertainty) + Percent(25, disagreement))]

(* The signals are calibrated. Those without any weight are no estimate.     *)
aggregate(signals) ==
    IF SumOver(DOMAIN signals, LAMBDA i : EffectiveWeight(signals[i])) = 0
    THEN [confidence |-> 0, uncertainty |-> One]
    ELSE LET mean == Weighted(signals, LAMBDA s : s.confidence)
         IN  Overall(mean, Weighted(signals, LAMBDA s : s.uncertainty), Disagreement(signals, mean))

CalibratedSignals(found, reflected, update, plan, overall, policy) ==
    LET raw == Signals(found, reflected, update, plan, overall, policy)
    IN  [i \in DOMAIN raw |-> Calibrated(raw[i])]

(* Without a signal of the retrieval the gate takes its default, no doubt.   *)
RetrievalUncertainty(signals) ==
    Max({0} \cup {signals[i].uncertainty : i \in {j \in DOMAIN signals : signals[j].source = "retrieval"}})

(* An estimate: the aggregate, and of the signals what the gate reads.       *)
estimate(signals) ==
    LET overall == aggregate(signals)
    IN  [confidence |-> overall.confidence, uncertainty |-> overall.uncertainty,
         retrieval |-> RetrievalUncertainty(signals)]

(* ----- gate ----- *)

GatePolicy ==
    [reflect |-> 550, retry |-> 700, clarify |-> 850, clarify_confidence |-> 300, deny |-> 750, retries |-> 1]

(* Mutant: the retry looks at the overall uncertainty.                       *)
evaluate_overall(estimated, risk, retries, clarification) ==
    CASE risk >= GatePolicy.deny -> "abstain"
      [] OTHER ->
         IF estimated.uncertainty >= GatePolicy.retry /\ retries < GatePolicy.retries THEN "retry_retrieval"
         ELSE IF estimated.uncertainty >= GatePolicy.reflect THEN "reflect" ELSE "continue"

evaluate(estimated, risk, retries, clarification) ==
    CASE risk >= GatePolicy.deny -> "abstain"
      [] risk < GatePolicy.deny
         /\ \/ clarification
            \/ /\ estimated.uncertainty >= GatePolicy.clarify
               /\ estimated.confidence <= GatePolicy.clarify_confidence -> "ask_for_clarification"
      [] OTHER ->
         IF estimated.retrieval >= GatePolicy.retry /\ retries < GatePolicy.retries THEN "retry_retrieval"
         ELSE IF estimated.uncertainty >= GatePolicy.reflect THEN "reflect" ELSE "continue"
=============================================================================
