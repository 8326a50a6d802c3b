-------------------------------- MODULE Affect --------------------------------
(* The affect engine: the classifier that turns a text into a profile, and   *)
(* DynamicAffectEngine.process, which moves the emotional state of a session *)
(* and the engine's own history of emotions. Scores are integers over One; a *)
(* dict of scores is a sequence of <<label, score>> in the dict's order,     *)
(* because the dominant emotion is the first of the largest.                 *)
EXTENDS Scores, TLC

(* ----- classifier ----- *)

CANONICAL_EMOTION_ALIASES ==
    [sad |-> "sadness", joy_ecstasy |-> "joy", amazement_surprise |-> "surprise",
     interest_vigilance |-> "surprise", disgust_loathing |-> "disgust", senerity |-> "trust",
     serenity |-> "trust", admire |-> "trust", acceptance |-> "trust", positive |-> "joy",
     negative |-> "sadness"]

OPPOSITE_EMOTIONS ==
    [anticipation |-> "surprise", anger |-> "joy", fear |-> "trust", sadness |-> "joy_ecstasy",
     trust |-> "fear", joy |-> "sad", surprise |-> "anticipation", disgust |-> "joy",
     senerity |-> "distraction", joy_ecstasy |-> "sadness", sad |-> "joy", admire |-> "disgust",
     acceptance |-> "disgust", amazement_surprise |-> "anticipation", distraction |-> "senerity",
     boredom |-> "interest_vigilance", disgust_loathing |-> "joy_ecstasy",
     interest_vigilance |-> "boredom", negative |-> "positive", positive |-> "negative",
     model_strong |-> "model_weak", model_weak |-> "model_strong"]

(* Where the code asks a dict for a key with the key itself as the default.  *)
Mapped(table, label) == IF label \in DOMAIN table THEN table[label] ELSE label

(* The percentage by which a modifier moves the dominant score.              *)
INTENSITY_MODIFIERS ==
    LET By(percent, words) == [w \in words |-> percent]
    IN  [w \in {} |-> 0]
        @@ By(90, {"absolutely", "always", "completely", "deeply", "entirely", "extremely", "fully",
                   "highly", "hugely", "incredible", "incredibly", "intensely", "totally", "truly",
                   "unbelievably"})
        @@ By(80, {"amazingly", "awfully", "especially", "greatly", "most", "really", "so", "super",
                   "thoroughly", "total", "utterly", "very"})
        @@ By(70, {"particularly", "substantially"}) @@ By(60, {"more", "quite"})
        @@ By(-20, {"almost", "not much"})
        @@ By(-30, {"kind of", "kinda", "less", "little", "partly", "slight"})
        @@ By(-40, {"somewhat", "sort of"}) @@ By(-50, {"partially"}) @@ By(-60, {"slightly"})
        @@ By(-70, {"barely", "not very"})

Total(scores) == SumOver(DOMAIN scores, LAMBDA i : Max({0, scores[i][2]}))

Positive(scores) == SelectSeq(scores, LAMBDA s : s[2] > 0)

normalize_scores(scores) ==
    LET total == Total(scores)
    IN  [i \in DOMAIN Positive(scores) |->
            <<Positive(scores)[i][1], (One * Positive(scores)[i][2]) \div total>>]

(* Adding score after score to a dict: labels in order of first occurrence.  *)
AddedTo(dict, pair) ==
    LET at == {i \in DOMAIN dict : dict[i][1] = pair[1]}
    IN  IF at = {} THEN Append(dict, pair) ELSE [dict EXCEPT ![Min(at)][2] = @ + pair[2]]

Collected(pairs) == FoldLeft(AddedTo, <<>>, pairs)

Relabelled(table, scores) ==
    Collected([i \in DOMAIN scores |-> <<Mapped(table, scores[i][1]), scores[i][2]>>])

canonicalize_scores(scores) == normalize_scores(Relabelled(CANONICAL_EMOTION_ALIASES, scores))

map_opposite_emotions(scores) == Relabelled(OPPOSITE_EMOTIONS, scores)

(* A text: hits, the <<label, number of words>> of each lexicon entry it     *)
(* contains, in the lexicon's order; nearest, the labels of the entries      *)
(* whose embedding is nearest; the modifiers in its last five tokens; and    *)
(* whether a token of it is a negation.                                      *)
LexicalMatch(text) ==
    normalize_scores(Collected([i \in DOMAIN text.hits |->
        <<text.hits[i][1], One + Min({500, 100 * text.hits[i][2]})>>]))

(* The labels in the order in which a score by similarity lists them.        *)
SCORE_LABELS ==
    <<"negative", "positive", "neutral", "uncertainty", "litigious", "model_strong", "model_weak",
      "anticipation", "anger", "fear", "sadness", "trust", "senerity", "joy_ecstasy", "joy", "sad",
      "admire", "acceptance", "amazement_surprise", "surprise", "distraction", "boredom",
      "disgust_loathing", "disgust", "interest_vigilance">>

calculate_scores(nearest) ==
    normalize_scores([k \in DOMAIN SCORE_LABELS |->
        <<SCORE_LABELS[k],
          SumOver({i \in DOMAIN nearest : nearest[i] = SCORE_LABELS[k]}, LAMBDA i : 51 - i)>>])

FixedScore(score, modifiers) ==
    FoldSet(LAMBDA m, fixed : Percent(100 + INTENSITY_MODIFIERS[m], fixed), score, modifiers)

(* The scores in ascending order, and among equals in the order they have:   *)
(* the dominant emotion is the last of them.                                 *)
Ascending(scores) ==
    LET order == SortSeq([i \in DOMAIN scores |-> i],
                         LAMBDA i, j : \/ scores[i][2] < scores[j][2]
                                       \/ (scores[i][2] = scores[j][2] /\ i < j))
    IN  [k \in DOMAIN order |-> scores[order[k]]]

resolve_modifiers_and_negations(text, scores) ==
    IF scores = <<>> THEN <<>> ELSE
    LET sorted == Ascending(scores)
        fixed  == [sorted EXCEPT ![Len(sorted)][2] = FixedScore(@, text.modifiers)]
    IN  normalize_scores(IF text.negated THEN map_opposite_emotions(fixed) ELSE fixed)

Scored(text) == IF text.hits # <<>> THEN LexicalMatch(text) ELSE calculate_scores(text.nearest)

Resolved(text) == canonicalize_scores(resolve_modifiers_and_negations(text, Scored(text)))

(* ----- profile ----- *)

EMOTION_PAD_MAP ==
    [joy |-> <<900, 650, 550>>, trust |-> <<650, 250, 500>>, anticipation |-> <<250, 550, 150>>,
     surprise |-> <<50, 850, -100>>, sadness |-> <<-750, -350, -550>>, fear |-> <<-750, 850, -750>>,
     anger |-> <<-650, 800, 550>>, disgust |-> <<-650, 450, 150>>, boredom |-> <<-350, -750, -300>>,
     distraction |-> <<-150, 250, -350>>, uncertainty |-> <<-250, 500, -450>>,
     litigious |-> <<-450, 450, 350>>, model_strong |-> <<350, 150, 450>>,
     model_weak |-> <<-250, 150, -450>>]

PadOf(label) == IF label \in DOMAIN EMOTION_PAD_MAP THEN EMOTION_PAD_MAP[label] ELSE <<0, 0, 0>>

scores_to_pad(scores) ==
    [d \in 1 .. 3 |->
        IF Total(scores) = 0 THEN 0
        ELSE SumOver(DOMAIN scores, LAMBDA i : PadOf(scores[i][1])[d] * scores[i][2]) \div Total(scores)]

(* -p * ln(p) at p = 0, 1/20, ..., 1, and ln(k) for k labels.                *)
PLogP == <<0, 150, 230, 285, 322, 347, 361, 367, 366, 359, 347, 329, 306, 280, 250, 216, 178, 138,
           95, 49, 0>>
Log == <<0, 693, 1099, 1386, 1609, 1792, 1946, 2079>>

(* The confidence of a profile: one minus the entropy of its scores, so a    *)
(* flat profile is unsure and an empty one knows nothing.                    *)
profile_confidence(scores) ==
    CASE Total(scores) = 0 -> 0
      [] Total(scores) > 0 /\ Len(Positive(scores)) = 1 -> One
      [] OTHER -> Within(One - (One * SumOver(DOMAIN scores, LAMBDA i :
                      At(PLogP, 50, (One * scores[i][2]) \div Total(scores)))) \div Log[Len(scores)])

Intensity(scores) == IF scores = <<>> THEN 0 ELSE Max({scores[i][2] : i \in DOMAIN scores})

Dominant(scores) ==
    IF scores = <<>> THEN "neutral"
    ELSE scores[Min({i \in DOMAIN scores : scores[i][2] = Intensity(scores)})][1]

from_scores(scores, confidence) ==
    [emotions |-> scores, dominant |-> Dominant(scores), pad |-> scores_to_pad(scores),
     confidence |-> IF confidence = None THEN profile_confidence(scores) ELSE Within(confidence)]

ClassifyLexicon(text) == from_scores(Resolved(text), None)

(* The GoEmotions adapter. Its classifier gives each of the labels below a   *)
(* probability; the profile holds the core emotions they map to.             *)
PRIMA_CORE_MAP ==
    [admiration |-> "trust", amusement |-> "joy", anger |-> "anger", annoyance |-> "anger",
     approval |-> "trust", caring |-> "trust", confusion |-> "surprise", curiosity |-> "surprise",
     desire |-> "anticipation", disappointment |-> "sadness", disapproval |-> "disgust",
     disgust |-> "disgust", embarrassment |-> "sadness", excitement |-> "joy", fear |-> "fear",
     gratitude |-> "trust", grief |-> "sadness", joy |-> "joy", love |-> "joy",
     nervousness |-> "fear", optimism |-> "anticipation", pride |-> "joy",
     realization |-> "surprise", relief |-> "joy", remorse |-> "sadness", sadness |-> "sadness",
     surprise |-> "surprise", neutral |-> "neutral"]

ClassifyPredicted(text) ==
    LET probabilities == text.probabilities
        core    == Relabelled(PRIMA_CORE_MAP, probabilities)
        neutral == SumOver({i \in DOMAIN core : core[i][1] = "neutral"}, LAMBDA i : core[i][2])
        others  == SelectSeq(core, LAMBDA s : s[1] # "neutral")
        sure    == Max({probabilities[i][2] : i \in DOMAIN probabilities})
    IN  IF neutral >= Intensity(others) THEN from_scores(<<>>, sure)
        ELSE from_scores(normalize_scores(others), sure)

(* ----- PAD ----- *)

Clamped(x) == Max({-One, Min({One, x})})

Zero == <<0, 0, 0>>

distance(p, q) == Root(SumOver(1 .. 3, LAMBDA d : (p[d] - q[d]) * (p[d] - q[d])))

decay(p, factor, base) == [d \in 1 .. 3 |-> Clamped(base[d] + Scaled(factor, p[d] - base[d]))]

merge(p, q, weight) ==
    [d \in 1 .. 3 |-> Clamped((p[d] * (One - Within(weight)) + q[d] * Within(weight)) \div One)]

average_pad(pads) ==
    IF pads = <<>> THEN Zero ELSE [d \in 1 .. 3 |-> MeanOver(DOMAIN pads, LAMBDA i : pads[i][d])]

(* ----- history and evolution ----- *)

(* The engine's history: the PAD states it computed, for whichever session.  *)
HistoryLimit == 50

get_recent(history, count) == SubSeq(history, Max({1, Len(history) - count + 1}), Len(history))

Added(history, pad) == get_recent(Append(history, pad), HistoryLimit)

Step(history, i) == distance(history[i], history[i - 1])

compute_volatility(history) ==
    LET recent == get_recent(history, 6)
    IN  IF Len(recent) < 2 THEN 0
        ELSE Min({One, MeanOver(2 .. Len(recent), LAMBDA i : Step(recent, i))})

compute_velocity(history) == IF Len(history) < 2 THEN 0 ELSE Step(history, Len(history))

compute_acceleration(history) ==
    IF Len(history) < 3 THEN 0 ELSE Step(history, Len(history)) - Step(history, Len(history) - 1)

compute_drift(history, baseline) == IF history = <<>> THEN 0 ELSE distance(Last(history), baseline)

detect_dissonance(history, current, confidence) ==
    LET recent == get_recent(history, 5)
        past   == average_pad(recent)
    IN  IF Len(recent) < 3 THEN 0
        ELSE Min({One, Min({One, distance(past, current) \div 2})
                       + (IF past[1] * current[1] < -50 * One THEN 250 ELSE 0)
                       + (IF confidence < 350 THEN 150 ELSE 0)})

compute_stability(volatility, confidence) == Within(Scaled(One - volatility, 500 + confidence \div 2))

update_momentum(momentum, profile) ==
    LET kept == SelectSeq([i \in DOMAIN momentum |-> <<momentum[i][1], Percent(82, momentum[i][2])>>],
                          LAMBDA s : s[2] > 10)
    IN  Collected(Append(kept, <<profile.dominant, profile.confidence>>))

compute_salience(intensity, novelty, volatility) ==
    Within(Percent(55, intensity) + Percent(25, novelty) + Percent(20, volatility))

NEGATIVE_EMOTIONS == {"sadness", "sad", "fear", "anger", "disgust", "disgust_loathing", "boredom"}

generate_retrieval_priors(profile, salience, volatility) ==
    [boost_emotional_memories |-> salience,
     boost_recent_memories |-> Within(250 + Percent(60, volatility)),
     boost_negative_experiences |->
        Within(SumOver({i \in DOMAIN profile.emotions : profile.emotions[i][1] \in NEGATIVE_EMOTIONS},
                       LAMBDA i : profile.emotions[i][2])),
     boost_stabilizing_memories |-> Max({0, -profile.pad[1]}) \div 2]

(* The reflection signals, each with its strength.                           *)
generate_reflection_signals(profile, dissonance, acceleration, volatility) ==
    (IF dissonance >= 550 THEN {<<"emotional_dissonance", dissonance>>} ELSE {})
    \cup (IF profile.confidence <= 250 THEN {<<"elevated_uncertainty", One - profile.confidence>>} ELSE {})
    \cup (IF profile.pad[1] < -350 /\ acceleration > 250
          THEN {<<"rapid_negative_drift", Within(Abs(profile.pad[1]) + acceleration \div 2)>>} ELSE {})
    \cup (IF volatility >= 550 THEN {<<"emotional_conflict", volatility>>} ELSE {})

(* ----- engine ----- *)

(* The emotional state of a session before its first turn.                   *)
Calm == [pad |-> Zero, baseline |-> Zero, dominant |-> "neutral", momentum |-> <<>>,
         stability |-> One, volatility |-> 0, confidence |-> 0]

NextPad(profile, current) ==
    merge(decay(current.pad, 920, current.baseline), profile.pad, 450 + Percent(25, profile.confidence))

(* What process() makes of a profile: current is the emotional state of the  *)
(* session, history the engine's before this text.                           *)
process(profile, current, history) ==
    LET pad        == NextPad(profile, current)
        recent     == Added(history, pad)
        volatility == compute_volatility(recent)
        dissonance == detect_dissonance(history, profile.pad, profile.confidence)
        salience   == compute_salience(Intensity(profile.emotions),
                                       distance(pad, average_pad(get_recent(recent, 5))), volatility)
    IN  [profile |-> profile, history |-> recent, dissonance |-> dissonance, salience |-> salience,
         emotional |-> [pad |-> pad, baseline |-> current.baseline, dominant |-> profile.dominant,
                        momentum |-> update_momentum(current.momentum, profile),
                        stability |-> compute_stability(volatility, profile.confidence),
                        volatility |-> volatility, confidence |-> profile.confidence],
         priors  |-> generate_retrieval_priors(profile, salience, volatility),
         evolution |-> [velocity |-> compute_velocity(recent),
                        acceleration |-> compute_acceleration(recent),
                        drift |-> compute_drift(recent, current.baseline)],
         signals |-> generate_reflection_signals(profile, dissonance, compute_acceleration(recent), volatility)]
=============================================================================
