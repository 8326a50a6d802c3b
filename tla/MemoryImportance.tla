--------------------------- MODULE MemoryImportance ---------------------------
(* MemoryImportanceEngine.decide: whether a turn is important enough to be   *)
(* kept as episodic memory. Scores are integers over One. A text is the set  *)
(* of its tokens and what the relevance rules find in it; a note is the set  *)
(* of its tokens, and the keywords of a text are its tokens but the ones     *)
(* that recurrence leaves out.                                               *)
EXTENDS Scores

Threshold == 550

Weights == [novelty |-> 350, emotional_salience |-> 250, user_relevance |-> 150, recurrence |-> 150,
            reflection |-> 100]

RECURRENCE_STOPWORDS ==
    {"and", "for", "from", "the", "with", "about", "after", "before", "into", "this", "that"}

(* Mutant: the tokens that both have count twice.                            *)
OverlapOfSum(words, note) ==
    (One * Cardinality(words \cap note)) \div Max({1, Cardinality(words) + Cardinality(note)})

Overlap(words, note) ==
    (One * Cardinality(words \cap note)) \div Max({1, Cardinality(words \cup note)})

(* nearest holds the notes nearest to the text by embedding.                 *)
novelty_score(words, nearest) ==
    CASE nearest = {} -> One
      [] nearest # {} /\ words = {} -> 0
      [] OTHER -> One - Max({Overlap(words, note) : note \in nearest})

HIGH_SALIENCE_EMOTIONS == {"joy", "fear", "anger", "sadness", "surprise"}
LOW_SALIENCE_EMOTIONS == {"neutral", "trust", "acceptance", "senerity", "serenity"}

EmotionWeight(emotion) ==
    CASE emotion \in HIGH_SALIENCE_EMOTIONS -> 850
      [] emotion \in LOW_SALIENCE_EMOTIONS -> 350
      [] OTHER -> 550

(* The arousal is that of the state the update made, and a salience of zero  *)
(* is replaced by a third for each of the text's strong words.               *)
emotional_salience_score(text, update) ==
    LET salience == IF update.salience # 0 THEN update.salience
                    ELSE Within((One * Cardinality(text.strong)) \div 3)
    IN  Within(100 + Percent(45, salience) + Percent(25, update.profile.confidence)
               + Percent(20, Abs(update.emotional.pad[2])) + Percent(10, EmotionWeight(update.profile.dominant)))

(* relevance holds what the rules find in the text.                          *)
RelevanceOf == [term |-> 550, first_person |-> 300, wish |-> 250, low |-> -200]

user_relevance_score(text) == Within(SumOver(text.relevance, LAMBDA r : RelevanceOf[r]))

(* notes is a sequence here: a note that is stored twice is two mentions.    *)
Mentions(words, notes) ==
    Cardinality({i \in DOMAIN notes : (words \ RECURRENCE_STOPWORDS) \cap notes[i] # {}})

recurrence_score(words, notes) == Within((One * Mentions(words, notes)) \div 5)

(* reflected holds at most one result: should, lift (whether the reflection  *)
(* raised the confidence by .15) and the reasons that triggered it.          *)
reflection_score(reflected) ==
    IF reflected = {} THEN 0
    ELSE LET r == CHOOSE x \in reflected : TRUE
         IN  Within((IF r.should THEN 450 ELSE 0) + (IF r.should /\ r.lift >= 150 THEN 250 ELSE 0)
                    + 150 * Cardinality(r.reasons \cap {"low_confidence", "retrieval_ambiguity", "contradiction"}))

Importance(text, update, reflected, notes, nearest) ==
    Within(Scaled(Weights.novelty, novelty_score(text.words, nearest))
        + Scaled(Weights.emotional_salience, emotional_salience_score(text, update))
        + Scaled(Weights.user_relevance, user_relevance_score(text))
        + Scaled(Weights.recurrence, recurrence_score(text.words, notes))
        + Scaled(Weights.reflection, reflection_score(reflected)))

decide(text, update, reflected, notes, nearest) ==
    Importance(text, update, reflected, notes, nearest) >= Threshold
===============================================================================
