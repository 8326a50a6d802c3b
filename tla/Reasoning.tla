------------------------------ MODULE Reasoning ------------------------------
(* Evidence acquisition for one question: the hop loop of                    *)
(* ReasoningController.answer over the retrieval of Retrieval, with the      *)
(* advice of Reflection, and the compression of what it found. The question  *)
(* goes on in one of two ways, an information need that the stopping policy  *)
(* lets pass or an advised query that overrules the stop, and each way has   *)
(* budget checks of its own.                                                 *)
EXTENDS Retrieval, Reflection

CONSTANTS
    Questions,         \* the questions asked, as sequences of words
    Modes,             \* ReasoningMode; the last three differ in the trace alone
    ReflectionNotes,   \* the notes under which reflections are stored
    MaxHops, MaxCalls, MaxDocuments, MaxTokens, NoProgressLimit,
    MaxInterventions, MinConfidence     \* ReasoningBudget

ASSUME BudgetAssumption ==
    /\ {MaxHops, MaxCalls, MaxDocuments, MaxTokens, NoProgressLimit} \subseteq Nat \ {0}
    /\ MaxInterventions \in Nat /\ MinConfidence \in 0 .. One
    /\ ReflectionNotes \subseteq DOMAIN Notes
    /\ Cardinality(ReflectionNotes) >= MaxInterventions

(* The queries that a question can lead to: itself or a name, and the words  *)
(* of each advice behind it.                                                 *)
Advices(k) == [i \in 1 .. Len(Suffix) * k |-> Suffix[1 + ((i - 1) % Len(Suffix))]]
Asked == Questions \cup {<<w>> : w \in DOMAIN Lexicon}
Queries == {q \o Advices(k) : q \in Asked, k \in 0 .. MaxInterventions}

ASSUME QueryAssumption ==
    /\ Questions \subseteq Seq(DOMAIN Lexicon) /\ ToSet(Suffix) \subseteq DOMAIN Lexicon
    /\ \A q \in Queries, n \in DOMAIN Notes : Similarity(q, n) \in -One .. One

VARIABLES
    at,             \* where the loop is
    asked,          \* the request: question, mode and retrieval profile
    stored,         \* the notes in the repository
    keeps,          \* the reflection repository writes into the same index
    query,          \* the query of the coming hop
    tried,          \* attempted_queries
    evidence,       \* evidence_items: the note, its hop and its query
    calls,          \* retrieval_calls
    stale,          \* no_progress_hops
    interventions,  \* reflection_interventions
    confidence,     \* the best retrieval confidence of a hop
    returned,       \* what the stages of the running search have returned
    late,           \* the time budget is used up
    status,         \* the last sufficiency status
    stop,           \* the stop reason
    context         \* the compressed evidence that leaves the phase

loop == <<query, tried, evidence, calls, stale, interventions, confidence, status>>
vars == <<at, asked, stored, keeps, loop, returned, late, stop, context>>

Statuses == {"sufficient", "need_more_evidence", "ambiguous", "contradictory",
             "unanswerable", "error"}

Init ==
    /\ at = "idle" /\ asked = [question |-> <<>>, mode |-> "adaptive", profile |-> "prima_full"]
    /\ stored \in SUBSET DOMAIN Notes /\ keeps \in BOOLEAN
    /\ Cardinality(ReflectionNotes \ stored) >= MaxInterventions
    /\ query = <<>> /\ tried = <<>> /\ evidence = <<>> /\ calls = 0 /\ stale = 0
    /\ interventions = 0 /\ confidence = 0 /\ returned = <<>> /\ late = FALSE
    /\ status = "unanswerable" /\ stop = "" /\ context = <<>>

(* TaskAnalyzer.route; greetings are the questions of small talk alone.      *)
RouteOf(question, mode) ==
    IF mode \in {"bypass", "single_pass"} THEN mode
    ELSE IF question = <<>> THEN "clarify"
    ELSE IF \A w \in ToSet(question) : Lexicon[w].greeting THEN "bypass"
    ELSE "adaptive"

Words(seq) == SumFunction([i \in DOMAIN seq |-> Len(Notes[seq[i].note].words)])

(* ContextCompressor.compress: items in order while words remain; the one    *)
(* that meets the limit is cut short and those behind it are dropped.        *)
Compressed(seq) ==
    SubSeq(seq, 1, Cardinality({i \in DOMAIN seq : Words(SubSeq(seq, 1, i - 1)) < MaxTokens}))

Ask(question, mode, profile) ==
    /\ at = "idle"
    /\ asked' = [question |-> question, mode |-> mode, profile |-> profile]
    /\ LET route == RouteOf(question, mode)
       IN  CASE route = "clarify" -> at' = "done" /\ stop' = "ambiguity" /\ status' = "ambiguous"
             [] route = "bypass"  -> at' = "done" /\ stop' = "bypass" /\ status' = "unanswerable"
             [] OTHER             -> at' = "search" /\ UNCHANGED <<stop, status>>
    /\ query' = question
    /\ UNCHANGED <<stored, keeps, tried, evidence, calls, stale, interventions, confidence,
                   returned, late, context>>

(* ----- one hop ----- *)

(* Mutant: whatever was retrieved is evidence. *)
EligibleAll(n) == TRUE

(* Reflections and rules are stored as notes that may not be cited.          *)
Eligible(n) == Notes[n].eligible

(* The k-th smallest of a set of positions.                                  *)
Nth(S, k) == CHOOSE i \in S : Cardinality({j \in S : j < i}) = k - 1

(* The results that integrate() appends: no source and no text twice, and no *)
(* more than the documents the budget has left.                              *)
Novel(results, found) ==
    LET Twin(m, n) == m = n \/ Notes[m].words = Notes[n].words
        New(i) == /\ Eligible(results[i])
                  /\ \A e \in ToSet(found) : ~Twin(e.note, results[i])
                  /\ \A j \in 1 .. i - 1 : Eligible(results[j]) => ~Twin(results[j], results[i])
        fresh == {i \in DOMAIN results : New(i)}
        room  == Max({0, MaxDocuments - Len(found)})
    IN  [k \in 1 .. Min({room, Cardinality(fresh)}) |-> results[Nth(fresh, k)]]

Conflicting(found) ==
    LET claims == UNION {Notes[e.note].claims : e \in ToSet(found)}
    IN  \E c \in claims : [c EXCEPT !.denied = ~@] \in claims

Coverage(question, found) ==
    LET terms == {w \in ToSet(question) : Lexicon[w].keyword}
        said  == UNION {WordsOf(e.note) : e \in ToSet(found)}
    IN  (One * Cardinality(terms \cap said)) \div Max({1, Cardinality(terms)})

Verify(question, found) ==
    IF found = <<>> THEN "unanswerable"
    ELSE IF Conflicting(found) THEN "contradictory"
    ELSE IF Coverage(question, found) >= 600 THEN "sufficient"
    ELSE "need_more_evidence"

(* InformationNeedGenerator: the first name of the latest item that is not in*)
(* the question and has not been searched for.                               *)
Need(question, found, attempts) ==
    LET Unasked(n) == {i \in DOMAIN Notes[n].names : /\ Notes[n].names[i] \notin ToSet(question)
                                                     /\ <<Notes[n].names[i]>> \notin ToSet(attempts)}
        items == {i \in DOMAIN found : Unasked(found[i].note) # {}}
        latest == found[Max(items)].note
    IN  IF items = {} THEN <<>> ELSE <<Notes[latest].names[Min(Unasked(latest))]>>

(* One search: the strategies, fusion and boost, the reranking and the cut,  *)
(* and what integrate() and the verifier make of the results. Nothing of the *)
(* loop runs between these stages.                                           *)
Open == Searched("factual_qa", stored)

Search ==
    /\ at = "search"
    /\ at' = "score"
    /\ \E a \in {Analyse(query)}, open \in {Open} : returned' \in {Gathered(a, query, open)}
    /\ UNCHANGED <<asked, stored, keeps, loop, late, stop, context>>

Score ==
    /\ at = "score"
    /\ at' = "rank"
    /\ \E a \in {Analyse(query)}, open \in {Open} :
          \E seeds \in {Seeds(returned.dense, returned.sparse)} :
             returned' \in {Scored(query, a, asked.profile, seeds, open, stored)}
    /\ UNCHANGED <<asked, stored, keeps, loop, late, stop, context>>

Rank ==
    /\ at = "rank"
    /\ \E a \in {Analyse(query)}, fused \in {Fuse(returned)} :
        \E scores \in {Boost(a, fused)} :
        \E results \in {Cut(Rerank(query, scores))} :
        \E sure \in {Confidence(query, a, results, scores, returned)} :
           /\ confidence' = Max({confidence, sure})
           /\ returned' = results
    /\ at' = "integrate"
    /\ UNCHANGED <<asked, stored, keeps, query, tried, evidence, calls, stale, interventions,
                   status, late, stop, context>>

Integrate ==
    /\ at = "integrate"
    /\ \E new \in {Novel(returned, evidence)} :
           /\ evidence' = evidence \o [i \in DOMAIN new |->
                              [note |-> new[i], hop |-> Len(tried), query |-> query]]
           /\ stale' = IF new = <<>> THEN stale + 1 ELSE 0
    /\ calls' = calls + 1 /\ tried' = Append(tried, query) /\ returned' = <<>>
    /\ status' = Verify(asked.question, evidence')
    /\ at' = "weigh"
    /\ UNCHANGED <<asked, stored, keeps, query, interventions, confidence, late, stop, context>>

(* The reranker is not the required one, or the repository's fingerprint is  *)
(* invalid, or it fails: the loop ends with an error.                        *)
SearchRaises ==
    /\ at \in {"search", "score", "rank"}
    /\ at' = "done" /\ status' = "error" /\ stop' = "error" /\ context' = Compressed(evidence)
    /\ returned' = <<>>
    /\ UNCHANGED <<asked, stored, keeps, query, tried, evidence, calls, stale, interventions,
                   confidence, late>>

(* Mutant: the call that uses up the budget does not end the loop. *)
StopReasonOneLater(need) ==
    IF status # "need_more_evidence" THEN status
    ELSE IF late THEN "time_budget"
    ELSE IF calls > MaxCalls THEN "max_retrieval_calls"
    ELSE IF Len(tried) >= MaxHops THEN "max_hops"
    ELSE IF Words(evidence) >= MaxTokens THEN "context_budget"
    ELSE IF stale >= NoProgressLimit THEN "no_new_evidence"
    ELSE IF need # <<>> /\ need \in ToSet(tried) THEN "duplicate_query"
    ELSE ""

(* StoppingPolicy.stop_reason, in its order; "" goes on.                     *)
StopReason(need) ==
    IF status # "need_more_evidence" THEN status
    ELSE IF late THEN "time_budget"
    ELSE IF calls >= MaxCalls THEN "max_retrieval_calls"
    ELSE IF Len(tried) >= MaxHops THEN "max_hops"
    ELSE IF Words(evidence) >= MaxTokens THEN "context_budget"
    ELSE IF stale >= NoProgressLimit THEN "no_new_evidence"
    ELSE IF need # <<>> /\ need \in ToSet(tried) THEN "duplicate_query"
    ELSE ""

Finish(reason) ==
    /\ at' = "done" /\ stop' = reason /\ context' = Compressed(evidence)
    /\ UNCHANGED <<asked, stored, keeps, query, tried, evidence, calls, stale, interventions,
                   confidence, returned, late, status>>

GoOn(next) ==
    /\ at' = "search" /\ query' = next
    /\ UNCHANGED <<asked, keeps, tried, evidence, calls, stale, confidence, returned, late, status,
                   stop, context>>

Need0 == IF status = "need_more_evidence" THEN Need(asked.question, evidence, tried) ELSE <<>>

Events == [no_new_evidence |-> "no_new_evidence", duplicate_query |-> "duplicate_query",
           contradictory |-> "contradictory_evidence"]

Advisable(reason) == reason \in DOMAIN Events /\ interventions < MaxInterventions

Weigh ==
    /\ at = "weigh"
    /\ LET reason == StopReason(Need0)
       IN  IF asked.mode = "single_pass" THEN Finish("single_pass")
           ELSE IF reason = "" /\ Need0 = <<>> THEN Finish("unanswerable")
           ELSE IF reason = "" THEN GoOn(Need0) /\ UNCHANGED <<stored, interventions>>
           ELSE IF ~Advisable(reason) THEN Finish(reason)
           ELSE /\ at' = "advise" /\ stop' = reason
                /\ UNCHANGED <<asked, stored, keeps, query, tried, evidence, calls, stale,
                               interventions, confidence, returned, late, status, context>>

(* ----- the advised query ----- *)

(* contains_evaluation_leakage looks for its words in the suggested query    *)
(* too, and so in whatever the user asked.                                   *)
Leaks(words) == \E w \in ToSet(words) : Lexicon[w].telltale

WithinBudget == calls + 1 <= MaxCalls /\ Len(tried) + 1 <= MaxHops

Usable(advice) ==
    /\ advice.trigger
    /\ advice.action \in {"revise_query", "broaden_query", "pivot_entity", "retry_transient_failure"}
    /\ advice.query # <<>> /\ advice.confidence >= MinConfidence /\ ~Leaks(advice.query)
    /\ advice.query \notin ToSet(tried)
    /\ WithinBudget

Reflected ==
    IF keeps THEN stored \cup {Min(ReflectionNotes \ stored)} ELSE stored

(* Mutant: an advice that cannot be used is asked for again. *)
AdviseAgain ==
    /\ at = "advise"
    /\ LET event  == Events[stop]
           advice == AdviceFor(event, ReasoningContext(event, Len(evidence)), query)
       IN  /\ Usable(advice)
           /\ stored' = Reflected /\ interventions' = interventions + 1
           /\ at' = "search" /\ query' = advice.query /\ stop' = ""
    /\ UNCHANGED <<asked, keeps, tried, evidence, calls, stale, confidence, returned, late, status,
                   context>>

(* _advised_query: the engine reflects and stores what it reflected, and its *)
(* advice is taken or the loop stops for the reason it had.                  *)
Advise ==
    /\ at = "advise"
    /\ LET event  == Events[stop]
           advice == AdviceFor(event, ReasoningContext(event, Len(evidence)), query)
       IN  /\ stored' = Reflected /\ interventions' = interventions + 1
           /\ IF Usable(advice) THEN /\ at' = "search" /\ query' = advice.query /\ stop' = ""
                                     /\ UNCHANGED context
              ELSE /\ at' = "done" /\ context' = Compressed(evidence)
                   /\ UNCHANGED <<query, stop>>
    /\ UNCHANGED <<asked, keeps, tried, evidence, calls, stale, confidence, returned, late, status>>

(* Storing the reflection raises, which is no advice.                        *)
AdvisorRaises ==
    /\ at = "advise" /\ keeps
    /\ at' = "done" /\ context' = Compressed(evidence) /\ interventions' = interventions + 1
    /\ UNCHANGED <<asked, stored, keeps, query, tried, evidence, calls, stale, confidence, returned, late,
                   status, stop>>

TimePasses ==
    /\ at \in {"weigh", "advise"} /\ ~late
    /\ late' = TRUE
    /\ UNCHANGED <<at, asked, stored, keeps, loop, returned, stop, context>>

LoopStep ==
    \/ SearchRaises \/ AdvisorRaises \/ Weigh \/ Advise
    \/ Integrate \/ Search \/ Score \/ Rank

Next ==
    \/ \E q \in Questions, m \in Modes, p \in {"simple_rag", "prima_full"} : Ask(q, m, p)
    \/ LoopStep \/ TimePasses

Spec == Init /\ [][Next]_vars

FairSpec == Spec /\ WF_vars(LoopStep)

(* ----- properties ----- *)

(* Only stored memories are cited: nothing that the system wrote about its   *)
(* own failures, a procedure under the full profile alone, whose graph does  *)
(* not tell notes by their type, no passage twice however often and under    *)
(* whatever query it came back, and never more than the budgets let through  *)
(* to the answer. A question found answered has its terms in what was found. *)
EvidenceIsOwn ==
    /\ Len(evidence) <= MaxDocuments
    /\ \A i \in DOMAIN evidence :
        /\ Notes[evidence[i].note].eligible
        /\ Notes[evidence[i].note].type = "procedural" => asked.profile = "prima_full"
        /\ evidence[i].query = tried[evidence[i].hop + 1]
        /\ \A j \in DOMAIN evidence \ {i} :
              Notes[evidence[i].note].words # Notes[evidence[j].note].words
    /\ IsPrefix(context, evidence)
    /\ context # <<>> => Words(SubSeq(context, 1, Len(context) - 1)) < MaxTokens
    /\ status = "sufficient" => /\ evidence # <<>> /\ ~Conflicting(evidence)
                                /\ Coverage(asked.question, evidence) >= 600

(* However a question goes on, by a need of its own or by advice that        *)
(* overrules a stop, no query is sent twice, and hops, retrieval calls and   *)
(* interventions stay within the budget.                                     *)
LoopWithinBudget ==
    /\ Len(tried) <= MaxHops /\ calls <= MaxCalls /\ interventions <= MaxInterventions
    /\ \A i, j \in DOMAIN tried : tried[i] = tried[j] => i = j
    /\ at = "search" => calls < MaxCalls /\ Len(tried) < MaxHops /\ query \notin ToSet(tried)

(* A question that starts to search ends with a reason, although each stop   *)
(* may be overruled.                                                         *)
QuestionEnds == at = "search" ~> at = "done" /\ stop # ""
=============================================================================
