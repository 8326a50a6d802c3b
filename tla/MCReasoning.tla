----------------------------- MODULE MCReasoning -----------------------------
(* Reasoning over seven notes: a chain of two facts, a passage stored twice, *)
(* a contradiction, a procedure and two reflections.                         *)
EXTENDS Reasoning

Plain == [concepts |-> {}, name |-> FALSE, keyword |-> TRUE, days |-> 0, operator |-> FALSE,
          expands |-> {}, greeting |-> FALSE, telltale |-> FALSE]
Name == [Plain EXCEPT !.name = TRUE]

MCLexicon == [ada |-> Name, acme |-> Name, bob |-> Name, led |-> Plain,
    mentor |-> [Plain EXCEPT !.concepts = {"relationship"}, !.expands = {"led"}],
    relationship |-> [Plain EXCEPT !.expands = {"mentor", "led"}],
    temporal |-> [Plain EXCEPT !.expands = {"before"}],
    before |-> [Plain EXCEPT !.concepts = {"temporal"}, !.operator = TRUE, !.days = 300],
    who |-> [Plain EXCEPT !.keyword = FALSE], hello |-> [Plain EXCEPT !.greeting = TRUE],
    gold |-> [Plain EXCEPT !.telltale = TRUE], city |-> Plain,
    additional |-> Plain, independent |-> Plain, context |-> Plain,
    verify |-> Plain, evidence |-> Plain]

Note(words, names) == [type |-> "episodic", words |-> words, names |-> names, claims |-> {},
                       eligible |-> TRUE, age |-> 400]
Claim(denied) == [subject |-> "acme", value |-> "city", denied |-> denied]

MCNotes == <<
    Note(<<"ada", "led", "acme">>, <<"acme", "ada">>),
    [Note(<<"acme", "mentor", "bob", "city">>, <<"acme", "bob">>) EXCEPT !.claims = {Claim(FALSE)}],
    Note(<<"ada", "led", "acme">>, <<"acme", "ada">>),
    [Note(<<"acme", "before", "context">>, <<"acme">>) EXCEPT !.claims = {Claim(TRUE)}, !.age = 100],
    [Note(<<"mentor", "ada", "who">>, <<"ada">>) EXCEPT !.type = "procedural"],
    [Note(<<"verify", "evidence", "ada">>, <<>>) EXCEPT !.eligible = FALSE],
    [Note(<<"verify", "context">>, <<>>) EXCEPT !.eligible = FALSE] >>

MCQuestions == {<<>>, <<"hello">>, <<"who", "ada", "mentor", "city">>,
                <<"gold", "ada", "acme", "before">>, <<"bob", "independent", "additional">>}
MCReflectionNotes == {6, 7}

(* The cosine follows the words in common and is negative without any.       *)
MCSimilarity(q, n) ==
    LET common == Cardinality(ToSet(q) \cap WordsOf(n))
    IN  IF common = 0 THEN -200 ELSE Min({One, 250 * common})
=============================================================================
