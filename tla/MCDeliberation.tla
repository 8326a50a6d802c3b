---------------------------- MODULE MCDeliberation ----------------------------
(* Three sessions, two of which state constraints of their own; a flat text, *)
(* an afraid one and a gloomy one; evidence from none to strong; and plans   *)
(* without tools, with permitted ones and with a blocked one behind one.     *)
EXTENDS Deliberation

Session(overall, explicit, stated) ==
    [overall |-> overall, explicit |-> explicit, priority |-> "none", rank |-> None, stated |-> stated]

MCSettled ==
    [free  |-> Session(None, None, <<>>),
     bound |-> Session(100, 0, <<[text |-> "ask first", marks |-> Marks]>>),
     strict |-> Session(0, 800, <<[text |-> "reflect, no tools", marks |-> {"tools", "reflection"}]>>)]

Text(words, relevance, hits, nearest) ==
    [words |-> words, relevance |-> relevance, strong |-> {}, urgent |-> FALSE, audit |-> FALSE,
     telltale |-> FALSE, hits |-> hits, nearest |-> nearest, modifiers |-> {}, negated |-> FALSE,
     probabilities |-> <<>>]

Flat == Text({"weather", "today"}, {"low"}, <<>>, <<"fear", "anger", "joy", "trust", "surprise", "sad">>)
Afraid == [Text({"my", "plan", "ada"}, {"term", "first_person", "wish"}, <<<<"fear", 1>>>>, <<>>)
             EXCEPT !.modifiers = {"very"}]
Gloomy == [Text({"my", "job"}, {"term", "first_person"}, <<<<"fear", 2>>, <<"sadness", 1>>>>, <<>>)
              EXCEPT !.audit = TRUE, !.urgent = TRUE]

Plain == [type |-> "str", number |-> 0, length |-> 5, plain |-> TRUE]
Call(tool, args) == ToolInvocation(tool, {"read_only"}, args)
Search == Call("search", [message |-> Plain])

MCRegistry ==
    [search |-> [kinds |-> {"tool_call"}, tags |-> {"read_only"},
                 schema |-> [message |-> [type |-> "str", required |-> TRUE, allowed |-> {},
                     min_value |-> Unlimited, max_value |-> Unlimited, min_length |-> Unlimited,
                     max_length |-> 20, allow_empty |-> FALSE]]]]

MCPolicy ==
    [external |-> TRUE, sandbox |-> TRUE, environment |-> FALSE, max_invocations |-> 3,
     tools |-> {"search", "mail"}, blocked |-> {"mail"}, tags |-> {}]

Ask(session, text, attached) ==
    [session |-> session, text |-> text, attached |-> attached,
     task |-> IF attached = <<>> THEN "conversation" ELSE "tool_request"]

MCRequests ==
    {Ask("free", t, <<>>) : t \in {Flat, Afraid, Gloomy}}
    \cup {Ask("bound", Gloomy, <<>>), Ask("strict", Flat, <<>>),
          Ask("bound", Afraid, <<Search>>), Ask("free", Gloomy, <<Search, Search>>),
          Ask("free", Flat, <<Search, Call("mail", [message |-> Plain])>>),
          Ask("free", Afraid, <<Call("search", [other |-> Plain])>>)}

Found(confidence, ambiguity, coverage, quality, memories, stop) ==
    [confidence |-> confidence, ambiguity |-> ambiguity, coverage |-> coverage, quality |-> quality,
     memories |-> memories, stop |-> stop]

Unanswered == Found(None, 0, 0, 0, 0, "error")

MCFounds ==
    {Unanswered, Found(0, One, 0, 0, 0, "no_new_evidence"), Found(0, One, 0, 0, 0, "max_hops"),
     Found(280, 950, 400, 300, 2, "error"), Found(450, 900, 600, 450, 3, "budget_exhausted"), Found(800, 500, One, 850, 5, "sufficient")}

(* A fresh engine, one that other sessions left in fear, and an elated one.  *)
MCHistories ==
    {<<>>, [i \in 1 .. 3 |-> <<-700, 700, -600>>],
     <<EMOTION_PAD_MAP["fear"]>> \o [i \in 1 .. 4 |-> EMOTION_PAD_MAP["joy"]]}

MCMemories ==
    {<<>>, <<{"my", "plan", "ada"}, {"ada"}, {"plan"}, {"plan", "bob"}, {"ada", "bob"}>>}
MCAnswer == {"sure"}
===============================================================================
