------------------------------ MODULE MCRuntime ------------------------------
(* An instance of Runtime for TLC. *)
EXTENDS Runtime, TLC

Setting(mode, memory, state, owned, rerank, maintain) ==
    [mode |-> mode, memory |-> memory, state |-> state, owned |-> owned, rerank |-> rerank,
     maintain |-> maintain]

\* A test runtime, one that was given its supervisor, and one in production with its
\* reranker and its maintenance switched off.  The last is never constructed.
EverySetting ==
    {Setting("test", "in_memory", "in_memory", TRUE, TRUE, TRUE),
     Setting("test", "in_memory", "in_memory", FALSE, TRUE, TRUE),
     Setting("production", "chroma", "json", TRUE, FALSE, FALSE),
     Setting("production", "in_memory", "json", TRUE, TRUE, TRUE)}

\* One caller asks or converses, the other ingests.
CONSTANTS c1, c2

EveryRequest ==
    c1 :> {<<"conversation_full", TRUE, "process">>, <<"factual_rag", FALSE, "execute">>} @@
    c2 :> {<<"ingestion", TRUE, "ingest">>, <<"invalid", TRUE, "execute">>}
=============================================================================
