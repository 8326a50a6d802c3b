-------------------------- MODULE ProviderSession --------------------------
(***************************************************************************)
(* The one model client of a campaign, shared by its threads: the chat     *)
(* call with its retries (llm/llm_client.py), the token bucket             *)
(* (llm/rate_limiter.py), the provider adapters as their callers see them  *)
(* (llm/provider.py) and the bound on active requests with its response    *)
(* cache (benchmarks/campaign/provider_session.py).                        *)
(*                                                                         *)
(* A prompt stands for everything the cache key is made of.  A response is *)
(* "clean" or one that validate_output refuses.  Time counts in ticks from *)
(* the construction of the client.                                         *)
(***************************************************************************)
EXTENDS Naturals, FiniteSets, FiniteSetsExt, Functions

CONSTANTS
    Threads,      \* the threads that share the client
    Prompts,
    Limit,        \* max_gpu_requests
    Retries,      \* retries of the generation configuration
    Capacity,     \* rate_limit_per_minute
    Fill,         \* ticks in which one token is refilled
    MaxTime,      \* bound on the clock
    None

\* What a send comes back with: a text, a ProviderError (perhaps a timeout), or
\* an exception of another class, which the client does not retry.
Texts == {"clean", "refused"}
Failures == {"error", "timeout", "other"}

ASSUME SessionAssumption ==
    /\ Limit \in Nat \ {0} /\ Retries \in Nat
    /\ Capacity \in Nat \ {0} /\ Fill \in Nat \ {0} /\ MaxTime \in Nat
    /\ IsFiniteSet(Threads) /\ None \notin Prompts \cup Texts

Stages == {"idle", "asking", "waiting", "sending", "backoff", "answered", "raised"}
Idle == [stage |-> "idle", prompt |-> None, attempt |-> 0]

VARIABLES
    call,       \* where each thread is in LLMClient.chat
    cache,      \* the text cached for each prompt, or None
    tally,      \* the session's counters; successes by prompt
    bucket      \* the rate limiter: tokens, time of the last refill; the clock; tokens granted

session == <<call, cache, tally, bucket>>

NoTally == [attempts |-> 0, successes |-> [p \in Prompts |-> 0],
            timeouts |-> 0, retries |-> 0, hits |-> 0, maxActive |-> 0]
FullBucket == [tokens |-> Capacity, last |-> 0, now |-> 0, granted |-> 0]

SessionInit ==
    /\ call = [t \in Threads |-> Idle]
    /\ cache = [p \in Prompts |-> None]
    /\ tally = NoTally
    /\ bucket = FullBucket

\* A new client of a new process.
Renew ==
    /\ call' = [t \in Threads |-> Idle]
    /\ cache' = [p \in Prompts |-> None]
    /\ tally' = NoTally
    /\ bucket' = FullBucket

Sending == {t \in Threads : call[t].stage = "sending"}

Reaches(t, stage) == call' = [call EXCEPT ![t].stage = stage]

-----------------------------------------------------------------------------
(* chat: one token for every attempt, then the provider, then validate_output. *)

Chat(t, p) ==
    /\ call[t].stage = "idle"
    /\ call' = [call EXCEPT ![t] = [stage |-> "asking", prompt |-> p, attempt |-> 0]]
    /\ UNCHANGED <<cache, tally, bucket>>

\* RateLimiter.allow; a refill that rounds to nothing leaves `last` alone.
Refill == (bucket.now - bucket.last) \div Fill
\* Mutant: the time of the last refill is never moved on.
RefilledTwice == [bucket EXCEPT !.tokens = Min({Capacity, @ + Refill})]
Refilled ==
    IF Refill > 0
    THEN [bucket EXCEPT !.tokens = Min({Capacity, @ + Refill}), !.last = bucket.now]
    ELSE bucket

Granted(t) ==
    /\ call[t].stage = "asking"
    /\ Refilled.tokens >= 1
    /\ bucket' = [Refilled EXCEPT !.tokens = @ - 1, !.granted = @ + 1]
    /\ Reaches(t, "waiting")
    /\ UNCHANGED <<cache, tally>>

\* RuntimeError, which ends the chat even between two retries.
Limited(t) ==
    /\ call[t].stage = "asking"
    /\ Refilled.tokens < 1
    /\ bucket' = Refilled
    /\ Reaches(t, "raised")
    /\ UNCHANGED <<cache, tally>>

Verdict(text) == IF text = "clean" THEN "answered" ELSE "raised"

\* _BoundedProvider.send: a permit, then the cache, both before the request leaves.
Permitted == Cardinality(Sending) < Limit

CacheHit(t) ==
    /\ call[t].stage = "waiting" /\ Permitted
    /\ cache[call[t].prompt] # None
    /\ tally' = [tally EXCEPT !.hits = @ + 1]
    /\ Reaches(t, Verdict(cache[call[t].prompt]))
    /\ UNCHANGED <<cache, bucket>>

Send(t) ==
    /\ call[t].stage = "waiting" /\ Permitted
    /\ cache[call[t].prompt] = None
    /\ tally' = [tally EXCEPT !.attempts = @ + 1,
                              !.retries = @ + Min({1, call[t].attempt}),
                              !.maxActive = Max({@, Cardinality(Sending) + 1})]
    /\ Reaches(t, "sending")
    /\ UNCHANGED <<cache, bucket>>

\* Mutant: the response is never cached.
Unkept(t, text) == cache
\* The response is cached before the client validates its text.
Kept(t, text) == [cache EXCEPT ![call[t].prompt] = text]

SendReturns(t, text) ==
    /\ call[t].stage = "sending"
    /\ cache' = Kept(t, text)
    /\ tally' = [tally EXCEPT !.successes[call[t].prompt] = @ + 1]
    /\ Reaches(t, Verdict(text))
    /\ UNCHANGED bucket

AfterFailure(t, failure) ==
    IF failure # "other" /\ call[t].attempt < Retries THEN "backoff" ELSE "raised"

SendFails(t, failure) ==
    /\ call[t].stage = "sending"
    /\ tally' = [tally EXCEPT !.timeouts = @ + IF failure = "timeout" THEN 1 ELSE 0]
    /\ Reaches(t, AfterFailure(t, failure))
    /\ UNCHANGED <<cache, bucket>>

Retry(t) ==
    /\ call[t].stage = "backoff"
    /\ call' = [call EXCEPT ![t].stage = "asking", ![t].attempt = @ + 1]
    /\ UNCHANGED <<cache, tally, bucket>>

\* The chat is over: its caller takes the answer or the exception.
Ended(t) == call[t].stage \in {"answered", "raised"}

Tick ==
    /\ bucket.now < MaxTime
    /\ bucket' = [bucket EXCEPT !.now = @ + 1]
    /\ UNCHANGED <<call, cache, tally>>

ChatProceeds(t) ==
    \/ Granted(t)
    \/ Limited(t)
    \/ CacheHit(t)
    \/ Send(t)
    \/ \E text \in Texts : SendReturns(t, text)
    \/ \E failure \in Failures : SendFails(t, failure)
    \/ Retry(t)

-----------------------------------------------------------------------------
\* With one permit, as every local provider is run, no prompt is answered twice
\* by the provider: the lookup and the send are under the same permit.
AnsweredOnce == Limit = 1 => \A p \in Prompts : tally.successes[p] <= 1

\* Up to any moment the bucket has granted its capacity and one token for each
\* interval that has passed, and no more.
GrantsWithinRate == bucket.granted * Fill <= Capacity * Fill + bucket.now
=============================================================================
