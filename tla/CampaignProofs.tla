---------------------------- MODULE CampaignProofs ----------------------------
(***************************************************************************)
(* Theorems about Campaign and the ProviderSession in it, for any modes,   *)
(* cases, prompts and configurations, any retries, rate and pool size, and *)
(* any number of kills, signals and resumes.                               *)
(*                                                                         *)
(* The first part is about the session alone: what a step of a campaign    *)
(* does to it is a SessionMove.  The second is about the manifests.        *)
(***************************************************************************)
EXTENDS Campaign, FiniteSetTheorems, TLAPS

Counters == {"attempts", "successes", "timeouts", "retries", "hits", "maxActive"}

CallRecord == [stage : Stages, prompt : Prompts \cup {None}, attempt : Nat]

\* Whoever is in a chat has a prompt.
Chatting ==
    /\ call \in [Threads -> CallRecord]
    /\ \A t \in Threads : call[t].stage # "idle" => call[t].prompt \in Prompts

Counted ==
    /\ cache \in [Prompts -> Texts \cup {None}]
    /\ tally = [f \in Counters |-> tally[f]]
    /\ tally.successes \in [Prompts -> Nat]

\* With one permit there is one request on its way, for a prompt that nobody has cached,
\* and what is not cached has not been answered.
Alone ==
    Limit = 1 =>
        /\ \A t \in Sending : cache[call[t].prompt] = None
        /\ \A t, u \in Sending : t = u
        /\ \A p \in Prompts :
             /\ tally.successes[p] <= 1
             /\ cache[p] = None => tally.successes[p] = 0

\* What was granted and what is left came in by the last refill.
Metered ==
    /\ bucket \in [tokens : Nat, last : Nat, now : Nat, granted : Nat]
    /\ bucket.last <= bucket.now
    /\ (bucket.tokens + bucket.granted) * Fill <= Capacity * Fill + bucket.last

SessionInv == Chatting /\ Counted /\ Alone

\* Callers whose process or whose mode has ended.
Drop(ended) ==
    /\ call' = [t \in Threads |-> IF t \in ended THEN Idle ELSE call[t]]
    /\ UNCHANGED <<cache, tally, bucket>>

SessionMove ==
    \/ Renew \/ Tick
    \/ \E t \in Threads, p \in Prompts : Chat(t, p)
    \/ \E t \in Threads : ChatProceeds(t)
    \/ \E ended \in SUBSET Threads : Drop(ended)

-----------------------------------------------------------------------------
(* The rate limiter. *)

LEMMA Lesser ==
    ASSUME NEW a \in Nat, NEW b \in Nat
    PROVE  Min({a, b}) \in {a, b} /\ Min({a, b}) <= a /\ Min({a, b}) <= b
<1>1. \E x \in {a, b} : \A y \in {a, b} : x <= y
  OBVIOUS
<1> QED
  BY <1>1 DEF Min

LEMMA WholeFills ==
    ASSUME NEW a \in Nat, NEW f \in Nat \ {0}
    PROVE  a \div f \in Nat /\ (a \div f) * f <= a
  BY SMTT(20)

\* A refill adds no more than one token for each interval since the last one.
LEMMA RefillMeters ==
    ASSUME Metered
    PROVE  /\ Refilled \in [tokens : Nat, last : Nat, now : Nat, granted : Nat]
           /\ Refilled.last <= Refilled.now /\ Refilled.now = bucket.now
           /\ Refilled.granted = bucket.granted
           /\ (Refilled.tokens + bucket.granted) * Fill <= Capacity * Fill + Refilled.last
<1> DEFINE passed == bucket.now - bucket.last
<1>1. passed \in Nat /\ Fill \in Nat \ {0} /\ Capacity \in Nat
  BY SessionAssumption DEF Metered
<1>2. Refill \in Nat /\ Refill * Fill <= passed
  BY <1>1, WholeFills DEF Refill
<1>3. CASE Refill > 0
  <2> DEFINE added == bucket.tokens + Refill
             kept == Min({Capacity, added})
  <2>1. added \in Nat /\ kept \in Nat /\ kept <= added
    BY <1>1, <1>2, Lesser DEF Metered
  <2>2. Refilled = [bucket EXCEPT !.tokens = kept, !.last = bucket.now]
    BY <1>3 DEF Refilled
  <2>3. (kept + bucket.granted) * Fill <= (added + bucket.granted) * Fill
    <3>1. ASSUME NEW a \in Nat, NEW b \in Nat, NEW g \in Nat, NEW f \in Nat, a <= b
          PROVE  (a + g) * f <= (b + g) * f
      BY <3>1
    <3> HIDE DEF kept, added
    <3> QED
      BY <1>1, <2>1, <3>1 DEF Metered
  <2>4. (added + bucket.granted) * Fill = (bucket.tokens + bucket.granted) * Fill + Refill * Fill
    BY <1>1, <1>2 DEF Metered
  <2>5. (kept + bucket.granted) * Fill <= Capacity * Fill + bucket.now
    <3> DEFINE a == (kept + bucket.granted) * Fill
               b == (added + bucket.granted) * Fill
               d == (bucket.tokens + bucket.granted) * Fill
               r == Refill * Fill
               k == Capacity * Fill
    <3>1. /\ a \in Nat /\ b \in Nat /\ d \in Nat /\ r \in Nat /\ k \in Nat
          /\ bucket.now \in Nat /\ bucket.last \in Nat
      BY <1>1, <1>2, <2>1 DEF Metered
    <3>2. a <= b /\ b = d + r /\ r <= bucket.now - bucket.last /\ d <= k + bucket.last
      BY <1>2, <2>3, <2>4 DEF Metered
    <3> HIDE DEF a, b, d, r, k
    <3>3. a <= k + bucket.now
      BY <3>1, <3>2
    <3> QED
      BY <3>3 DEF a, k
  <2> HIDE DEF kept
  <2>6. /\ Refilled \in [tokens : Nat, last : Nat, now : Nat, granted : Nat]
        /\ Refilled.tokens = kept /\ Refilled.last = bucket.now /\ Refilled.now = bucket.now
        /\ Refilled.granted = bucket.granted
    BY <2>1, <2>2 DEF Metered
  <2> QED
    BY <2>5, <2>6
<1>4. CASE ~(Refill > 0)
  BY <1>4 DEF Refilled, Metered
<1> QED
  BY <1>3, <1>4

LEMMA MoveMeters == Metered /\ SessionMove => Metered'
<1> SUFFICES ASSUME Metered, SessionMove
             PROVE  Metered'
  OBVIOUS
<1>0. Capacity \in Nat /\ Fill \in Nat
  BY SessionAssumption
<1>1. CASE bucket' = bucket
  BY <1>1 DEF Metered
<1>2. CASE bucket' = FullBucket
  BY <1>0, <1>2 DEF Metered, FullBucket
<1>3. CASE Tick
  BY <1>3 DEF Tick, Metered
<1>4. CASE bucket' = Refilled
  BY <1>4, RefillMeters DEF Metered
<1>5. CASE /\ Refilled.tokens >= 1
           /\ bucket' = [Refilled EXCEPT !.tokens = @ - 1, !.granted = @ + 1]
  <2> DEFINE b == Refilled
  <2>1. /\ b \in [tokens : Nat, last : Nat, now : Nat, granted : Nat]
        /\ b.last <= b.now /\ (b.tokens + b.granted) * Fill <= Capacity * Fill + b.last
    BY RefillMeters
  <2>2. b.tokens >= 1 /\ bucket' = [b EXCEPT !.tokens = @ - 1, !.granted = @ + 1]
    BY <1>5
  <2> HIDE DEF b
  <2>3. /\ bucket' \in [tokens : Nat, last : Nat, now : Nat, granted : Nat]
        /\ bucket'.last = b.last /\ bucket'.now = b.now
        /\ bucket'.tokens + bucket'.granted = b.tokens + b.granted
    <3>1. /\ bucket'.tokens = b.tokens - 1 /\ bucket'.granted = b.granted + 1
          /\ bucket'.last = b.last /\ bucket'.now = b.now
      BY <2>1, <2>2
    <3>2. b.tokens \in Nat /\ b.granted \in Nat /\ b.tokens - 1 \in Nat /\ b.granted + 1 \in Nat
      BY <2>1, <2>2
    <3>3. bucket' \in [tokens : Nat, last : Nat, now : Nat, granted : Nat]
      BY <2>1, <2>2, <3>2
    <3> QED
      BY <3>1, <3>2, <3>3
  <2> QED
    BY <2>1, <2>3 DEF Metered
<1>6. SessionMove => \/ bucket' = bucket \/ bucket' = FullBucket \/ Tick \/ bucket' = Refilled
                     \/ /\ Refilled.tokens >= 1
                        /\ bucket' = [Refilled EXCEPT !.tokens = @ - 1, !.granted = @ + 1]
  BY DEF SessionMove, Renew, Chat, ChatProceeds, Granted, Limited, CacheHit, Send, SendReturns,
         SendFails, Retry, Drop
<1> QED
  BY <1>1, <1>2, <1>3, <1>4, <1>5, <1>6

-----------------------------------------------------------------------------
(* The cache under one permit. *)

\* A step inside a chat: the thread stays with its prompt.
LEMMA ReachesChats ==
    ASSUME Chatting, NEW t \in Threads, NEW stage \in Stages,
           call[t].stage # "idle", Reaches(t, stage)
    PROVE  /\ Chatting' /\ call'[t].stage = stage /\ call'[t].prompt = call[t].prompt
           /\ \A u \in Threads : u # t => call'[u] = call[u]
  BY DEF Chatting, Reaches, CallRecord

LEMMA IdleIsCall == Idle \in CallRecord /\ Idle.stage = "idle"
  BY DEF Idle, CallRecord, Stages

\* Nobody begins to send, and nothing is cached or counted.
LEMMA QuietStaysAlone ==
    ASSUME Alone, cache' = cache, tally'.successes = tally.successes,
           \A t \in Threads : call'[t].stage = "sending" => call'[t] = call[t]
    PROVE  Alone'
<1>1. \A t \in Sending' : t \in Sending /\ call'[t] = call[t]
  BY DEF Sending
<1> QED
  BY <1>1 DEF Alone

\* Fields of the tally that no claim is about.
LEMMA TallyKeeps ==
    ASSUME Counted, NEW a, NEW b, NEW c, NEW d, cache' = cache,
           \/ tally' = [tally EXCEPT !.attempts = a, !.retries = b, !.maxActive = c]
           \/ tally' = [tally EXCEPT !.hits = d]
           \/ tally' = [tally EXCEPT !.timeouts = d]
           \/ tally' = tally
    PROVE  Counted' /\ tally'.successes = tally.successes
<1>1. tally' = [f \in Counters |-> tally'[f]] /\ tally'.successes = tally.successes
  BY DEF Counted, Counters
<1> QED
  BY <1>1 DEF Counted

LEMMA ChatProceedsKeeps ==
    ASSUME SessionInv, NEW t \in Threads, ChatProceeds(t)
    PROVE  SessionInv'
<1>0. Chatting /\ Counted /\ Alone
  BY DEF SessionInv
<1>1. CASE Granted(t) \/ Limited(t) \/ Retry(t)
  <2>1. Chatting' /\ \A u \in Threads : call'[u].stage = "sending" => call'[u] = call[u]
    <3>1. CASE Granted(t)
      <4>1. Reaches(t, "waiting") /\ call[t].stage # "idle" /\ "waiting" \in Stages
        BY <3>1 DEF Granted, Stages
      <4> QED
        BY <4>1, <1>0, ReachesChats
    <3>2. CASE Limited(t)
      <4>1. Reaches(t, "raised") /\ call[t].stage # "idle" /\ "raised" \in Stages
        BY <3>2 DEF Limited, Stages
      <4> QED
        BY <4>1, <1>0, ReachesChats
    <3>3. CASE Retry(t)
      <4>1. call' = [call EXCEPT ![t].stage = "asking", ![t].attempt = @ + 1]
            /\ call[t].stage = "backoff"
        BY <3>3 DEF Retry
      <4>2. call' \in [Threads -> CallRecord] /\ call'[t].stage = "asking"
            /\ call'[t].prompt = call[t].prompt /\ \A u \in Threads : u # t => call'[u] = call[u]
        BY <4>1, <1>0 DEF Chatting, CallRecord, Stages
      <4> QED
        BY <4>1, <4>2, <1>0 DEF Chatting
    <3> QED
      BY <1>1, <3>1, <3>2, <3>3
  <2>2. cache' = cache /\ tally' = tally
    BY <1>1 DEF Granted, Limited, Retry
  <2>3. Counted' /\ Alone'
    BY <1>0, <2>1, <2>2, QuietStaysAlone DEF Counted
  <2> QED
    BY <2>1, <2>3 DEF SessionInv
<1>2. CASE CacheHit(t)
  <2> DEFINE stage == Verdict(cache[call[t].prompt])
  <2>1. Reaches(t, stage) /\ call[t].stage # "idle" /\ stage \in Stages \ {"sending"}
    BY <1>2 DEF CacheHit, Verdict, Stages
  <2> HIDE DEF stage
  <2>2. Chatting' /\ \A u \in Threads : call'[u].stage = "sending" => call'[u] = call[u]
    BY <2>1, <1>0, ReachesChats
  <2>3. cache' = cache /\ Counted' /\ tally'.successes = tally.successes
    BY <1>2, <1>0, TallyKeeps DEF CacheHit
  <2> QED
    BY <1>0, <2>2, <2>3, QuietStaysAlone DEF SessionInv
<1>3. CASE Send(t)
  <2>1. Reaches(t, "sending") /\ call[t].stage # "idle" /\ "sending" \in Stages
    BY <1>3 DEF Send, Stages
  <2>2. /\ Chatting' /\ call'[t].prompt = call[t].prompt /\ call'[t].stage = "sending"
        /\ \A u \in Threads : u # t => call'[u] = call[u]
    BY <2>1, <1>0, ReachesChats
  <2>3. cache' = cache /\ Counted' /\ tally'.successes = tally.successes
    BY <1>3, <1>0, TallyKeeps DEF Send
  <2>4. ASSUME Limit = 1
        PROVE  Sending = {}
    <3>1. IsFiniteSet(Sending)
      BY SessionAssumption, FS_Subset DEF Sending
    <3>2. Cardinality(Sending) \in Nat /\ Cardinality(Sending) < 1
      BY <1>3, <2>4, <3>1, FS_CardinalityType DEF Send, Permitted
    <3> QED
      BY <3>1, <3>2, FS_EmptySet
  <2>5. Alone'
    <3> SUFFICES ASSUME Limit = 1
                 PROVE  /\ \A u \in Sending' : u = t /\ cache'[call'[u].prompt] = None
                        /\ \A p \in Prompts :
                             /\ tally'.successes[p] <= 1
                             /\ cache'[p] = None => tally'.successes[p] = 0
      BY DEF Alone
    <3>1. \A u \in Sending' : u = t
      BY <2>2, <2>4 DEF Sending
    <3>2. cache[call[t].prompt] = None
      BY <1>3 DEF Send
    <3> QED
      BY <1>0, <2>2, <2>3, <3>1, <3>2 DEF Alone
  <2> QED
    BY <2>2, <2>3, <2>5 DEF SessionInv
<1>4. ASSUME NEW text \in Texts, SendReturns(t, text)
      PROVE  SessionInv'
  <2> DEFINE stage == Verdict(text)
             p == call[t].prompt
  <2>1. /\ Reaches(t, stage) /\ call[t].stage = "sending" /\ stage \in Stages \ {"sending"}
        /\ p \in Prompts
    BY <1>0, <1>4 DEF SendReturns, Verdict, Stages, Chatting
  <2> HIDE DEF stage
  <2>2. /\ Chatting' /\ call'[t].stage # "sending"
        /\ \A u \in Threads : u # t => call'[u] = call[u]
    BY <2>1, <1>0, ReachesChats
  <2>3. cache' = [cache EXCEPT ![p] = text] /\ tally' = [tally EXCEPT !.successes[p] = @ + 1]
    BY <1>4 DEF SendReturns, Kept
  <2> HIDE DEF p
  <2>4. tally' = [f \in Counters |-> tally'[f]]
        /\ tally'.successes = [tally.successes EXCEPT ![p] = @ + 1]
    BY <1>0, <2>3 DEF Counted, Counters
  <2>5. Counted'
    BY <1>0, <2>1, <2>3, <2>4 DEF Counted
  <2>6. Alone'
    <3> SUFFICES ASSUME Limit = 1
                 PROVE  /\ Sending' = {}
                        /\ \A q \in Prompts :
                             /\ tally'.successes[q] <= 1
                             /\ cache'[q] = None => tally'.successes[q] = 0
      BY DEF Alone
    <3>1. t \in Sending /\ cache[p] = None /\ \A u \in Sending : u = t
      BY <1>0, <2>1 DEF Alone, Sending, p
    <3>2. Sending' = {}
      BY <2>2, <3>1 DEF Sending
    <3>3. tally.successes[p] = 0 /\ text # None
      BY <1>0, <2>1, <3>1, SessionAssumption DEF Alone
    <3>4. tally'.successes[p] = 1 /\ cache'[p] = text
      BY <1>0, <2>1, <2>3, <2>4, <3>3 DEF Counted
    <3>5. ASSUME NEW q \in Prompts, q # p
          PROVE  tally'.successes[q] = tally.successes[q] /\ cache'[q] = cache[q]
      BY <1>0, <2>1, <2>3, <2>4, <3>5 DEF Counted
    <3>6. \A q \in Prompts :
            tally.successes[q] <= 1 /\ (cache[q] = None => tally.successes[q] = 0)
      BY <1>0 DEF Alone
    <3> QED
      BY <3>2, <3>3, <3>4, <3>5, <3>6
  <2> QED
    BY <2>2, <2>5, <2>6 DEF SessionInv
<1>5. ASSUME NEW failure \in Failures, SendFails(t, failure)
      PROVE  SessionInv'
  <2> DEFINE stage == AfterFailure(t, failure)
             timeouts == tally.timeouts + IF failure = "timeout" THEN 1 ELSE 0
  <2>1. Reaches(t, stage) /\ call[t].stage # "idle" /\ stage \in Stages \ {"sending"}
    BY <1>5 DEF SendFails, AfterFailure, Stages
  <2>2. cache' = cache /\ tally' = [tally EXCEPT !.timeouts = timeouts]
    BY <1>5 DEF SendFails
  <2> HIDE DEF stage, timeouts
  <2>3. Chatting' /\ \A u \in Threads : call'[u].stage = "sending" => call'[u] = call[u]
    BY <2>1, <1>0, ReachesChats
  <2>4. Counted' /\ tally'.successes = tally.successes
    BY <2>2, <1>0, TallyKeeps
  <2> QED
    BY <1>0, <2>2, <2>3, <2>4, QuietStaysAlone DEF SessionInv
<1> QED
  BY <1>1, <1>2, <1>3, <1>4, <1>5 DEF ChatProceeds

LEMMA FreshSession ==
    ASSUME Renew
    PROVE  SessionInv'
<1>1. call' = [t \in Threads |-> Idle] /\ cache' = [p \in Prompts |-> None] /\ tally' = NoTally
  BY DEF Renew
<1>2. Chatting'
  BY <1>1, IdleIsCall DEF Chatting
<1>3. Counted'
  BY <1>1 DEF Counted, Counters, NoTally
<1>4. Sending' = {}
  BY <1>1, IdleIsCall DEF Sending
<1>5. Alone'
  BY <1>1, <1>4 DEF Alone, NoTally
<1> QED
  BY <1>2, <1>3, <1>5 DEF SessionInv

LEMMA MoveKeeps == SessionInv /\ SessionMove => SessionInv'
<1> SUFFICES ASSUME SessionInv, SessionMove
             PROVE  SessionInv'
  OBVIOUS
<1>0. Chatting /\ Counted /\ Alone
  BY DEF SessionInv
<1>1. CASE Renew
  BY <1>1, FreshSession
<1>2. CASE Tick
  BY <1>0, <1>2, QuietStaysAlone DEF SessionInv, Tick, Chatting, Counted
<1>3. ASSUME NEW t \in Threads, NEW p \in Prompts, Chat(t, p)
      PROVE  SessionInv'
  <2>1. /\ call' = [call EXCEPT ![t] = [stage |-> "asking", prompt |-> p, attempt |-> 0]]
        /\ cache' = cache /\ tally' = tally
    BY <1>3 DEF Chat
  <2>2. Chatting'
    BY <1>0, <2>1 DEF Chatting, CallRecord, Stages
  <2>3. \A u \in Threads : call'[u].stage = "sending" => call'[u] = call[u]
    BY <1>0, <2>1 DEF Chatting
  <2> QED
    BY <1>0, <2>1, <2>2, <2>3, QuietStaysAlone DEF SessionInv, Counted
<1>4. ASSUME NEW ended \in SUBSET Threads, Drop(ended)
      PROVE  SessionInv'
  <2>1. Chatting' /\ \A u \in Threads : call'[u].stage = "sending" => call'[u] = call[u]
    BY <1>0, <1>4, IdleIsCall DEF Drop, Chatting
  <2> QED
    BY <1>0, <1>4, <2>1, QuietStaysAlone DEF SessionInv, Counted, Drop
<1> QED
  BY <1>1, <1>2, <1>3, <1>4, ChatProceedsKeeps DEF SessionMove

-----------------------------------------------------------------------------
(* Every step of a campaign is a move of its session. *)

LEMMA CampaignMoves == Chatting /\ [Next]_vars => SessionMove
<1> SUFFICES ASSUME Chatting, [Next]_vars
             PROVE  SessionMove
  OBVIOUS
<1>1. ASSUME UNCHANGED session
      PROVE  SessionMove
  <2>1. Drop({})
    BY <1>1 DEF Drop, session, Chatting
  <2> QED
    BY <2>1 DEF SessionMove
<1>2. ASSUME NEW m \in Modes, call' = [call EXCEPT ![m] = Idle], UNCHANGED <<cache, tally, bucket>>
      PROVE  SessionMove
  <2>1. Drop({m}) /\ {m} \in SUBSET Threads
    BY <1>2 DEF Drop, Chatting, Modes
  <2> QED
    BY <2>1 DEF SessionMove
<1>3. ASSUME call' = [m \in Modes |-> Idle], UNCHANGED <<cache, tally, bucket>>
      PROVE  SessionMove
  <2>1. Drop(Threads)
    BY <1>3 DEF Drop, Modes
  <2> QED
    BY <2>1 DEF SessionMove
<1>4. CASE Operator
  BY <1>4 DEF Operator, Start, Resume, Begin, SessionMove
<1>5. CASE CampaignStep
  BY <1>5, <1>1 DEF CampaignStep, PoolRefused, Schedule, Escapes, WriteAggregate, Finalize
<1>6. CASE Clock
  BY <1>6 DEF Clock, SessionMove
<1>7. CASE Cancel
  <2>1. CASE Sequential
    BY <1>7, <2>1, <1>3 DEF Cancel
  <2>2. CASE ~Sequential
    BY <1>7, <2>2, <1>1 DEF Cancel, session
  <2> QED
    BY <2>1, <2>2
<1>8. CASE Kill
  BY <1>8, <1>3 DEF Kill
<1>9. ASSUME NEW m \in Modes, ModeStep(m)
      PROVE  SessionMove
  <2>1. CASE RunMode(m) \/ OpenChild(m) \/ ChildCompletes(m) \/ Recorded(m) \/ Leaves(m)
    BY <2>1, <1>1 DEF RunMode, OpenChild, ChildCompletes, Recorded, Leaves
  <2>2. CASE AskCase(m)
    <3>1. PICK i \in Items : Chat(m, Asks[m][i])
      BY <2>2 DEF AskCase, Todo
    <3>2. Asks[m][i] \in Prompts /\ m \in Threads
      BY CampaignAssumption DEF Modes
    <3> QED
      BY <3>1, <3>2 DEF SessionMove
  <2>3. CASE Proceeds(m)
    BY <2>3 DEF Proceeds, SessionMove, Modes
  <2>4. CASE RecordCase(m)
    BY <2>4, <1>2 DEF RecordCase
  <2>5. CASE ReturnRefused(m)
    BY <2>5, <1>2 DEF ReturnRefused, Raises
  <2> QED
    BY <1>9, <2>1, <2>2, <2>3, <2>4, <2>5 DEF ModeStep
<1>10. ASSUME NEW m \in Modes, ChildStops(m)
       PROVE  SessionMove
  BY <1>10, <1>1 DEF ChildStops
<1>11. ASSUME NEW m \in Modes, ChildRaises(m)
       PROVE  SessionMove
  BY <1>11, <1>2 DEF ChildRaises, Raises
<1>12. CASE UNCHANGED vars
  BY <1>12, <1>1 DEF vars
<1> QED
  BY <1>4, <1>5, <1>6, <1>7, <1>8, <1>9, <1>10, <1>11, <1>12 DEF Next

LEMMA SessionHolds == Spec => [](SessionInv /\ Metered)
<1>1. Init => SessionInv
  <2> SUFFICES ASSUME Init
               PROVE  SessionInv
    OBVIOUS
  <2>1. call = [t \in Threads |-> Idle] /\ cache = [p \in Prompts |-> None] /\ tally = NoTally
    BY DEF Init, SessionInit
  <2>2. Chatting
    BY <2>1, IdleIsCall DEF Chatting
  <2>3. Counted
    BY <2>1 DEF Counted, Counters, NoTally
  <2>4. Sending = {}
    BY <2>1, IdleIsCall DEF Sending
  <2>5. Alone
    BY <2>1, <2>4 DEF Alone, NoTally
  <2> QED
    BY <2>2, <2>3, <2>5 DEF SessionInv
<1>2. Init => Metered
  BY SessionAssumption DEF Init, SessionInit, Metered, FullBucket
<1>3. SessionInv /\ Metered /\ [Next]_vars => SessionInv' /\ Metered'
  BY CampaignMoves, MoveKeeps, MoveMeters DEF SessionInv
<1> QED
  BY <1>1, <1>2, <1>3, PTL DEF Spec

\* The token bucket of llm/rate_limiter.py under any interleaving of the threads that share
\* the client, and across processes: whatever was asked and retried, no more was granted
\* than the capacity and one token for each interval passed, because a refill
\* moves the time of the last refill with it.
THEOREM RateKept == Spec => []GrantsWithinRate
<1>1. Metered => GrantsWithinRate
  <2> SUFFICES ASSUME Metered
               PROVE  GrantsWithinRate
    OBVIOUS
  <2> DEFINE g == bucket.granted * Fill
             b == (bucket.tokens + bucket.granted) * Fill
             k == Capacity * Fill
  <2>1. /\ bucket.granted \in Nat /\ bucket.tokens \in Nat /\ Fill \in Nat /\ Capacity \in Nat
        /\ bucket.now \in Nat /\ bucket.last \in Nat /\ bucket.last <= bucket.now
    BY SessionAssumption DEF Metered
  <2>2. g \in Nat /\ b \in Nat /\ k \in Nat /\ g <= b
    <3>1. ASSUME NEW x \in Nat, NEW y \in Nat, NEW f \in Nat
          PROVE  y * f \in Nat /\ (x + y) * f \in Nat /\ y * f <= (x + y) * f
      OBVIOUS
    <3> QED
      BY <2>1, <3>1
  <2>3. b <= k + bucket.last
    BY DEF Metered
  <2> HIDE DEF g, b, k
  <2>4. g <= k + bucket.now
    BY <2>1, <2>2, <2>3
  <2> QED
    BY <2>4 DEF GrantsWithinRate, g, k
<1> QED
  BY <1>1, SessionHolds, PTL

\* The permit and the cache of benchmarks/campaign/provider_session.py: with one permit the
\* look into the cache and the send cannot be separated by another send, so no prompt is
\* answered twice in a process, for any number of threads, retries and failures.
THEOREM OneAnswer == Spec => []AnsweredOnce
<1>1. SessionInv => AnsweredOnce
  BY DEF SessionInv, Alone, AnsweredOnce
<1> QED
  BY <1>1, SessionHolds, PTL

-----------------------------------------------------------------------------
(* The manifests. *)

\* No mode is under way without a process, nor before the schedule or after it.
Placed ==
    /\ root \in RootManifest \cup {None}
    /\ child \in [Modes -> ChildManifest \cup {None}]
    /\ mode \in [Modes -> Places]
    /\ pc \in {"down", "scheduling", "running", "finalizing"}
    /\ pc # "down" => root # None
    /\ pc \in {"down", "finalizing"} => mode = NoMode
    /\ pc = "scheduling" => Busy = {}

\* A benchmark works on a manifest it has marked partial, and completes one with every
\* case in its log.
Opened ==
    \A m \in Modes :
        /\ mode[m] \in {"working", "returned"} => child[m] # None
        /\ mode[m] = "working" => child[m].status = "partial"
        /\ child[m] # None /\ child[m].status = "complete" => Todo(m) = {}

\* A mode that is recorded complete is through or about to leave run_one, and its child is complete.
Settled ==
    root # None => \A m \in Modes : root.modes[m] = "complete" =>
        mode[m] \in {"off", "recorded"} /\ child[m] # None /\ child[m].status = "complete"

\* A campaign is complete only between processes, and the aggregate is of what was then
\* recorded.
Told ==
    root # None =>
        /\ pc = "finalizing" => aggregate.modes = root.modes
        /\ root.status = "complete" =>
             /\ pc = "down" /\ \A m \in Modes : root.modes[m] = "complete"
             /\ aggregate.modes = root.modes /\ aggregate.valid = Pairs

ManifestInv == Placed /\ Opened /\ Settled /\ Told

\* What FinishedModesKept says of a step.
Preserved ==
    root # None =>
        /\ root'.config = root.config
        /\ \A m \in Modes : root.modes[m] = "complete" =>
               /\ child'[m] = child[m]
               /\ \/ root'.modes[m] = "complete"
                  \/ mode[m] = "recorded" /\ root'.modes[m] = "partial" /\ pc' = "down"

LEMMA Records ==
    /\ \A r \in RootManifest : r # None
    /\ \A k \in ChildManifest : k # None
  BY CampaignAssumption

\* A step that leaves the manifests alone.
LEMMA SameManifests ==
    ASSUME ManifestInv, UNCHANGED <<root, child>>, Placed',
           \A m \in Modes :
               mode'[m] \in {mode[m], "off"} \/ (mode[m] = "working" /\ mode'[m] = "returned"),
           pc' = "finalizing" => aggregate'.modes = root.modes,
           aggregate' # aggregate => pc # "down",
           root # None /\ root.status = "complete" => pc' = "down"
    PROVE  ManifestInv' /\ Preserved
<1>1. Opened'
  BY DEF ManifestInv, Opened, Todo
<1>2. Settled'
  BY DEF ManifestInv, Settled
<1>3. Told'
  BY DEF ManifestInv, Told
<1> QED
  BY <1>1, <1>2, <1>3 DEF ManifestInv, Preserved

\* run_one writes another status for a mode that is under way, and takes it off or not.
LEMMA UpdateKeeps ==
    ASSUME ManifestInv, NEW m \in Modes, NEW status \in Statuses, Update(m, status),
           mode[m] \in {"queued", "opening", "working", "returned"},
           pc \in {"scheduling", "running"},
           UNCHANGED <<child, aggregate>>, Placed',
           \A n \in Modes : n # m => mode'[n] \in {mode[n], "off"},
           mode'[m] \in {"off", "opening", "recorded"}, pc' # "finalizing",
           status = "complete" =>
               mode'[m] \in {"off", "recorded"} /\ child[m] # None /\ child[m].status = "complete"
    PROVE  ManifestInv' /\ Preserved
<1>1. /\ root \in RootManifest /\ root' = [root EXCEPT !.modes[m] = status]
      /\ root.status # "complete"
  BY DEF ManifestInv, Placed, Told, Update
<1>2. /\ root' \in RootManifest /\ root'.config = root.config /\ root'.status = root.status
      /\ root'.modes = [root.modes EXCEPT ![m] = status]
  BY <1>1 DEF RootManifest
<1>3. root.modes \in [Modes -> Statuses] /\ root.modes[m] # "complete" /\ root # None
  BY <1>1, Records DEF ManifestInv, Settled, RootManifest
<1>4. Opened'
  BY DEF ManifestInv, Opened, Todo
<1>5. Settled'
  BY <1>2, <1>3 DEF ManifestInv, Settled
<1>6. Told'
  BY <1>1, <1>2 DEF Told
<1>7. Preserved
  BY <1>2, <1>3 DEF Preserved
<1> QED
  BY <1>4, <1>5, <1>6, <1>7 DEF ManifestInv

\* A benchmark that is under way writes its own manifest.
LEMMA ChildKeeps ==
    ASSUME ManifestInv, NEW m \in Modes, NEW k \in ChildManifest,
           child' = [child EXCEPT ![m] = k], mode[m] \in {"opening", "working"},
           UNCHANGED <<root, aggregate, pc>>,
           \/ mode' = mode /\ mode[m] = "working"
           \/ mode' = [mode EXCEPT ![m] = "working"]
           \/ mode' = [mode EXCEPT ![m] = "returned"],
           mode'[m] = "working" => k.status = "partial",
           k.status = "complete" => \A i \in Items : k.log[i] # None
    PROVE  ManifestInv' /\ Preserved
<1>0. Placed /\ Opened /\ Settled /\ Told
  BY DEF ManifestInv
<1>1. /\ child'[m] = k /\ k # None /\ \A n \in Modes : n # m => child'[n] = child[n]
      /\ child' \in [Modes -> ChildManifest \cup {None}]
  BY <1>0, Records DEF Placed
<1>2. /\ mode' \in [Modes -> Places] /\ mode'[m] \in {"working", "returned"}
      /\ \A n \in Modes : n # m => mode'[n] = mode[n]
  BY <1>0 DEF Placed, Places
<1>3. pc = "running" /\ root # None
  <2>1. mode # NoMode /\ m \in Busy
    BY DEF NoMode, Busy
  <2> QED
    BY <1>0, <2>1 DEF Placed
<1>4. Placed'
  BY <1>0, <1>1, <1>2, <1>3 DEF Placed
<1>5. Opened'
  <2>1. \A n \in Modes : n # m => Todo(n)' = Todo(n)
    BY <1>1 DEF Todo
  <2>2. k.status = "complete" => Todo(m)' = {}
    BY <1>1 DEF Todo
  <2> QED
    BY <1>0, <1>1, <1>2, <2>1, <2>2 DEF Opened
<1>6. root.modes[m] # "complete"
  BY <1>0, <1>3 DEF Settled
<1>7. Settled'
  BY <1>0, <1>1, <1>2, <1>6 DEF Settled
<1>8. Told'
  BY <1>0 DEF Told
<1>9. Preserved
  BY <1>1, <1>6 DEF Preserved
<1> QED
  BY <1>4, <1>5, <1>7, <1>8, <1>9 DEF ManifestInv

\* A new process queues what is not recorded complete, and the campaign is partial again.
LEMMA BeginKeeps ==
    ASSUME ManifestInv, NEW c \in Configs, Start(c) \/ Resume(c)
    PROVE  ManifestInv' /\ Preserved
<1>0. Placed /\ Opened /\ Settled /\ Told
  BY DEF ManifestInv
<1>1. PICK r \in RootManifest :
        /\ Begin(r) /\ r.status = "partial"
        /\ root # None => r.config = root.config /\ r.modes = root.modes
        /\ root = None => \A m \in Modes : r.modes[m] # "complete"
  <2>1. CASE Start(c)
    <3>1. Fresh(c) \in RootManifest /\ Fresh(c).status = "partial"
          /\ \A m \in Modes : Fresh(c).modes[m] # "complete"
      BY DEF Fresh, RootManifest, Statuses
    <3> QED
      BY <2>1, <3>1 DEF Start
  <2>2. CASE Resume(c)
    <3> DEFINE r == [root EXCEPT !.status = "partial"]
    <3>1. root \in RootManifest /\ Begin(r) /\ root # None
      BY <1>0, <2>2 DEF Resume, Placed
    <3>2. /\ r \in RootManifest /\ r.status = "partial" /\ r.config = root.config
          /\ r.modes = root.modes
      BY <3>1 DEF RootManifest
    <3> QED
      BY <3>1, <3>2
  <2> QED
    BY <2>1, <2>2
<1>2. /\ root' = r /\ r # None /\ mode' = Queue(r) /\ pc' = "scheduling"
      /\ UNCHANGED <<child, aggregate>>
  BY <1>1, Records DEF Begin
<1>3. /\ mode' \in [Modes -> Places]
      /\ \A m \in Modes :
           mode'[m] \in {"queued", "off"} /\ (r.modes[m] = "complete" => mode'[m] = "off")
  BY <1>2 DEF Queue, Pending, Places
<1>4. Busy' = {}
  BY <1>3 DEF Busy
<1>5. Placed'
  BY <1>0, <1>1, <1>2, <1>3, <1>4 DEF Placed
<1>6. Opened'
  <2>1. \A m \in Modes : Todo(m)' = Todo(m) /\ child'[m] = child[m]
    BY <1>2 DEF Todo
  <2>2. \A m \in Modes : mode'[m] \notin {"working", "returned"}
    BY <1>3
  <2> QED
    BY <1>0, <2>1, <2>2 DEF Opened
<1>7. Settled'
  <2>1. child' = child /\ root'.modes = r.modes
    BY <1>2
  <2> QED
    BY <1>0, <1>1, <1>3, <2>1 DEF Settled
<1>8. Told'
  BY <1>1, <1>2 DEF Told
<1>9. Preserved
  BY <1>1, <1>2 DEF Preserved
<1> QED
  BY <1>5, <1>6, <1>7, <1>8, <1>9 DEF ManifestInv

LEMMA Emptied ==
    ASSUME mode \in [Modes -> Places], Busy = {}, Queued = {}
    PROVE  mode = NoMode
<1>1. \A m \in Modes : mode[m] = "off"
  BY DEF Busy, Queued, Places
<1> QED
  BY <1>1 DEF NoMode

LEMMA CampaignStepKeeps ==
    ASSUME ManifestInv, CampaignStep
    PROVE  ManifestInv' /\ Preserved
<1>0. Placed /\ Opened /\ Settled /\ Told
  BY DEF ManifestInv
<1>1. CASE PoolRefused
  <2>1. mode = NoMode
    BY <1>0, <1>1, Emptied DEF PoolRefused, Placed
  <2>2. Placed'
    BY <1>0, <1>1, <2>1 DEF PoolRefused, Placed
  <2> QED
    BY <1>1, <2>2, SameManifests DEF PoolRefused
<1>2. CASE Schedule
  <2>1. Placed' /\ (root # None => root.status # "complete")
    BY <1>0, <1>2 DEF Schedule, Placed, Told
  <2> QED
    BY <1>2, <2>1, SameManifests DEF Schedule
<1>3. CASE Escapes
  <2>1. mode = NoMode
    BY <1>0, <1>3, Emptied DEF Escapes, Drained, Placed
  <2>2. Placed'
    BY <1>0, <1>3, <2>1 DEF Escapes, Placed
  <2> QED
    BY <1>3, <2>2, SameManifests DEF Escapes
<1>4. CASE WriteAggregate
  <2>1. mode = NoMode /\ pc = "running"
    BY <1>0, <1>4, Emptied DEF WriteAggregate, Drained, Placed
  <2>2. Placed' /\ (root # None => root.status # "complete")
    BY <1>0, <1>4, <2>1 DEF WriteAggregate, Placed, Told
  <2>3. aggregate'.modes = root.modes
    BY <1>4 DEF WriteAggregate
  <2> QED
    BY <1>4, <2>1, <2>2, <2>3, SameManifests DEF WriteAggregate
<1>5. CASE Finalize
  <2>1. /\ root \in RootManifest /\ root # None /\ mode = NoMode /\ pc = "finalizing"
        /\ root' = [root EXCEPT !.status = Final] /\ pc' = "down"
        /\ UNCHANGED <<child, aggregate, mode>> /\ aggregate.modes = root.modes
    BY <1>0, <1>5 DEF Finalize, Placed, Told
  <2>2. Final \in {"partial", "complete"}
    BY DEF Final
  <2>3. Final = "complete" =>
          aggregate.valid = Pairs /\ \A m \in Modes : root.modes[m] = "complete"
    BY <2>1 DEF Final, Range, RootManifest
  <2>4. /\ root' \in RootManifest /\ root'.status = Final /\ root'.modes = root.modes
        /\ root'.config = root.config
    BY <2>1, <2>2 DEF RootManifest
  <2>5. Placed'
    BY <1>0, <2>1, <2>4, Records DEF Placed
  <2>6. Opened'
    BY <1>0, <2>1 DEF Opened, Todo
  <2>7. Settled'
    BY <1>0, <2>1, <2>4 DEF Settled
  <2>8. Told'
    BY <2>1, <2>3, <2>4 DEF Told
  <2>9. Preserved
    BY <2>1, <2>4 DEF Preserved
  <2> QED
    BY <2>5, <2>6, <2>7, <2>8, <2>9 DEF ManifestInv
<1> QED
  BY <1>1, <1>2, <1>3, <1>4, <1>5 DEF CampaignStep

LEMMA Underway ==
    ASSUME ManifestInv, NEW m \in Modes, mode[m] # "off"
    PROVE  /\ pc \in {"scheduling", "running"} /\ root # None /\ root.status # "complete"
           /\ mode[m] # "queued" => pc = "running"
<1>1. mode # NoMode /\ (mode[m] # "queued" => m \in Busy)
  BY DEF NoMode, Busy, ManifestInv, Placed, Places
<1> QED
  BY <1>1 DEF ManifestInv, Placed, Told

LEMMA ModeStepKeeps ==
    ASSUME ManifestInv, NEW m \in Modes, ModeStep(m) \/ ChildStops(m) \/ ChildRaises(m)
    PROVE  ManifestInv' /\ Preserved
<1>0. Placed /\ Opened /\ Settled /\ Told
  BY DEF ManifestInv
<1>1. ASSUME NEW status \in Statuses, Update(m, status), mode[m] # "off"
      PROVE  root' \in RootManifest
  BY <1>1, <1>0, Underway DEF Placed, Update, RootManifest
<1>2. CASE RunMode(m)
  <2>1. /\ Update(m, "running") /\ "running" \in Statuses /\ mode[m] = "queued" /\ pc = "running"
        /\ mode' = [mode EXCEPT ![m] = "opening"] /\ UNCHANGED <<child, aggregate, pc>>
    BY <1>2 DEF RunMode, Statuses
  <2>2. mode' \in [Modes -> Places] /\ mode'[m] = "opening"
        /\ \A n \in Modes : n # m => mode'[n] = mode[n]
    BY <1>0, <2>1 DEF Placed, Places
  <2>3. Placed'
    BY <1>0, <1>1, <2>1, <2>2, Records DEF Placed
  <2> QED
    BY <2>1, <2>2, <2>3, UpdateKeeps
<1>3. CASE OpenChild(m)
  <2> DEFINE k == [status |-> "partial", log |-> IF child[m] = None THEN NoLog ELSE child[m].log]
  <2>1. k \in ChildManifest /\ k.status = "partial"
    BY <1>0 DEF Placed, ChildManifest, NoLog
  <2>2. /\ child' = [child EXCEPT ![m] = k] /\ mode[m] = "opening"
        /\ mode' = [mode EXCEPT ![m] = "working"] /\ UNCHANGED <<root, aggregate, pc>>
    BY <1>3 DEF OpenChild
  <2> HIDE DEF k
  <2> QED
    BY <2>1, <2>2, ChildKeeps
<1>4. CASE AskCase(m) \/ Proceeds(m)
  <2>1. UNCHANGED <<root, child, aggregate, pc, mode>>
    BY <1>4 DEF AskCase, Proceeds, campaign
  <2>2. Placed' /\ (root # None /\ root.status = "complete" => pc' = "down")
        /\ (pc' = "finalizing" => aggregate'.modes = root.modes)
    BY <1>0, <2>1 DEF Placed, Busy, Told
  <2> QED
    BY <2>1, <2>2, SameManifests
<1>5. CASE RecordCase(m)
  <2>1. PICK i \in Items : child' = [child EXCEPT ![m].log[i] = OutcomeOf(call[m].stage)]
    BY <1>5 DEF RecordCase, Todo
  <2> DEFINE o == OutcomeOf(call[m].stage)
             k == [child[m] EXCEPT !.log[i] = o]
  <2>2. o \in Outcomes
    BY DEF OutcomeOf, Outcomes
  <2>3. child[m] \in ChildManifest /\ child[m].status = "partial" /\ mode[m] = "working"
    BY <1>0, <1>5 DEF RecordCase, Placed, Opened
  <2> HIDE DEF o
  <2>4. k \in ChildManifest /\ k.status = "partial"
    BY <2>2, <2>3 DEF ChildManifest
  <2>5. child' = [child EXCEPT ![m] = k] /\ UNCHANGED <<root, aggregate, pc, mode>>
    BY <1>5, <2>1 DEF RecordCase, o
  <2> HIDE DEF k
  <2> QED
    BY <2>3, <2>4, <2>5, ChildKeeps
<1>6. CASE ChildCompletes(m)
  <2> DEFINE k == [child[m] EXCEPT !.status = "complete"]
  <2>1. child[m] \in ChildManifest /\ mode[m] = "working" /\ Todo(m) = {}
    BY <1>0, <1>6 DEF ChildCompletes, Placed, Opened
  <2>2. k \in ChildManifest /\ k.log = child[m].log
    BY <2>1 DEF ChildManifest
  <2>3. \A i \in Items : k.log[i] # None
    BY <2>1, <2>2 DEF Todo
  <2>4. /\ child' = [child EXCEPT ![m] = k] /\ mode' = [mode EXCEPT ![m] = "returned"]
        /\ UNCHANGED <<root, aggregate, pc>>
    BY <1>6 DEF ChildCompletes
  <2>5. mode'[m] = "returned"
    BY <1>0, <2>4 DEF Placed
  <2> HIDE DEF k
  <2> QED
    BY <2>1, <2>2, <2>3, <2>4, <2>5, ChildKeeps
<1>7. CASE Recorded(m)
  <2>1. /\ Update(m, "complete") /\ "complete" \in Statuses /\ mode[m] = "returned"
        /\ child[m].status = "complete" /\ child[m] # None /\ pc = "running"
        /\ mode' = [mode EXCEPT ![m] = "recorded"] /\ UNCHANGED <<child, aggregate, pc>>
    BY <1>0, <1>7, Underway DEF Recorded, Statuses, ChildIsComplete, Opened
  <2>2. mode' \in [Modes -> Places] /\ mode'[m] = "recorded"
        /\ \A n \in Modes : n # m => mode'[n] = mode[n]
    BY <1>0, <2>1 DEF Placed, Places
  <2>3. Placed'
    BY <1>0, <1>1, <2>1, <2>2, Records DEF Placed
  <2> QED
    BY <2>1, <2>2, <2>3, UpdateKeeps
<1>8. CASE ReturnRefused(m) \/ ChildRaises(m)
  <2> DEFINE status == Remains(m)
  <2>1. /\ Update(m, status) /\ status \in {"partial", "failed"}
        /\ mode[m] \in {"opening", "working", "returned"} /\ UNCHANGED <<child, aggregate>>
        /\ \/ mode' = [mode EXCEPT ![m] = "off"] /\ pc' = pc
           \/ mode' = NoMode /\ pc' = "down"
    BY <1>8 DEF ReturnRefused, ChildRaises, Raises, Remains
  <2> HIDE DEF status
  <2>2. status \in Statuses /\ status # "complete" /\ pc = "running" /\ root' \in RootManifest
    BY <1>1, <2>1, Underway DEF Statuses
  <2>3. /\ mode' \in [Modes -> Places] /\ mode'[m] = "off"
        /\ \A n \in Modes : n # m => mode'[n] \in {mode[n], "off"}
    BY <1>0, <2>1 DEF Placed, Places, NoMode
  <2>4. Placed'
    BY <1>0, <2>1, <2>2, <2>3, Records DEF Placed
  <2> QED
    BY <2>1, <2>2, <2>3, <2>4, UpdateKeeps
<1>9. CASE Leaves(m)
  <2>1. /\ mode[m] = "recorded" /\ mode' = [mode EXCEPT ![m] = "off"]
        /\ UNCHANGED <<root, child, aggregate, pc>>
    BY <1>9 DEF Leaves
  <2>2. /\ mode' \in [Modes -> Places] /\ mode'[m] = "off"
        /\ \A n \in Modes : n # m => mode'[n] = mode[n]
    BY <1>0, <2>1 DEF Placed, Places
  <2>3. pc = "running" /\ root.status # "complete"
    BY <2>1, Underway
  <2>4. Placed'
    BY <1>0, <2>1, <2>2, <2>3 DEF Placed
  <2> QED
    BY <2>1, <2>2, <2>3, <2>4, SameManifests
<1>10. CASE ChildStops(m)
  <2>1. /\ mode[m] = "working" /\ mode' = [mode EXCEPT ![m] = "returned"]
        /\ UNCHANGED <<root, child, aggregate, pc>>
    BY <1>10 DEF ChildStops
  <2>2. /\ mode' \in [Modes -> Places] /\ mode'[m] = "returned"
        /\ \A n \in Modes : n # m => mode'[n] = mode[n]
    BY <1>0, <2>1 DEF Placed, Places
  <2>3. pc = "running" /\ root.status # "complete"
    BY <2>1, Underway
  <2>4. Placed'
    BY <1>0, <2>1, <2>2, <2>3 DEF Placed
  <2> QED
    BY <2>1, <2>2, <2>3, <2>4, SameManifests
<1> QED
  BY <1>2, <1>3, <1>4, <1>5, <1>6, <1>7, <1>8, <1>9, <1>10 DEF ModeStep

\* A signal in a sequential campaign also updates the record of the mode it interrupts.
LEMMA InterruptionKeeps ==
    ASSUME ManifestInv, Cancel \/ Kill
    PROVE  ManifestInv' /\ Preserved
<1>0. Placed /\ Opened /\ Settled /\ Told
  BY DEF ManifestInv
<1>1. CASE Kill
  <2>1. mode' = NoMode /\ pc' = "down" /\ UNCHANGED <<root, child, aggregate>>
    BY <1>1 DEF Kill
  <2>2. mode' \in [Modes -> Places] /\ \A m \in Modes : mode'[m] = "off"
    BY <2>1 DEF NoMode, Places
  <2>3. Placed'
    BY <1>0, <2>1, <2>2 DEF Placed
  <2> QED
    BY <2>1, <2>2, <2>3, SameManifests
<1>2. CASE Cancel /\ ~Sequential
  <2>1. UNCHANGED <<root, child, aggregate, pc, mode>> /\ pc = "running"
    BY <1>2 DEF Cancel
  <2>2. Placed' /\ (root # None => root.status # "complete")
    BY <1>0, <2>1 DEF Placed, Busy, Told
  <2> QED
    BY <2>1, <2>2, SameManifests
<1>3. CASE Cancel /\ Sequential
  <2> DEFINE written == [m \in Modes |-> IF m \in Busy THEN Remains(m) ELSE root.modes[m]]
  <2>1. /\ root \in RootManifest /\ root # None /\ pc = "running"
        /\ root' = [root EXCEPT !.modes = written] \/ root' = root
        /\ mode' = NoMode /\ pc' = "down"
        /\ UNCHANGED <<child, aggregate>>
    BY <1>0, <1>3 DEF Cancel, Placed
  <2>2. root.modes \in [Modes -> Statuses] /\ written \in [Modes -> Statuses]
    BY <2>1 DEF Remains, Statuses, RootManifest
  <2>3. /\ root.status # "complete"
        /\ \A m \in Modes : written[m] = "complete" => root.modes[m] = "complete"
        /\ \A m \in Modes : root.modes[m] = "complete" =>
             \/ written[m] = "complete"
             \/ mode[m] = "recorded" /\ written[m] = "partial"
    BY <1>0, <2>1 DEF Told, Settled, Busy, Remains
  <2>chosen. PICK left \in {written, root.modes} : root' = [root EXCEPT !.modes = left]
    BY <2>1 DEF RootManifest
  <2>told. /\ left \in [Modes -> Statuses]
           /\ \A m \in Modes : left[m] = "complete" => root.modes[m] = "complete"
           /\ \A m \in Modes : root.modes[m] = "complete" =>
                \/ left[m] = "complete"
                \/ mode[m] = "recorded" /\ left[m] = "partial"
    BY <2>2, <2>3, <2>chosen
  <2> HIDE DEF written
  <2>4. /\ root' \in RootManifest /\ root'.modes = left /\ root'.status = root.status
        /\ root'.config = root.config
    BY <2>1, <2>chosen, <2>told DEF RootManifest
  <2>5. mode' \in [Modes -> Places] /\ \A m \in Modes : mode'[m] = "off"
    BY <2>1 DEF NoMode, Places
  <2>6. Placed'
    BY <1>0, <2>1, <2>4, <2>5 DEF Placed
  <2>7. Opened'
    <3>1. \A m \in Modes : Todo(m)' = Todo(m)
      BY <2>1 DEF Todo
    <3> QED
      BY <1>0, <2>1, <2>5, <3>1 DEF Opened
  <2>8. Settled'
    BY <1>0, <2>1, <2>told, <2>4, <2>5 DEF Settled
  <2>9. Told'
    BY <2>1, <2>3, <2>4 DEF Told
  <2>10. Preserved
    BY <2>1, <2>told, <2>4 DEF Preserved
  <2> QED
    BY <2>6, <2>7, <2>8, <2>9, <2>10 DEF ManifestInv
<1> QED
  BY <1>1, <1>2, <1>3

LEMMA ManifestsKeep == ManifestInv /\ [Next]_vars => ManifestInv' /\ Preserved
<1> SUFFICES ASSUME ManifestInv, [Next]_vars
             PROVE  ManifestInv' /\ Preserved
  OBVIOUS
<1>1. ASSUME UNCHANGED <<root, child, aggregate, pc, mode>>
      PROVE  ManifestInv' /\ Preserved
  <2>1. ManifestInv'
    BY <1>1 DEF ManifestInv, Placed, Busy, Opened, Todo, Settled, Told
  <2>2. Preserved
    BY <1>1 DEF Preserved
  <2> QED
    BY <2>1, <2>2
<1>2. CASE Operator
  BY <1>2, BeginKeeps DEF Operator
<1>3. CASE CampaignStep
  BY <1>3, CampaignStepKeeps
<1>4. CASE Clock
  BY <1>4, <1>1 DEF Clock, campaign
<1>5. CASE Cancel \/ Kill
  BY <1>5, InterruptionKeeps
<1>6. ASSUME NEW m \in Modes, ModeStep(m) \/ ChildStops(m) \/ ChildRaises(m)
      PROVE  ManifestInv' /\ Preserved
  BY <1>6, ModeStepKeeps
<1>7. CASE UNCHANGED vars
  BY <1>7, <1>1 DEF vars, campaign
<1> QED
  BY <1>2, <1>3, <1>4, <1>5, <1>6, <1>7 DEF Next

LEMMA ManifestsBegin == Init => ManifestInv
<1> SUFFICES ASSUME Init
             PROVE  ManifestInv
  OBVIOUS
<1>1. Placed
  BY DEF Init, Placed, NoMode, Places
<1>2. Opened /\ Settled /\ Told
  BY DEF Init, Opened, Settled, Told, NoMode
<1> QED
  BY <1>1, <1>2 DEF ManifestInv

\* The final status of benchmarks/campaign/orchestrator.py, for any modes and cases, any
\* number of kills, signals and failing benchmarks, and whichever scheduler: a campaign
\* that says "complete" has a finished child of every mode, with every case in its log, and
\* an aggregate of these very modes.
THEOREM Earned == Spec => []CompleteIsEarned
<1>1. ManifestInv => CompleteIsEarned
  BY DEF ManifestInv, Opened, Settled, Told, CompleteIsEarned
<1> QED
  BY <1>1, ManifestsBegin, ManifestsKeep, PTL DEF Spec

\* A resume keeps what is finished (run_campaign and run_one of the orchestrator): for the same
\* generality, the benchmark of a mode recorded complete is never opened or written again, and
\* nothing records it otherwise but a signal that finds run_one between the write and its return.
THEOREM FinishedStays == Spec => FinishedModesKept
<1>1. ManifestInv /\ [Next]_vars =>
        [root # None =>
           /\ root'.config = root.config
           /\ \A m \in Modes : root.modes[m] = "complete" =>
                  /\ child'[m] = child[m]
                  /\ \/ root'.modes[m] = "complete"
                     \/ mode[m] = "recorded" /\ root'.modes[m] = "partial" /\ pc' = "down"]_vars
  BY ManifestsKeep DEF Preserved
<1> QED
  BY <1>1, ManifestsBegin, ManifestsKeep, PTL DEF Spec, FinishedModesKept
=============================================================================
