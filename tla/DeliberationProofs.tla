-------------------------- MODULE DeliberationProofs --------------------------
(* That deliberation keeps its properties for all sessions, requests and     *)
(* evidence: a session's emotions are its own, nothing is done on an empty   *)
(* acquisition before a second one, a revised plan stays the plan, what is   *)
(* stored as a procedure was permitted and succeeded, no plan is denied but  *)
(* for a session's own constraints, and a repeated text is stored again only *)
(* if two notes mention it. The phases left are always the end of a route,   *)
(* whatever was retried or corrected, so the phase at the head tells what    *)
(* the phases before it left behind. The last two are about numbers: the     *)
(* second half bounds what the affect engine, the planner, the world model   *)
(* and the admission of memories compute.                                    *)
EXTENDS Deliberation, SequenceTheorems, FiniteSetTheorems, TLAPS

-----------------------------------------------------------------------------
(* The order of the phases. *)

Opening == {"AFFECT", "EVIDENCE_ACQUISITION"}
Judges == {"WORLD_SIMULATION", "UNCERTAINTY_ESTIMATION", "EXECUTION_DECISION"}
Delivery == {"ACTION", "ANSWER_GENERATION", "OUTPUT_VALIDATION", "OUTPUT", "STATE_COMMIT", "MEMORY_COMMIT"}
Thinking == Opening \cup {"PLANNING"} \cup Judges \cup {"REFLECTION"}
Phases == Thinking \cup Delivery

(* The phases each phase may have right behind it.                           *)
Behind(p) ==
    IF p = "AFFECT" THEN {"EVIDENCE_ACQUISITION"}
    ELSE IF p = "EVIDENCE_ACQUISITION" THEN {"PLANNING"}
    ELSE IF p = "PLANNING" THEN {"WORLD_SIMULATION"}
    ELSE IF p = "WORLD_SIMULATION" THEN {"UNCERTAINTY_ESTIMATION"}
    ELSE IF p = "UNCERTAINTY_ESTIMATION" THEN {"EXECUTION_DECISION"}
    ELSE IF p = "EXECUTION_DECISION" THEN {"REFLECTION"}
    ELSE IF p = "REFLECTION" THEN {"ACTION"}
    ELSE IF p = "ACTION" THEN {"ANSWER_GENERATION", "OUTPUT_VALIDATION"}
    ELSE IF p = "ANSWER_GENERATION" THEN {"OUTPUT_VALIDATION"}
    ELSE IF p = "OUTPUT_VALIDATION" THEN {"OUTPUT"}
    ELSE IF p = "OUTPUT" THEN {"STATE_COMMIT"}
    ELSE IF p = "STATE_COMMIT" THEN {"MEMORY_COMMIT"}
    ELSE {}

Path(s) == s \in Seq(Phases) /\ \A i \in DOMAIN s : i + 1 \in DOMAIN s => s[i + 1] \in Behind(s[i])

(* The end of a route, from some phase on.                                   *)
Rest(s) == Path(s) /\ (s # <<>> => s[Len(s)] = "MEMORY_COMMIT")

Facing(P) == todo # <<>> /\ Head(todo) \in P

(* The uncertainty of an acquisition, calibrated; without a response, none.  *)
Gap(found) ==
    IF Responded(found) THEN Max({0, Calibrated(RetrievalSignal(found)).uncertainty}) ELSE Max({0})

(* The gate does not retry the retrieval on this evidence.                   *)
Enough == context.retries >= 1 \/ ~(Gap(context.found) >= GatePolicy.retry)

-----------------------------------------------------------------------------
(* The inductive invariant. *)

Permitted == Policy.tools \ Policy.blocked

Tools == UNION {{r.attached[i].tool : i \in DOMAIN r.attached} : r \in Requests}

(* What an invocation leaves: a success was permitted, and is the handler's. *)
Reports ==
    {s \in [tool : Tools, did : Behaviours \cup {"refused"}, status : {"success", "blocked", "failed"}] :
        s.status = "success" => s.did = "success" /\ s.tool \in Permitted}

Counts ==
    /\ context.acquisitions \in Nat /\ context.retries \in Nat
    /\ context.interventions \in Nat /\ context.replans \in Nat

Shaped ==
    /\ Rest(todo)
    /\ DOMAIN context = DOMAIN Blank
    /\ Counts
    /\ todo = <<>> => context = Blank
    /\ todo # <<>> => request \in Requests

Moods ==
    /\ DOMAIN committed = Sessions /\ DOMAIN own = Sessions
    /\ \A s \in Sessions : committed[s].baseline = Zero
    /\ MoodIsOwn
    /\ Facing({"AFFECT"}) => context.emotional = committed[request.session]
    /\ Facing(Phases \ {"AFFECT", "MEMORY_COMMIT"}) =>
          /\ context.emotional.pad = Felt(own[request.session], context.update.profile).pad
          /\ context.emotional.momentum = Felt(own[request.session], context.update.profile).momentum
          /\ context.emotional.baseline = Zero

Evidence ==
    /\ Facing(Opening) => context.acquisitions >= context.retries
    /\ Facing(Phases \ Opening) => context.found \in Founds /\ context.acquisitions >= context.retries + 1
    /\ Facing({"EXECUTION_DECISION"}) => context.estimated.retrieval = Gap(context.found)
    /\ Facing(Delivery \cup {"REFLECTION"}) => context.decision \in Withheld \/ Enough
    /\ Acted => Enough
    /\ Facing(Thinking) => ~Acted

Plans ==
    /\ context.replans = 0 => context.reason = "none"
    /\ context.replans = 0 /\ Facing(Phases \ (Opening \cup {"PLANNING"})) => context.plan.revision = 0
    /\ context.replans = 0 => context.plan = Absent \/ context.plan.revision = 0
    /\ context.replans = 0 \/ (context.replans = 1 /\ context.interventions >= 1 /\ Enough)
    /\ context.replans = 1 =>
          \/ Facing({"PLANNING"}) /\ context.reason # "none" /\ context.plan.revision = 0
          \/ ~Facing(Opening \cup {"PLANNING"}) /\ context.plan.revision = 1

Executions ==
    /\ ProcedureIsVerified
    /\ context.steps \in Seq(Reports)
    /\ context.steps # <<>> => request.attached # <<>>
    /\ Facing({"ACTION"}) => context.status # "success"
    /\ context.status = "success" => \A i \in DOMAIN context.steps : context.steps[i].status = "success"

IInv == Shaped /\ Moods /\ Evidence /\ Plans /\ Executions

-----------------------------------------------------------------------------
(* What is left of a route. *)

LEMMA Following ==
    ASSUME NEW s, Rest(s), s # <<>>, Head(s) # "MEMORY_COMMIT"
    PROVE  Rest(Tail(s)) /\ Tail(s) # <<>> /\ Head(Tail(s)) \in Behind(Head(s))
<1> DEFINE t == Tail(s)
<1>1. s \in Seq(Phases) /\ Len(s) \in Nat /\ Len(s) > 0 /\ s[Len(s)] = "MEMORY_COMMIT" /\ Head(s) = s[1]
  BY DEF Rest, Path
<1>2. Len(s) > 1
  BY <1>1
<1>3. t \in Seq(Phases) /\ Len(t) = Len(s) - 1 /\ \A i \in 1 .. Len(t) : t[i] = s[i + 1]
  BY <1>1
<1>4. t # <<>> /\ Head(t) = s[2]
  <2> HIDE DEF t
  <2>1. Len(t) >= 1 /\ t[1] = s[1 + 1] /\ 1 + 1 = 2
    BY <1>1, <1>2, <1>3
  <2>2. Head(t) = t[1] /\ t # <<>>
    BY <1>3, <2>1
  <2> QED
    BY <2>1, <2>2
<1>5. ASSUME NEW i \in DOMAIN t, i + 1 \in DOMAIN t PROVE t[i + 1] \in Behind(t[i])
  <2>1. i \in 1 .. Len(t) /\ i + 1 \in 1 .. Len(t) /\ i + 1 \in DOMAIN s /\ i + 2 \in DOMAIN s
    BY <1>1, <1>3, <1>5
  <2> HIDE DEF t
  <2>2. t[i] = s[i + 1] /\ t[i + 1] = s[i + 2] /\ (i + 1) + 1 = i + 2
    <3>1. t[i] = s[i + 1] /\ t[i + 1] = s[(i + 1) + 1]
      BY <1>3, <2>1
    <3>2. (i + 1) + 1 = i + 2
      BY <2>1
    <3> QED
      BY <3>1, <3>2
  <2>3. s[(i + 1) + 1] \in Behind(s[i + 1])
    BY <2>1, <2>2 DEF Rest, Path
  <2> QED
    BY <2>2, <2>3
<1>6. t[Len(t)] = "MEMORY_COMMIT"
  BY <1>1, <1>2, <1>3
<1>7. 1 \in DOMAIN s /\ 1 + 1 \in DOMAIN s /\ 1 + 1 = 2
  BY <1>1, <1>2
<1>8. s[2] \in Behind(s[1])
  BY <1>7 DEF Rest, Path
<1> QED
  BY <1>1, <1>3, <1>4, <1>5, <1>6, <1>8 DEF Rest, Path

LEMMA PathJoined ==
    ASSUME NEW s, NEW t, Path(s), s # <<>>, Path(t), t # <<>>, t[1] \in Behind(s[Len(s)])
    PROVE  Path(s \o t) /\ s \o t # <<>> /\ (s \o t)[1] = s[1] /\ (s \o t)[Len(s \o t)] = t[Len(t)]
<1> DEFINE u == s \o t
<1>1. s \in Seq(Phases) /\ t \in Seq(Phases) /\ Len(s) \in Nat /\ Len(t) \in Nat /\ Len(s) > 0 /\ Len(t) > 0
  BY DEF Path
<1>2. u \in Seq(Phases) /\ Len(u) = Len(s) + Len(t)
  BY <1>1
<1>3. \A i \in 1 .. Len(u) : u[i] = IF i <= Len(s) THEN s[i] ELSE t[i - Len(s)]
  BY <1>1
<1> HIDE DEF u
<1>4. DOMAIN u = 1 .. Len(u) /\ DOMAIN s = 1 .. Len(s) /\ DOMAIN t = 1 .. Len(t)
  BY <1>1, <1>2
<1>5. ASSUME NEW i \in DOMAIN u, i + 1 \in DOMAIN u PROVE u[i + 1] \in Behind(u[i])
  <2>1. CASE i < Len(s)
    <3>1. i \in DOMAIN s /\ i + 1 \in DOMAIN s /\ u[i] = s[i] /\ u[i + 1] = s[i + 1]
      BY <1>1, <1>3, <1>4, <1>5, <2>1
    <3> QED
      BY <3>1 DEF Path
  <2>2. CASE i = Len(s)
    <3>1. u[i] = s[Len(s)] /\ u[i + 1] = t[1]
      BY <1>1, <1>3, <1>4, <1>5, <2>2
    <3> QED
      BY <3>1
  <2>3. CASE i > Len(s)
    <3> DEFINE j == i - Len(s)
    <3>1. j \in DOMAIN t /\ j + 1 \in DOMAIN t /\ u[i] = t[j] /\ u[i + 1] = t[j + 1]
      BY <1>1, <1>2, <1>3, <1>4, <1>5, <2>3
    <3> HIDE DEF j
    <3> QED
      BY <3>1 DEF Path
  <2> QED
    BY <1>1, <1>4, <1>5, <2>1, <2>2, <2>3
<1>6. u[Len(u)] = t[Len(t)] /\ u # <<>> /\ u[1] = s[1]
  BY <1>1, <1>2, <1>3
<1> QED
  BY <1>2, <1>5, <1>6 DEF Path, u

LEMMA Joined ==
    ASSUME NEW s, NEW t, Path(s), s # <<>>, Rest(t), t # <<>>, Head(t) \in Behind(s[Len(s)])
    PROVE  Rest(s \o t) /\ s \o t # <<>> /\ Head(s \o t) = s[1]
<1>1. Path(t) /\ t[1] = Head(t) /\ t[Len(t)] = "MEMORY_COMMIT"
  BY DEF Rest, Path
<1>2. Path(s \o t) /\ s \o t # <<>> /\ (s \o t)[1] = s[1] /\ (s \o t)[Len(s \o t)] = "MEMORY_COMMIT"
  BY <1>1, PathJoined
<1>3. s \o t \in Seq(Phases)
  BY <1>2 DEF Path
<1> QED
  BY <1>2, <1>3 DEF Rest

LEMMA PhaseNames ==
    /\ "AFFECT" \in Phases /\ "EVIDENCE_ACQUISITION" \in Phases /\ "PLANNING" \in Phases
    /\ "WORLD_SIMULATION" \in Phases /\ "UNCERTAINTY_ESTIMATION" \in Phases
    /\ "EXECUTION_DECISION" \in Phases /\ "REFLECTION" \in Phases /\ "ACTION" \in Phases
    /\ "ANSWER_GENERATION" \in Phases /\ "OUTPUT_VALIDATION" \in Phases /\ "OUTPUT" \in Phases
    /\ "STATE_COMMIT" \in Phases /\ "MEMORY_COMMIT" \in Phases
BY DEF Phases, Thinking, Delivery, Opening, Judges

LEMMA Single ==
    ASSUME NEW p \in Phases
    PROVE  Path(<<p>>) /\ <<p>> # <<>> /\ <<p>>[1] = p /\ <<p>>[Len(<<p>>)] = p
BY DEF Path

LEMMA Pair ==
    ASSUME NEW p \in Phases, NEW q \in Phases, q \in Behind(p)
    PROVE  Path(<<p, q>>) /\ <<p, q>> # <<>> /\ <<p, q>>[1] = p /\ <<p, q>>[Len(<<p, q>>)] = q
<1> DEFINE s == <<p, q>>
<1>1. s \in Seq(Phases) /\ s[1] = p /\ s[2] = q /\ Len(s) = 2 /\ DOMAIN s = 1 .. 2 /\ s # <<>>
  OBVIOUS
<1> HIDE DEF s
<1> QED
  BY <1>1 DEF Path, s

LEMMA JudgingPath == Path(Judging) /\ Judging # <<>> /\ Judging[1] = "PLANNING" /\ Judging[Len(Judging)] = "EXECUTION_DECISION"
<1>1. /\ Judging \in Seq(Phases) /\ Len(Judging) = 4 /\ DOMAIN Judging = 1 .. 4 /\ Judging # <<>>
      /\ Judging[1] = "PLANNING" /\ Judging[2] = "WORLD_SIMULATION"
      /\ Judging[3] = "UNCERTAINTY_ESTIMATION" /\ Judging[4] = "EXECUTION_DECISION"
  BY PhaseNames DEF Judging
<1>2. /\ Judging[2] \in Behind(Judging[1]) /\ Judging[3] \in Behind(Judging[2])
      /\ Judging[4] \in Behind(Judging[3])
  BY <1>1 DEF Behind
<1>3. \A i \in 1 .. 4 : i + 1 \in 1 .. 4 => i = 1 \/ i = 2 \/ i = 3
  OBVIOUS
<1>4. \A i \in DOMAIN Judging : i + 1 \in DOMAIN Judging => Judging[i + 1] \in Behind(Judging[i])
  BY <1>1, <1>2, <1>3
<1> QED
  BY <1>1, <1>4 DEF Path

LEMMA UpToActionPath ==
    Path(UpToAction) /\ UpToAction # <<>> /\ UpToAction[1] = "AFFECT" /\ UpToAction[Len(UpToAction)] = "ACTION"
<1> DEFINE s == UpToAction
<1>1. s \in Seq(Phases) /\ Len(s) = 8 /\ DOMAIN s = 1 .. 8 /\ s # <<>>
  BY PhaseNames DEF UpToAction
<1>2. /\ s[1] = "AFFECT" /\ s[2] = "EVIDENCE_ACQUISITION" /\ s[3] = "PLANNING" /\ s[4] = "WORLD_SIMULATION"
      /\ s[5] = "UNCERTAINTY_ESTIMATION" /\ s[6] = "EXECUTION_DECISION" /\ s[7] = "REFLECTION" /\ s[8] = "ACTION"
  BY DEF UpToAction
<1> HIDE DEF s
<1>3. /\ s[2] \in Behind(s[1]) /\ s[3] \in Behind(s[2]) /\ s[4] \in Behind(s[3]) /\ s[5] \in Behind(s[4])
      /\ s[6] \in Behind(s[5]) /\ s[7] \in Behind(s[6]) /\ s[8] \in Behind(s[7])
  BY <1>2 DEF Behind
<1>4. \A i \in 1 .. 8 : i + 1 \in 1 .. 8 => i = 1 \/ i = 2 \/ i = 3 \/ i = 4 \/ i = 5 \/ i = 6 \/ i = 7
  OBVIOUS
<1>5. \A i \in DOMAIN s : i + 1 \in DOMAIN s => s[i + 1] \in Behind(s[i])
  BY <1>1, <1>3, <1>4
<1> QED
  BY <1>1, <1>2, <1>5 DEF Path, s

LEMMA FromValidationRest ==
    Rest(FromValidation) /\ FromValidation # <<>> /\ Head(FromValidation) = "OUTPUT_VALIDATION"
<1> DEFINE s == FromValidation
<1>1. /\ s \in Seq(Phases) /\ Len(s) = 4 /\ DOMAIN s = 1 .. 4 /\ s # <<>>
      /\ s[1] = "OUTPUT_VALIDATION" /\ s[2] = "OUTPUT" /\ s[3] = "STATE_COMMIT" /\ s[4] = "MEMORY_COMMIT"
  BY PhaseNames DEF FromValidation
<1> HIDE DEF s
<1>2. s[2] \in Behind(s[1]) /\ s[3] \in Behind(s[2]) /\ s[4] \in Behind(s[3])
  BY <1>1 DEF Behind
<1>3. \A i \in 1 .. 4 : i + 1 \in 1 .. 4 => i = 1 \/ i = 2 \/ i = 3
  OBVIOUS
<1>4. \A i \in DOMAIN s : i + 1 \in DOMAIN s => s[i + 1] \in Behind(s[i])
  BY <1>1, <1>2, <1>3
<1>5. Head(s) = s[1]
  BY <1>1
<1> QED
  BY <1>1, <1>4, <1>5 DEF Path, Rest, s

(* The phases that a retry or a correction puts in front of what is left.    *)
Retrieve == <<"EVIDENCE_ACQUISITION">> \o Judging
Revise == Judging \o <<"REFLECTION">>
RetrieveRevise == <<"EVIDENCE_ACQUISITION">> \o Judging \o <<"REFLECTION">>

Spans(s, p, q) == Path(s) /\ s # <<>> /\ s[1] = p /\ s[Len(s)] = q

LEMMA Fronts ==
    /\ Spans(Retrieve, "EVIDENCE_ACQUISITION", "EXECUTION_DECISION")
    /\ Spans(Revise, "PLANNING", "REFLECTION")
    /\ Spans(RetrieveRevise, "EVIDENCE_ACQUISITION", "REFLECTION")
    /\ Spans(<<"ANSWER_GENERATION", "OUTPUT_VALIDATION">>, "ANSWER_GENERATION", "OUTPUT_VALIDATION")
    /\ Spans(<<"ACTION", "OUTPUT_VALIDATION">>, "ACTION", "OUTPUT_VALIDATION")
<1> DEFINE e == <<"EVIDENCE_ACQUISITION">>
           r == <<"REFLECTION">>
<1>1. Spans(e, "EVIDENCE_ACQUISITION", "EVIDENCE_ACQUISITION") /\ Spans(r, "REFLECTION", "REFLECTION")
  BY PhaseNames, Single DEF Spans
<1>2. Spans(Judging, "PLANNING", "EXECUTION_DECISION")
  BY JudgingPath DEF Spans
<1> HIDE DEF e, r
<1>3. Spans(e \o Judging, "EVIDENCE_ACQUISITION", "EXECUTION_DECISION")
  BY <1>1, <1>2, PathJoined DEF Spans, Behind
<1>4. Spans(Judging \o r, "PLANNING", "REFLECTION")
  BY <1>1, <1>2, PathJoined DEF Spans, Behind
<1>5. Spans((e \o Judging) \o r, "EVIDENCE_ACQUISITION", "REFLECTION")
  BY <1>1, <1>3, PathJoined DEF Spans, Behind
<1>6. /\ Spans(<<"ANSWER_GENERATION", "OUTPUT_VALIDATION">>, "ANSWER_GENERATION", "OUTPUT_VALIDATION")
      /\ Spans(<<"ACTION", "OUTPUT_VALIDATION">>, "ACTION", "OUTPUT_VALIDATION")
  BY PhaseNames, Pair DEF Spans, Behind
<1> QED
  BY <1>3, <1>4, <1>5, <1>6 DEF Retrieve, Revise, RetrieveRevise, e, r

LEMMA SpansJoined ==
    ASSUME NEW s, NEW p, NEW q, Spans(s, p, q), NEW t, Rest(t), t # <<>>, Head(t) \in Behind(q)
    PROVE  Rest(s \o t) /\ s \o t # <<>> /\ Head(s \o t) = p
BY Joined DEF Spans

LEMMA RouteFacts ==
    ASSUME NEW task
    PROVE  Rest(Route(task)) /\ Route(task) # <<>> /\ Head(Route(task)) = "AFFECT"
<1> DEFINE a == <<"ANSWER_GENERATION">>
           u == UpToAction \o a
<1>1. Spans(UpToAction, "AFFECT", "ACTION") /\ Spans(a, "ANSWER_GENERATION", "ANSWER_GENERATION")
  BY UpToActionPath, PhaseNames, Single DEF Spans
<1>2. UpToAction \o <<>> = UpToAction
  BY <1>1 DEF Spans, Path
<1> HIDE DEF a
<1>3. Spans(u, "AFFECT", "ANSWER_GENERATION")
  BY <1>1, PathJoined DEF Spans, Behind
<1> HIDE DEF u
<1>4. Rest(u \o FromValidation) /\ u \o FromValidation # <<>> /\ Head(u \o FromValidation) = "AFFECT"
  BY <1>3, FromValidationRest, Joined DEF Spans, Behind
<1>5. /\ Rest(UpToAction \o FromValidation) /\ UpToAction \o FromValidation # <<>>
      /\ Head(UpToAction \o FromValidation) = "AFFECT"
  BY <1>1, FromValidationRest, Joined DEF Spans, Behind
<1> QED
  BY <1>2, <1>4, <1>5 DEF Route, u, a

-----------------------------------------------------------------------------
(* What the phases compute, as far as the invariant looks at it. *)

LEMMA Extremes ==
    ASSUME NEW a \in Int, NEW b \in Int
    PROVE  /\ Max({a, b}) = IF a >= b THEN a ELSE b
           /\ Min({a, b}) = IF a <= b THEN a ELSE b
<1>1. Max({a, b}) \in {a, b} /\ \A y \in {a, b} : Max({a, b}) >= y
  <2>1. \E x \in {a, b} : \A y \in {a, b} : x >= y
    BY SMT
  <2> QED
    BY <2>1, Zenon DEF Max
<1>2. Min({a, b}) \in {a, b} /\ \A y \in {a, b} : y >= Min({a, b})
  <2>1. \E x \in {a, b} : \A y \in {a, b} : x <= y
    BY SMT
  <2>2. Min({a, b}) \in {a, b} /\ \A y \in {a, b} : Min({a, b}) <= y
    BY <2>1, Zenon DEF Min
  <2> QED
    BY <2>2
<1> QED
  BY <1>1, <1>2

(* No advice is without a reason.                                            *)
LEMMA FailureNamed ==
    ASSUME NEW ctx, ctx.failure = "none", ctx.said \subseteq {"retrieval_failure"}
    PROVE  Failure(ctx) # "none"
<1>1. Failure(ctx) = Classify(ctx.said)
  BY DEF Failure
<1> DEFINE hits == {i \in 1 .. Len(Lists) : Lists[i] \in ctx.said}
<1>2. hits \subseteq {3}
  <2>1. Len(Lists) = 8 /\ Lists[1] = "tool_failure" /\ Lists[2] = "memory_failure"
        /\ Lists[4] = "planning_failure" /\ Lists[5] = "hallucination_risk" /\ Lists[6] = "goal_conflict"
        /\ Lists[7] = "state_conflict" /\ Lists[8] = "emotional_conflict"
    BY DEF Lists
  <2>2. \A i \in 1 .. 8 : i = 1 \/ i = 2 \/ i = 3 \/ i = 4 \/ i = 5 \/ i = 6 \/ i = 7 \/ i = 8
    OBVIOUS
  <2>3. \A i \in 1 .. 8 : Lists[i] = "retrieval_failure" => i = 3
    BY <2>1, <2>2
  <2> QED
    BY <2>1, <2>3
<1>3. hits # {} => Min(hits) = 3
  <2> HIDE DEF hits
  <2>1. hits # {} => hits = {3, 3}
    BY <1>2
  <2> QED
    BY <2>1, Extremes
<1>4. Lists[3] = "retrieval_failure"
  BY DEF Lists
<1> QED
  BY <1>1, <1>3, <1>4 DEF Classify

(* A sequence that starts with x and goes on with members of S.              *)
Led(S, x, s) == s \in Seq(S \cup {x}) /\ Len(s) >= 1 /\ s[1] = x /\ \A i \in 2 .. Len(s) : s[i] \in S

LEMMA LedJoined ==
    ASSUME NEW S, NEW x, NEW s, Led(S, x, s), NEW t \in Seq(S)
    PROVE  Led(S, x, s \o t)
<1> DEFINE u == s \o t
<1>1. s \in Seq(S \cup {x}) /\ t \in Seq(S \cup {x}) /\ Len(s) \in Nat /\ Len(t) \in Nat /\ Len(s) >= 1
  BY DEF Led
<1>2. u \in Seq(S \cup {x}) /\ Len(u) = Len(s) + Len(t)
  BY <1>1
<1>3. \A i \in 1 .. Len(u) : u[i] = IF i <= Len(s) THEN s[i] ELSE t[i - Len(s)]
  BY <1>1
<1> HIDE DEF u
<1>4. u[1] = x
  BY <1>1, <1>2, <1>3 DEF Led
<1>5. ASSUME NEW i \in 2 .. Len(u) PROVE u[i] \in S
  <2>1. CASE i <= Len(s)
    BY <1>1, <1>2, <1>3, <2>1 DEF Led
  <2>2. CASE ~(i <= Len(s))
    <3> DEFINE j == i - Len(s)
    <3>1. j \in 1 .. Len(t) /\ u[i] = t[j]
      BY <1>1, <1>2, <1>3, <2>2
    <3> HIDE DEF j
    <3>2. t[j] \in S
      BY <3>1
    <3> QED
      BY <3>1, <3>2
  <2> QED
    BY <2>1, <2>2
<1> QED
  BY <1>1, <1>2, <1>4, <1>5 DEF Led, u

LEMMA SourceKept ==
    ASSUME NEW s, NEW source, s.source = source, DOMAIN s = DOMAIN Signal("", 0, 0, 0, 0)
    PROVE  Calibrated(s).source = source
BY DEF Calibrated, Signal

LEMMA Sources ==
    ASSUME NEW found, NEW r, NEW update, NEW plan, NEW overall, NEW policy, NEW tool
    PROVE  /\ Calibrated(RetrievalSignal(found)).source = "retrieval"
           /\ Calibrated(ReflectionSignal(r)).source = "reflection"
           /\ Calibrated(AffectSignal(update)).source = "affect"
           /\ Calibrated(PlannerSignal(plan)).source = "planner"
           /\ Calibrated(StateSignal(overall)).source = "state"
           /\ Calibrated(PolicySignal(policy, tool)).source = "policy"
<1>1. Calibrated(RetrievalSignal(found)).source = "retrieval"
  <2>1. RetrievalSignal(found).source = "retrieval" /\ DOMAIN RetrievalSignal(found) = DOMAIN Signal("", 0, 0, 0, 0)
    BY DEF RetrievalSignal, Signal
  <2> QED
    BY <2>1, SourceKept
<1>2. Calibrated(ReflectionSignal(r)).source = "reflection"
  <2>1. ReflectionSignal(r).source = "reflection" /\ DOMAIN ReflectionSignal(r) = DOMAIN Signal("", 0, 0, 0, 0)
    BY DEF ReflectionSignal, Signal
  <2> QED
    BY <2>1, SourceKept
<1>3. Calibrated(AffectSignal(update)).source = "affect"
  <2>1. AffectSignal(update).source = "affect" /\ DOMAIN AffectSignal(update) = DOMAIN Signal("", 0, 0, 0, 0)
    BY DEF AffectSignal, Signal
  <2> QED
    BY <2>1, SourceKept
<1>4. Calibrated(PlannerSignal(plan)).source = "planner"
  <2>1. PlannerSignal(plan).source = "planner" /\ DOMAIN PlannerSignal(plan) = DOMAIN Signal("", 0, 0, 0, 0)
    BY DEF PlannerSignal, Signal
  <2> QED
    BY <2>1, SourceKept
<1>5. Calibrated(StateSignal(overall)).source = "state"
  <2>1. StateSignal(overall).source = "state" /\ DOMAIN StateSignal(overall) = DOMAIN Signal("", 0, 0, 0, 0)
    BY DEF StateSignal, Signal
  <2> QED
    BY <2>1, SourceKept
<1>6. Calibrated(PolicySignal(policy, tool)).source = "policy"
  <2>1. PolicySignal(policy, tool).source = "policy" /\ DOMAIN PolicySignal(policy, tool) = DOMAIN Signal("", 0, 0, 0, 0)
    BY DEF PolicySignal, Signal
  <2> QED
    BY <2>1, SourceKept
<1> QED
  BY <1>1, <1>2, <1>3, <1>4, <1>5, <1>6

(* The estimate knows the retrieval of its own evidence, and no other.       *)
LEMMA EstimateOfFound ==
    ASSUME NEW found, NEW reflected, NEW update, NEW plan, NEW overall, NEW policy
    PROVE  estimate(CalibratedSignals(found, reflected, update, plan, overall, policy)).retrieval = Gap(found)
<1> DEFINE raw == Signals(found, reflected, update, plan, overall, policy)
           signals == CalibratedSignals(found, reflected, update, plan, overall, policy)
           mirror == ReflectionSignal(CHOOSE r \in reflected : TRUE)
           state == StateSignal(Within(overall))
           rule == PolicySignal(policy, plan.tool)
           S == {mirror, AffectSignal(update), PlannerSignal(plan), state, rule}
           x == RetrievalSignal(found)
           b == IF reflected = {} THEN <<>> ELSE <<mirror>>
           c == <<AffectSignal(update), PlannerSignal(plan)>>
           d == IF overall = None THEN <<>> ELSE <<state>>
           e == <<rule>>
<1>1. DOMAIN signals = DOMAIN raw /\ \A i \in DOMAIN raw : signals[i] = Calibrated(raw[i])
  BY DEF CalibratedSignals
<1>2. \A y \in S : Calibrated(y).source # "retrieval"
  <2>1. /\ Calibrated(mirror).source = "reflection" /\ Calibrated(AffectSignal(update)).source = "affect"
        /\ Calibrated(PlannerSignal(plan)).source = "planner" /\ Calibrated(state).source = "state"
        /\ Calibrated(rule).source = "policy"
    BY Sources, Zenon
  <2> HIDE DEF mirror, state, rule
  <2> QED
    BY <2>1
<1>3. Calibrated(x).source = "retrieval"
  BY Sources
<1>4. Led(S, x, <<x>>)
  <2> HIDE DEF x, S
  <2> QED
    BY DEF Led
<1>5. b \in Seq(S) /\ c \in Seq(S) /\ d \in Seq(S) /\ e \in Seq(S)
  <2>1. /\ mirror \in S /\ AffectSignal(update) \in S /\ PlannerSignal(plan) \in S /\ state \in S
        /\ rule \in S
    BY Zenon
  <2>2. \A y, z \in S : <<>> \in Seq(S) /\ <<y>> \in Seq(S) /\ <<y, z>> \in Seq(S)
    <3> HIDE DEF S
    <3> QED
      OBVIOUS
  <2> HIDE DEF mirror, state, rule, S
  <2> QED
    BY <2>1, <2>2, Zenon
<1> HIDE DEF S
<1>6. raw = (IF Responded(found) THEN <<x>> ELSE <<>>) \o b \o c \o d \o e
  BY DEF Signals
<1> HIDE DEF x, b, c, d, e, raw, signals
<1>7. ASSUME Responded(found)
      PROVE  RetrievalUncertainty(signals) = Gap(found)
  <2>1. Led(S, x, <<x>> \o b)
    BY <1>4, <1>5, LedJoined
  <2>2. Led(S, x, (<<x>> \o b) \o c)
    BY <1>5, <2>1, LedJoined
  <2>3. Led(S, x, ((<<x>> \o b) \o c) \o d)
    BY <1>5, <2>2, LedJoined
  <2>4. Led(S, x, (((<<x>> \o b) \o c) \o d) \o e)
    BY <1>5, <2>3, LedJoined
  <2>5. Led(S, x, raw)
    BY <1>6, <1>7, <2>4
  <2>6. 1 \in DOMAIN raw /\ raw[1] = x /\ \A i \in DOMAIN raw : i # 1 => raw[i] \in S
    BY <2>5 DEF Led
  <2>7. {j \in DOMAIN signals : signals[j].source = "retrieval"} = {1}
    BY <1>1, <1>2, <1>3, <2>6
  <2>8. {0} \cup {signals[i].uncertainty : i \in {j \in DOMAIN signals : signals[j].source = "retrieval"}}
           = {0, Calibrated(x).uncertainty}
    BY <1>1, <2>6, <2>7
  <2> QED
    BY <1>7, <2>8 DEF RetrievalUncertainty, Gap, x
<1>8. ASSUME ~Responded(found)
      PROVE  RetrievalUncertainty(signals) = Gap(found)
  <2>1. raw = b \o c \o d \o e
    BY <1>5, <1>6, <1>8
  <2>2. raw \in Seq(S)
    BY <1>5, <2>1
  <2>3. \A i \in DOMAIN signals : signals[i].source # "retrieval"
    BY <1>1, <1>2, <2>2
  <2>4. {0} \cup {signals[i].uncertainty : i \in {j \in DOMAIN signals : signals[j].source = "retrieval"}}
           = {0}
    BY <2>3
  <2> QED
    BY <1>8, <2>4 DEF RetrievalUncertainty, Gap
<1> QED
  BY <1>7, <1>8 DEF estimate, signals

(* A retrieval response without results is a reason to retry.                *)
LEMMA GapOfNothing ==
    ASSUME NEW found \in Founds, Responded(found), found.memories = 0
    PROVE  Gap(found) >= GatePolicy.retry
<1>1. found.confidence = 0 /\ found.ambiguity = 1000 /\ found.coverage = 0
  BY FoundsAssumption DEF One
<1>2. Within(1000) = 1000
  BY Extremes DEF Within, One
<1>3. RetrievalSignal(found).uncertainty = 1000 /\ RetrievalSignal(found).source = "retrieval"
  BY <1>1, <1>2 DEF RetrievalSignal, Signal, Percent, One
<1>4. Calibrated(RetrievalSignal(found)).uncertainty = 715
  BY <1>3 DEF Calibrated, Percent, One, ProfileReliability, RetrievalSignal, Signal
<1>5. Gap(found) = 715
  BY <1>4, Extremes DEF Gap, Responded
<1> QED
  BY <1>5 DEF GatePolicy

LEMMA GateDecides ==
    ASSUME NEW estimated, NEW risk, NEW retries \in Nat,
           evaluate(estimated, risk, retries, FALSE) \notin Withheld
    PROVE  retries >= 1 \/ ~(estimated.retrieval >= GatePolicy.retry)
BY DEF evaluate, Withheld, GatePolicy

(* The engine moves the state it is given as the session's own texts would.  *)
LEMMA MoodMoved ==
    ASSUME NEW profile, NEW current, NEW past, NEW mine,
           current.baseline = Zero, current.pad = mine.pad, current.momentum = mine.momentum
    PROVE  LET u == process(profile, current, past) IN
           /\ u.profile = profile /\ u.emotional.baseline = Zero
           /\ u.emotional.pad = Felt(mine, profile).pad
           /\ u.emotional.momentum = Felt(mine, profile).momentum
<1>1. NextPad(profile, current) = NextPad(profile, [Calm EXCEPT !.pad = mine.pad])
  BY DEF NextPad, Calm
<1> DEFINE u == process(profile, current, past)
<1>2. /\ u.profile = profile /\ u.emotional.baseline = current.baseline
      /\ u.emotional.pad = NextPad(profile, current)
      /\ u.emotional.momentum = update_momentum(current.momentum, profile)
  BY DEF process
<1>3. /\ Felt(mine, profile).pad = NextPad(profile, [Calm EXCEPT !.pad = mine.pad])
      /\ Felt(mine, profile).momentum = update_momentum(mine.momentum, profile)
  BY DEF Felt
<1> QED
  BY <1>1, <1>2, <1>3

-----------------------------------------------------------------------------
(* The steps. *)

LEMMA Begins == Init => IInv
<1> SUFFICES ASSUME Init PROVE IInv
  OBVIOUS
<1>1. todo = <<>> /\ context = Blank
  BY DEF Init
<1>2. Shaped
  BY <1>1 DEF Shaped, Rest, Path, Counts, Blank
<1>3. Moods
  BY <1>1 DEF Init, Moods, MoodIsOwn, Facing, Calm, Zero
<1>4. Evidence /\ Plans
  BY <1>1 DEF Evidence, Plans, Facing, Acted, Blank
<1>5. Executions
  BY <1>1 DEF Init, Executions, ProcedureIsVerified, Facing, Blank
<1> QED
  BY <1>2, <1>3, <1>4, <1>5 DEF IInv

LEMMA Loads ==
    ASSUME IInv, StateLoad
    PROVE  IInv'
<1> PICK r \in Requests :
          /\ request' = r
          /\ todo' = Route(r.task)
          /\ context' = [Blank EXCEPT !.emotional = committed[r.session]]
  BY DEF StateLoad
<1>0. UNCHANGED <<shared, stores, own>>
  BY DEF StateLoad
<1>1. Rest(todo') /\ todo' # <<>> /\ Head(todo') = "AFFECT"
  BY RouteFacts
<1>2. /\ DOMAIN context' = DOMAIN Blank /\ context'.acquisitions = 0 /\ context'.retries = 0
      /\ context'.interventions = 0 /\ context'.replans = 0 /\ context'.reason = "none"
      /\ context'.plan = Absent /\ context'.status = "none" /\ context'.generation = "none"
      /\ context'.steps = <<>> /\ context'.emotional = committed[r.session]
  BY DEF Blank
<1>3. Shaped'
  BY <1>1, <1>2 DEF Shaped, Counts
<1>4. Moods'
  BY <1>0, <1>1, <1>2 DEF IInv, Moods, MoodIsOwn, Facing, stores
<1>5. Evidence'
  BY <1>1, <1>2 DEF Evidence, Facing, Acted, Opening, Delivery
<1>6. Plans'
  BY <1>1, <1>2 DEF Plans, Facing, Opening
<1>7. Executions'
  <2>1. context'.steps \in Seq(Reports)
    <3>1. <<>> \in Seq(Reports)
      OBVIOUS
    <3> QED
      BY <1>2, <3>1, Zenon
  <2>2. ProcedureIsVerified'
    BY <1>0 DEF IInv, Executions, ProcedureIsVerified, stores
  <2>3. ~Facing({"ACTION"})'
    BY <1>1 DEF Facing
  <2> QED
    BY <1>2, <2>1, <2>2, <2>3 DEF Executions
<1> QED
  BY <1>3, <1>4, <1>5, <1>6, <1>7 DEF IInv

LEMMA Failed ==
    ASSUME IInv, Fails
    PROVE  IInv'
<1>1. todo' = <<>> /\ context' = Blank /\ UNCHANGED <<stores, own>>
  BY DEF Fails
<1>2. Shaped' /\ Evidence' /\ Plans'
  BY <1>1 DEF Shaped, Rest, Path, Counts, Evidence, Plans, Facing, Acted, Blank
<1>3. Moods'
  BY <1>1 DEF IInv, Moods, MoodIsOwn, Facing, stores
<1>4. Executions'
  BY <1>1 DEF IInv, Executions, ProcedureIsVerified, Facing, stores, Blank
<1> QED
  BY <1>2, <1>3, <1>4 DEF IInv

(* The phase at the head is done with.                                       *)
LEMMA Passed ==
    ASSUME IInv, NEW p, In(p), p # "MEMORY_COMMIT", todo' = Tail(todo)
    PROVE  /\ Rest(todo') /\ todo' # <<>> /\ Head(todo') \in Behind(p)
           /\ p \in Phases /\ request \in Requests
<1>1. Rest(todo) /\ todo # <<>> /\ Head(todo) = p
  BY DEF IInv, Shaped, In
<1>2. Rest(todo') /\ todo' # <<>> /\ Head(todo') \in Behind(p)
  BY <1>1, Following
<1>3. p \in Phases
  BY <1>1 DEF Rest, Path
<1> QED
  BY <1>1, <1>2, <1>3 DEF IInv, Shaped

LEMMA Skips ==
    ASSUME IInv, Skip
    PROVE  IInv'
<1> DEFINE p == Head(todo)
           q == Head(todo')
<1>1. /\ In(p) /\ p \in {"REFLECTION", "ACTION", "ANSWER_GENERATION"} /\ todo' = Tail(todo)
      /\ UNCHANGED <<stores, request, context, own>>
  BY DEF Skip, Skipped, In
<1>2. Rest(todo') /\ todo' # <<>> /\ q \in Behind(p) /\ request \in Requests
  BY <1>1, Passed
<1>3. q \in {"ACTION", "ANSWER_GENERATION", "OUTPUT_VALIDATION"} /\ (q = "ACTION" => p = "REFLECTION")
  BY <1>1, <1>2 DEF Behind
<1>4. Shaped'
  BY <1>1, <1>2 DEF IInv, Shaped, Counts
<1>5. Moods'
  <2>1. Facing(Phases \ {"AFFECT", "MEMORY_COMMIT"}) /\ ~Facing({"AFFECT"})'
    BY <1>1, <1>3, PhaseNames DEF Facing, In
  <2> QED
    BY <1>1, <2>1 DEF IInv, Moods, MoodIsOwn, stores
<1>6. Evidence' /\ Plans'
  <2>1. /\ Facing(Phases \ Opening) /\ Facing(Delivery \cup {"REFLECTION"})
        /\ Facing(Phases \ (Opening \cup {"PLANNING"})) /\ ~Facing({"PLANNING"})
    BY <1>1, PhaseNames DEF Facing, In, Opening, Delivery
  <2>2. /\ ~Facing(Opening)' /\ ~Facing({"EXECUTION_DECISION"})' /\ ~Facing(Thinking)'
        /\ ~Facing(Opening \cup {"PLANNING"})'
    BY <1>3 DEF Facing, Opening, Thinking, Judges
  <2>3. Evidence'
    BY <1>1, <2>1, <2>2 DEF IInv, Evidence, Enough, Acted
  <2>4. Plans'
    BY <1>1, <2>1, <2>2 DEF IInv, Plans, Enough
  <2> QED
    BY <2>3, <2>4
<1>7. Executions'
  <2>1. q = "ACTION" => context.status = "none"
    BY <1>1, <1>3 DEF IInv, Evidence, Facing, In, Thinking, Acted
  <2> QED
    BY <1>1, <2>1 DEF IInv, Executions, ProcedureIsVerified, Facing, stores
<1> QED
  BY <1>4, <1>5, <1>6, <1>7 DEF IInv

LEMMA Affects ==
    ASSUME IInv, Affect
    PROVE  IInv'
<1> DEFINE profile == ProfileOf(request.text)
           s == request.session
           q == Head(todo')
<1> PICK u \in {process(profile, StateSource, history)} :
          context' = [context EXCEPT !.emotional = u.emotional, !.update = u]
  BY DEF Affect
<1>0. In("AFFECT") /\ todo' = Tail(todo) /\ UNCHANGED <<stores, request, own>>
  BY DEF Affect
<1>1. Rest(todo') /\ todo' # <<>> /\ q = "EVIDENCE_ACQUISITION" /\ request \in Requests
  BY <1>0, Passed DEF Behind
<1>2. /\ DOMAIN context' = DOMAIN Blank /\ context'.acquisitions = context.acquisitions
      /\ context'.retries = context.retries /\ context'.interventions = context.interventions
      /\ context'.replans = context.replans /\ context'.reason = context.reason
      /\ context'.plan = context.plan /\ context'.status = context.status
      /\ context'.generation = context.generation /\ context'.steps = context.steps
      /\ context'.found = context.found /\ context'.emotional = u.emotional /\ context'.update = u
  BY DEF IInv, Shaped, Blank
<1>3. Shaped'
  BY <1>0, <1>1, <1>2 DEF IInv, Shaped, Counts
<1>4. Moods'
  <2>1. s \in Sessions
    BY <1>1, RequestsAssumption
  <2>2. /\ context.emotional.baseline = Zero /\ context.emotional.pad = own[s].pad
        /\ context.emotional.momentum = own[s].momentum
    BY <1>0, <2>1 DEF IInv, Moods, MoodIsOwn, Facing, In
  <2>3. /\ u.profile = profile /\ u.emotional.baseline = Zero
        /\ u.emotional.pad = Felt(own[s], profile).pad
        /\ u.emotional.momentum = Felt(own[s], profile).momentum
    BY <2>2, MoodMoved DEF StateSource
  <2>4. ~Facing({"AFFECT"})'
    BY <1>1 DEF Facing
  <2> QED
    BY <1>0, <1>2, <2>3, <2>4 DEF IInv, Moods, MoodIsOwn, stores
<1>5. Evidence'
  <2>1. Facing(Opening) /\ Facing(Thinking)
    BY <1>0 DEF Facing, In, Opening, Thinking
  <2>2. /\ ~Facing(Phases \ Opening)' /\ ~Facing({"EXECUTION_DECISION"})'
        /\ ~Facing(Delivery \cup {"REFLECTION"})'
    BY <1>1 DEF Facing, Opening, Delivery
  <2> QED
    BY <1>2, <2>1, <2>2 DEF IInv, Evidence, Acted
<1>6. Plans'
  <2>1. Facing(Opening \cup {"PLANNING"}) /\ ~Facing({"PLANNING"})
    BY <1>0 DEF Facing, In, Opening
  <2>2. context.replans = 0
    BY <2>1 DEF IInv, Plans
  <2>3. ~Facing(Phases \ (Opening \cup {"PLANNING"}))'
    BY <1>1 DEF Facing, Opening
  <2> QED
    BY <1>2, <2>2, <2>3 DEF IInv, Plans
<1>7. Executions'
  <2>1. ~Facing({"ACTION"})'
    BY <1>1 DEF Facing
  <2> QED
    BY <1>0, <1>2, <2>1 DEF IInv, Executions, ProcedureIsVerified, stores
<1> QED
  BY <1>3, <1>4, <1>5, <1>6, <1>7 DEF IInv

(* What a phase before the delivery leaves alone stays as it should be: the  *)
(* emotions, once there are any, and the executions.                         *)
LEMMA Calmly ==
    ASSUME IInv, todo # <<>>, Head(todo) \notin {"AFFECT", "MEMORY_COMMIT"},
           todo' # <<>>, Head(todo') \notin {"AFFECT"}, Rest(todo),
           context'.emotional = context.emotional, context'.update = context.update,
           UNCHANGED <<committed, own, request>>
    PROVE  Moods'
<1>1. Head(todo) \in Phases
  BY DEF Rest, Path
<1>2. Facing(Phases \ {"AFFECT", "MEMORY_COMMIT"}) /\ ~Facing({"AFFECT"})'
  BY <1>1 DEF Facing
<1> QED
  BY <1>2 DEF IInv, Moods, MoodIsOwn

LEMMA Idly ==
    ASSUME IInv, todo' # <<>>, Head(todo') # "ACTION" \/ context.status # "success",
           context'.steps = context.steps, context'.status = context.status,
           UNCHANGED <<procedures, request>>
    PROVE  Executions'
BY DEF IInv, Executions, ProcedureIsVerified, Facing

LEMMA Acquires ==
    ASSUME IInv, EvidenceAcquisition
    PROVE  IInv'
<1> DEFINE p == "EVIDENCE_ACQUISITION"
           q == Head(todo')
<1> PICK f \in Founds : Computes(p, [context EXCEPT !.found = f, !.acquisitions = @ + 1])
  BY DEF EvidenceAcquisition
<1>0. /\ In(p) /\ todo' = Tail(todo) /\ UNCHANGED <<stores, request, own>>
      /\ context' = [context EXCEPT !.found = f, !.acquisitions = @ + 1]
  BY DEF Computes
<1>1. Rest(todo') /\ todo' # <<>> /\ q = "PLANNING" /\ request \in Requests
  BY <1>0, Passed DEF Behind
<1>2. /\ DOMAIN context' = DOMAIN Blank /\ context'.acquisitions = context.acquisitions + 1
      /\ context'.retries = context.retries /\ context'.interventions = context.interventions
      /\ context'.replans = context.replans /\ context'.reason = context.reason
      /\ context'.plan = context.plan /\ context'.status = context.status
      /\ context'.generation = context.generation /\ context'.steps = context.steps
      /\ context'.found = f /\ context'.emotional = context.emotional /\ context'.update = context.update
  BY <1>0 DEF IInv, Shaped, Blank
<1>3. Shaped'
  BY <1>0, <1>1, <1>2 DEF IInv, Shaped, Counts
<1>4. Moods'
  BY <1>0, <1>1, <1>2, Calmly DEF IInv, Shaped, In, stores
<1>5. Evidence'
  <2>1. Facing(Opening) /\ Facing(Thinking)
    BY <1>0 DEF Facing, In, Opening, Thinking
  <2>2. ~Facing(Opening)' /\ ~Facing({"EXECUTION_DECISION"})' /\ ~Facing(Delivery \cup {"REFLECTION"})'
    BY <1>1 DEF Facing, Opening, Delivery
  <2> QED
    BY <1>2, <2>1, <2>2 DEF IInv, Shaped, Counts, Evidence, Acted
<1>6. Plans'
  <2>1. Facing(Opening \cup {"PLANNING"}) /\ ~Facing({"PLANNING"})
    BY <1>0 DEF Facing, In, Opening
  <2>2. context.replans = 0
    BY <2>1 DEF IInv, Plans
  <2>3. ~Facing(Phases \ (Opening \cup {"PLANNING"}))'
    BY <1>1 DEF Facing, Opening
  <2> QED
    BY <1>2, <2>2, <2>3 DEF IInv, Plans
<1>7. Executions'
  BY <1>0, <1>1, <1>2, Idly DEF stores
<1> QED
  BY <1>3, <1>4, <1>5, <1>6, <1>7 DEF IInv

LEMMA PlansMade ==
    ASSUME NEW ctx, NEW actions, NEW reason, NEW revision
    PROVE  Tooled(Plan(ctx, actions, reason, revision)).revision = revision
BY DEF Tooled, Plan

LEMMA Revises ==
    ASSUME IInv, Planning
    PROVE  IInv'
<1> DEFINE p == "PLANNING"
           q == Head(todo')
           made == Tooled(IF context.plan # Absent /\ context.reason # "none"
                          THEN replan(PlanningContext, context.plan, context.reason)
                          ELSE create_plan(PlanningContext))
<1>0. /\ In(p) /\ todo' = Tail(todo) /\ UNCHANGED <<stores, request, own>>
      /\ context' = [context EXCEPT !.reason = "none", !.plan = made]
  BY DEF Planning, Computes
<1>1. Rest(todo') /\ todo' # <<>> /\ q = "WORLD_SIMULATION" /\ request \in Requests
  BY <1>0, Passed DEF Behind
<1>2. /\ DOMAIN context' = DOMAIN Blank /\ context'.acquisitions = context.acquisitions
      /\ context'.retries = context.retries /\ context'.interventions = context.interventions
      /\ context'.replans = context.replans /\ context'.reason = "none"
      /\ context'.plan = made /\ context'.status = context.status
      /\ context'.generation = context.generation /\ context'.steps = context.steps
      /\ context'.found = context.found /\ context'.emotional = context.emotional
      /\ context'.update = context.update
  <2> HIDE DEF made
  <2> QED
    BY <1>0 DEF IInv, Shaped, Blank
<1>3. made.revision = IF context.plan # Absent /\ context.reason # "none" THEN context.plan.revision + 1 ELSE 0
  <2>1. CASE context.plan # Absent /\ context.reason # "none"
    BY <2>1, PlansMade DEF replan
  <2>2. CASE ~(context.plan # Absent /\ context.reason # "none")
    BY <2>2, PlansMade DEF create_plan
  <2> QED
    BY <2>1, <2>2
<1> HIDE DEF made
<1>4. Shaped'
  BY <1>0, <1>1, <1>2 DEF IInv, Shaped, Counts
<1>5. Moods'
  BY <1>0, <1>1, <1>2, Calmly DEF IInv, Shaped, In, stores
<1>6. Evidence'
  <2>1. Facing(Phases \ Opening) /\ Facing(Thinking)
    BY <1>0, PhaseNames DEF Facing, In, Opening, Thinking
  <2>2. ~Facing(Opening)' /\ ~Facing({"EXECUTION_DECISION"})' /\ ~Facing(Delivery \cup {"REFLECTION"})'
    BY <1>1 DEF Facing, Opening, Delivery
  <2> QED
    BY <1>2, <2>1, <2>2 DEF IInv, Shaped, Counts, Evidence, Acted
<1>7. Plans'
  <2>1. ~Facing(Opening \cup {"PLANNING"})'
    BY <1>1 DEF Facing, Opening
  <2>2. Facing(Opening \cup {"PLANNING"})
    BY <1>0 DEF Facing, In
  <2>3. CASE context.replans = 0
    <3>1. made.revision = 0
      BY <1>3, <2>3 DEF IInv, Plans
    <3> QED
      BY <1>2, <2>3, <3>1 DEF Plans
  <2>4. CASE context.replans = 1
    <3>1. context.reason # "none" /\ context.plan.revision = 0 /\ context.plan # Absent
      BY <2>2, <2>4 DEF IInv, Plans, Absent, None
    <3>2. made.revision = 1
      BY <1>3, <3>1
    <3>3. context.interventions >= 1 /\ Enough
      BY <2>4 DEF IInv, Plans
    <3>4. Enough'
      BY <1>2, <3>3 DEF Enough
    <3> QED
      BY <1>2, <2>1, <2>4, <3>2, <3>3, <3>4 DEF Plans
  <2> QED
    BY <2>3, <2>4 DEF IInv, Plans
<1>8. Executions'
  BY <1>0, <1>1, <1>2, Idly DEF stores
<1> QED
  BY <1>4, <1>5, <1>6, <1>7, <1>8 DEF IInv

(* What the phases between the plan and the delivery leave of the context.   *)
Kept ==
    /\ DOMAIN context' = DOMAIN Blank
    /\ context'.acquisitions = context.acquisitions /\ context'.found = context.found
    /\ context'.interventions = context.interventions /\ context'.replans = context.replans
    /\ context'.reason = context.reason /\ context'.plan = context.plan
    /\ context'.status = context.status /\ context'.generation = context.generation
    /\ context'.steps = context.steps /\ context'.emotional = context.emotional
    /\ context'.update = context.update
    /\ UNCHANGED <<stores, request, own>>

LEMMA PlansKept ==
    ASSUME IInv, Kept, context'.retries = context.retries,
           todo # <<>>, todo' # <<>>, Rest(todo), Head(todo') \notin Opening \cup {"PLANNING"},
           Head(todo) \notin Opening \cup {"PLANNING"}
    PROVE  Plans'
<1>1. Facing(Phases \ (Opening \cup {"PLANNING"})) /\ ~Facing({"PLANNING"})
  BY DEF Facing, Rest, Path
<1>2. ~Facing(Opening \cup {"PLANNING"})'
  BY DEF Facing
<1>3. Enough => Enough'
  BY DEF Kept, Enough
<1> QED
  BY <1>1, <1>2, <1>3 DEF IInv, Plans, Kept

LEMMA Simulates ==
    ASSUME IInv, WorldSimulation
    PROVE  IInv'
<1> DEFINE p == "WORLD_SIMULATION"
           q == Head(todo')
           made == simulate(context.plan, Settled[request.session], Policy)
<1>0. /\ In(p) /\ todo' = Tail(todo) /\ UNCHANGED <<stores, request, own>>
      /\ context' = [context EXCEPT !.prediction = made]
  BY DEF WorldSimulation, Computes
<1> HIDE DEF made
<1>1. Rest(todo') /\ todo' # <<>> /\ q = "UNCERTAINTY_ESTIMATION" /\ request \in Requests
  BY <1>0, Passed DEF Behind
<1>2. Kept /\ context'.retries = context.retries
  BY <1>0 DEF IInv, Shaped, Blank, Kept
<1>3. Shaped'
  BY <1>0, <1>1, <1>2 DEF IInv, Shaped, Counts, Kept
<1>4. Moods'
  BY <1>0, <1>1, <1>2, Calmly DEF IInv, Shaped, In, stores, Kept
<1>5. Evidence'
  <2>1. Facing(Phases \ Opening) /\ Facing(Thinking)
    BY <1>0, PhaseNames DEF Facing, In, Opening, Thinking, Judges
  <2>2. ~Facing(Opening)' /\ ~Facing({"EXECUTION_DECISION"})' /\ ~Facing(Delivery \cup {"REFLECTION"})'
    BY <1>1 DEF Facing, Opening, Delivery
  <2> QED
    BY <1>2, <2>1, <2>2 DEF IInv, Evidence, Acted, Kept
<1>6. Plans'
  BY <1>0, <1>1, <1>2, PlansKept DEF IInv, Shaped, In, Opening
<1>7. Executions'
  BY <1>0, <1>1, <1>2, Idly DEF stores, Kept
<1> QED
  BY <1>3, <1>4, <1>5, <1>6, <1>7 DEF IInv

LEMMA Estimates ==
    ASSUME IInv, UncertaintyEstimation
    PROVE  IInv'
<1> DEFINE p == "UNCERTAINTY_ESTIMATION"
           q == Head(todo')
           made == estimate(CalibratedSignals(context.found, context.reflected, context.update, context.plan,
                                              Settled[request.session].overall, Policy))
<1>0. /\ In(p) /\ todo' = Tail(todo) /\ UNCHANGED <<stores, request, own>>
      /\ context' = [context EXCEPT !.estimated = made]
  BY DEF UncertaintyEstimation, Computes
<1>1. made.retrieval = Gap(context.found)
  BY EstimateOfFound
<1> HIDE DEF made
<1>2. Rest(todo') /\ todo' # <<>> /\ q = "EXECUTION_DECISION" /\ request \in Requests
  BY <1>0, Passed DEF Behind
<1>3. Kept /\ context'.retries = context.retries /\ context'.estimated = made
  BY <1>0 DEF IInv, Shaped, Blank, Kept
<1>4. Shaped'
  BY <1>0, <1>2, <1>3 DEF IInv, Shaped, Counts, Kept
<1>5. Moods'
  BY <1>0, <1>2, <1>3, Calmly DEF IInv, Shaped, In, stores, Kept
<1>6. Evidence'
  <2>1. Facing(Phases \ Opening) /\ Facing(Thinking)
    BY <1>0, PhaseNames DEF Facing, In, Opening, Thinking, Judges
  <2>2. ~Facing(Opening)' /\ ~Facing(Delivery \cup {"REFLECTION"})'
    BY <1>2 DEF Facing, Opening, Delivery
  <2> QED
    BY <1>1, <1>3, <2>1, <2>2 DEF IInv, Evidence, Acted, Kept
<1>7. Plans'
  BY <1>0, <1>2, <1>3, PlansKept DEF IInv, Shaped, In, Opening
<1>8. Executions'
  BY <1>0, <1>2, <1>3, Idly DEF stores, Kept
<1> QED
  BY <1>4, <1>5, <1>6, <1>7, <1>8 DEF IInv

LEMMA GateRetries ==
    ASSUME NEW estimated, NEW risk, NEW retries \in Nat,
           evaluate(estimated, risk, retries, FALSE) = "retry_retrieval"
    PROVE  estimated.retrieval >= GatePolicy.retry /\ retries = 0
BY DEF evaluate, GatePolicy

LEMMA Decides ==
    ASSUME IInv, ExecutionDecision
    PROVE  IInv'
<1> DEFINE p == "EXECUTION_DECISION"
           q == Head(todo')
           rest == Tail(todo)
<1>0. In(p) /\ UNCHANGED <<stores, request, own>>
  BY DEF ExecutionDecision
<1>a. PICK d :
          d = evaluate(context.estimated, context.prediction.risk, context.retries, FALSE) /\
          LET again == d = "retry_retrieval" /\ context.retries < GatePolicy.retries
          IN  /\ context' = [context EXCEPT !.decision = d, !.retries = IF again THEN @ + 1 ELSE @]
              /\ todo' = (IF again THEN <<"EVIDENCE_ACQUISITION">> \o Judging ELSE <<>>) \o Tail(todo)
  BY DEF ExecutionDecision
<1> DEFINE again == d = "retry_retrieval" /\ context.retries < GatePolicy.retries
<1>1. /\ Rest(rest) /\ rest # <<>> /\ Head(rest) = "REFLECTION" /\ Head(rest) \in Behind(p) /\ request \in Requests
      /\ todo # <<>> /\ Head(todo) = p
  <2>1. Rest(todo) /\ todo # <<>> /\ Head(todo) = p /\ request \in Requests
    BY <1>0 DEF IInv, Shaped, In
  <2>2. Rest(rest) /\ rest # <<>> /\ Head(rest) \in Behind(p)
    BY <2>1, Following
  <2> QED
    BY <2>1, <2>2 DEF Behind
<1>2. /\ Kept /\ context'.decision = d
      /\ context'.retries = IF again THEN context.retries + 1 ELSE context.retries
  BY <1>0, <1>a DEF IInv, Shaped, Blank, Kept
<1>3. context.estimated.retrieval = Gap(context.found) /\ context.retries \in Nat
  BY <1>1 DEF IInv, Shaped, Counts, Evidence, Facing
<1>4. Facing(Phases \ Opening) /\ Facing(Thinking) /\ ~Acted
  <2>1. Facing(Phases \ Opening) /\ Facing(Thinking)
    BY <1>1, PhaseNames DEF Facing, Opening, Thinking, Judges
  <2> QED
    BY <2>1 DEF IInv, Evidence
<1>5. CASE again
  <2>1. todo' = Retrieve \o rest
    BY <1>5, <1>a DEF Retrieve
  <2>2. Rest(todo') /\ todo' # <<>> /\ q = "EVIDENCE_ACQUISITION"
    BY <1>1, <2>1, Fronts, SpansJoined, ZenonT(60)
  <2>3. context.estimated.retrieval >= GatePolicy.retry /\ context.retries = 0 /\ context'.retries = 1
    <3>1. evaluate(context.estimated, context.prediction.risk, context.retries, FALSE) = "retry_retrieval"
      BY <1>5, <1>a
    <3>2. context.estimated.retrieval >= GatePolicy.retry /\ context.retries = 0
      BY <1>3, <3>1, GateRetries
    <3> QED
      BY <1>2, <1>5, <3>2
  <2>4. Shaped'
    BY <1>0, <1>1, <1>2, <2>2, <2>3 DEF IInv, Shaped, Counts, Kept
  <2>5. Moods'
    BY <1>0, <1>1, <1>2, <2>2, Calmly DEF IInv, Shaped, stores, Kept
  <2>6. Evidence'
    <3>1. /\ ~Facing(Phases \ Opening)' /\ ~Facing({"EXECUTION_DECISION"})'
          /\ ~Facing(Delivery \cup {"REFLECTION"})'
      BY <2>2 DEF Facing, Opening, Delivery
    <3>2. context.acquisitions >= context.retries + 1
      BY <1>4 DEF IInv, Evidence
    <3> QED
      BY <1>2, <1>4, <2>3, <3>1, <3>2 DEF Evidence, Acted, Kept
  <2>7. Plans'
    <3>1. ~Enough
      BY <1>3, <2>3 DEF Enough
    <3>2. context.replans = 0
      BY <3>1 DEF IInv, Plans
    <3>3. ~Facing(Phases \ (Opening \cup {"PLANNING"}))'
      BY <2>2 DEF Facing, Opening
    <3> QED
      BY <1>2, <3>2, <3>3 DEF IInv, Plans, Kept
  <2>8. Executions'
    BY <1>0, <1>2, <2>2, Idly DEF stores, Kept
  <2> QED
    BY <2>4, <2>5, <2>6, <2>7, <2>8 DEF IInv
<1>6. CASE ~again
  <2>1. todo' = rest
    <3>1. rest \in Seq(Phases)
      BY <1>1 DEF Rest, Path
    <3>2. todo' = <<>> \o rest
      BY <1>6, <1>a
    <3> HIDE DEF rest, again
    <3> QED
      BY <3>1, <3>2
  <2>2. Rest(todo') /\ todo' # <<>> /\ q = "REFLECTION" /\ context'.retries = context.retries
    BY <1>1, <1>2, <1>6, <2>1
  <2>4. Shaped'
    BY <1>0, <1>1, <1>2, <2>2 DEF IInv, Shaped, Counts, Kept
  <2>5. Moods'
    BY <1>0, <1>1, <1>2, <2>2, Calmly DEF IInv, Shaped, stores, Kept
  <2>6. Evidence'
    <3>1. ~Facing(Opening)' /\ ~Facing({"EXECUTION_DECISION"})'
      BY <2>2 DEF Facing, Opening
    <3>2. d \in Withheld \/ Enough
      BY <1>3, <1>a, GateDecides DEF Enough
    <3>3. Enough => Enough'
      BY <1>2, <2>2 DEF Enough, Kept
    <3> QED
      BY <1>2, <1>4, <2>2, <3>1, <3>2, <3>3 DEF IInv, Evidence, Acted, Kept
  <2>7. Plans'
    BY <1>0, <1>1, <1>2, <2>2, PlansKept DEF IInv, Shaped, In, Opening
  <2>8. Executions'
    BY <1>0, <1>2, <2>2, Idly DEF stores, Kept
  <2> QED
    BY <2>4, <2>5, <2>6, <2>7, <2>8 DEF IInv
<1> QED
  BY <1>5, <1>6

LEMMA Reflects ==
    ASSUME IInv, Reflection
    PROVE  IInv'
<1> DEFINE p == "REFLECTION"
           q == Head(todo')
           rest == Tail(todo)
<1>0. In(p) /\ ~Skipped(p) /\ UNCHANGED <<stores, request, own>>
  BY DEF Reflection
<1> DEFINE ctx == ReflectionContext
           reflection == {Reflected(ctx)}
           reason == Failure(ctx)
<1>a. PICK advice :
          IF Accepted(advice)
          THEN /\ context' = [Consumed([context EXCEPT !.reflected = reflection], advice.action) EXCEPT
                                 !.reason = IF advice.action = "replan" THEN reason ELSE @]
               /\ todo' = (IF advice.action = "replan" THEN <<>> ELSE <<"EVIDENCE_ACQUISITION">>)
                          \o Judging \o <<"REFLECTION">> \o Tail(todo)
          ELSE context' = [context EXCEPT !.reflected = reflection] /\ todo' = Tail(todo)
  BY DEF Reflection
<1>b. reason # "none"
  <2>1. ctx.failure = "none" /\ ctx.said \subseteq {"retrieval_failure"}
    BY DEF ReflectionContext
  <2> QED
    BY <2>1, FailureNamed
<1> HIDE DEF ctx, reflection, reason
<1>1. /\ Rest(rest) /\ rest # <<>> /\ Head(rest) = "ACTION" /\ Head(rest) \in Behind(p) /\ request \in Requests
      /\ todo # <<>> /\ Head(todo) = p
  <2>1. Rest(todo) /\ todo # <<>> /\ Head(todo) = p /\ request \in Requests
    BY <1>0 DEF IInv, Shaped, In
  <2>2. Rest(rest) /\ rest # <<>> /\ Head(rest) \in Behind(p)
    BY <2>1, Following
  <2> QED
    BY <2>1, <2>2 DEF Behind
<1>2. /\ context.acquisitions >= context.retries + 1 /\ context.found \in Founds /\ ~Acted
      /\ context.decision \notin Withheld /\ Enough
  <2>1. Facing(Phases \ Opening) /\ Facing(Thinking) /\ Facing(Delivery \cup {"REFLECTION"})
    BY <1>1, PhaseNames DEF Facing, Opening, Thinking, Delivery
  <2>2. context.decision = "reflect"
    BY <1>0 DEF Skipped
  <2>3. context.decision \notin Withheld
    BY <2>2 DEF Withheld
  <2> QED
    BY <2>1, <2>3 DEF IInv, Evidence
<1>3. CASE ~Accepted(advice)
  <2>1. context' = [context EXCEPT !.reflected = reflection] /\ todo' = rest
    BY <1>a, <1>3
  <2>2. /\ Kept /\ context'.retries = context.retries /\ context'.decision = context.decision
    BY <1>0, <2>1 DEF IInv, Shaped, Blank, Kept
  <2>3. Rest(todo') /\ todo' # <<>> /\ q = "ACTION"
    BY <1>1, <2>1
  <2>4. Shaped'
    BY <1>0, <1>1, <2>2, <2>3 DEF IInv, Shaped, Counts, Kept
  <2>5. Moods'
    BY <1>0, <1>1, <2>2, <2>3, Calmly DEF IInv, Shaped, stores, Kept
  <2>6. Evidence'
    <3>1. ~Facing(Opening)' /\ ~Facing({"EXECUTION_DECISION"})'
      BY <2>3 DEF Facing, Opening
    <3>2. Enough'
      BY <1>2, <2>2 DEF Enough, Kept
    <3> QED
      BY <1>2, <2>2, <3>1, <3>2 DEF Evidence, Acted, Kept
  <2>7. Plans'
    BY <1>0, <1>1, <2>2, <2>3, PlansKept DEF IInv, Shaped, In, Opening
  <2>8. Executions'
    <3>1. context.status # "success"
      BY <1>2 DEF Acted
    <3> QED
      BY <1>0, <2>2, <2>3, <3>1, Idly DEF stores, Kept
  <2> QED
    BY <2>4, <2>5, <2>6, <2>7, <2>8 DEF IInv
<1>4. CASE Accepted(advice)
  <2>1. context.interventions = 0 /\ context.replans = 0
    BY <1>4 DEF Accepted, Budget, IInv, Shaped, Counts, Plans
  <2>2. /\ context' = [Consumed([context EXCEPT !.reflected = reflection], advice.action) EXCEPT
                          !.reason = IF advice.action = "replan" THEN reason ELSE @]
        /\ todo' = (IF advice.action = "replan" THEN <<>> ELSE <<"EVIDENCE_ACQUISITION">>)
                       \o Judging \o <<"REFLECTION">> \o rest
    BY <1>a, <1>4
  <2>3. /\ DOMAIN context' = DOMAIN Blank
        /\ context'.acquisitions = context.acquisitions /\ context'.found = context.found
        /\ context'.plan = context.plan /\ context'.status = context.status
        /\ context'.generation = context.generation /\ context'.steps = context.steps
        /\ context'.emotional = context.emotional /\ context'.update = context.update
        /\ context'.retries = context.retries /\ context'.interventions = 1
        /\ context'.replans = (IF advice.action = "replan" THEN 1 ELSE 0)
        /\ context'.reason = IF advice.action = "replan" THEN reason ELSE context.reason
    BY <2>1, <2>2 DEF IInv, Shaped, Blank, Consumed
  <2>4. /\ Rest(todo') /\ todo' # <<>>
        /\ q = IF advice.action = "replan" THEN "PLANNING" ELSE "EVIDENCE_ACQUISITION"
    <3>1. CASE advice.action = "replan"
      <4>1. <<>> \o Judging = Judging
        BY JudgingPath DEF Path
      <4>2. todo' = Revise \o rest
        BY <2>2, <3>1, <4>1 DEF Revise
      <4>3. Rest(Revise \o rest) /\ Revise \o rest # <<>> /\ Head(Revise \o rest) = "PLANNING"
        <5>1. Spans(Revise, "PLANNING", "REFLECTION")
          BY Fronts
        <5> QED
          BY <1>1, <5>1, SpansJoined
      <4> QED
        BY <3>1, <4>2, <4>3
    <3>2. CASE advice.action # "replan"
      <4>1. todo' = RetrieveRevise \o rest
        BY <2>2, <3>2 DEF RetrieveRevise
      <4>2. /\ Rest(RetrieveRevise \o rest) /\ RetrieveRevise \o rest # <<>>
            /\ Head(RetrieveRevise \o rest) = "EVIDENCE_ACQUISITION"
        <5>1. Spans(RetrieveRevise, "EVIDENCE_ACQUISITION", "REFLECTION")
          BY Fronts
        <5> QED
          BY <1>1, <5>1, SpansJoined
      <4> QED
        BY <3>2, <4>1, <4>2
    <3> QED
      BY <3>1, <3>2
  <2>5. Shaped'
    BY <1>0, <1>1, <2>3, <2>4 DEF IInv, Shaped, Counts
  <2>6. Moods'
    BY <1>0, <1>1, <2>3, <2>4, Calmly DEF IInv, Shaped, stores
  <2>7. Enough'
    BY <1>2, <2>3 DEF Enough
  <2>8. Evidence'
    <3>1. ~Facing({"EXECUTION_DECISION"})' /\ ~Facing(Delivery \cup {"REFLECTION"})'
      BY <2>4 DEF Facing, Delivery
    <3> QED
      BY <1>2, <2>3, <3>1 DEF IInv, Shaped, Counts, Evidence, Acted
  <2>9. Plans'
    <3>1. /\ context.reason = "none" /\ (context.plan = Absent \/ context.plan.revision = 0)
          /\ context.plan.revision = 0
      <4>1. Facing(Phases \ (Opening \cup {"PLANNING"}))
        BY <1>1, PhaseNames DEF Facing, Opening
      <4> QED
        BY <2>1, <4>1 DEF IInv, Plans
    <3>2. CASE advice.action = "replan"
      <4>1. Facing({"PLANNING"})'
        BY <2>4, <3>2 DEF Facing
      <4> QED
        BY <1>b, <2>3, <2>7, <3>1, <3>2, <4>1 DEF Plans
    <3>3. CASE advice.action # "replan"
      BY <2>3, <2>4, <3>1, <3>3 DEF Plans
    <3> QED
      BY <3>2, <3>3
  <2>10. Executions'
    BY <1>0, <2>3, <2>4, Idly DEF stores
  <2> QED
    BY <2>5, <2>6, <2>8, <2>9, <2>10 DEF IInv
<1> QED
  BY <1>3, <1>4

-----------------------------------------------------------------------------
(* The delivery. *)

LEMMA Due ==
    ASSUME IInv, NEW p \in {"ACTION", "ANSWER_GENERATION"}, In(p), ~Skipped(p)
    PROVE  Enough
<1>1. Facing(Delivery \cup {"REFLECTION"})
  BY DEF In, Facing, Delivery
<1>2. context.decision \notin Withheld
  BY DEF Skipped
<1> QED
  BY <1>1, <1>2 DEF IInv, Evidence

(* A phase of the delivery that goes on to one of the delivery, or stays.    *)
LEMMA Delivers ==
    ASSUME IInv, todo # <<>>, Head(todo) \in Delivery \ {"MEMORY_COMMIT"},
           Rest(todo'), todo' # <<>>, Head(todo') \in Delivery, Acted' => Enough,
           DOMAIN context' = DOMAIN Blank,
           context'.acquisitions = context.acquisitions, context'.found = context.found,
           context'.retries = context.retries, context'.replans = context.replans,
           context'.interventions \in Nat, context'.interventions >= context.interventions,
           context'.reason = context.reason, context'.plan = context.plan,
           context'.decision = context.decision, request' = request
    PROVE  Shaped' /\ Evidence' /\ Plans'
<1>1. /\ ~Facing(Opening)' /\ ~Facing({"EXECUTION_DECISION"})' /\ ~Facing(Thinking)'
      /\ ~Facing(Opening \cup {"PLANNING"})'
  BY DEF Facing, Opening, Thinking, Judges, Delivery
<1>2. /\ Facing(Phases \ Opening) /\ Facing(Phases \ (Opening \cup {"PLANNING"}))
      /\ ~Facing(Opening \cup {"PLANNING"}) /\ ~Facing({"PLANNING"})
      /\ Facing(Delivery \cup {"REFLECTION"})
  BY DEF Facing, Opening, Phases, Delivery
<1>3. Enough => Enough'
  BY DEF Enough
<1>4. Shaped'
  BY DEF IInv, Shaped, Counts
<1>5. Evidence'
  BY <1>1, <1>2, <1>3 DEF IInv, Evidence
<1>6. Plans'
  BY <1>1, <1>2, <1>3 DEF IInv, Shaped, Counts, Plans
<1> QED
  BY <1>4, <1>5, <1>6

LEMMA Refusals ==
    ASSUME NEW invocation, NEW index
    PROVE  LET refusal == Refusal(invocation, index, Policy, Registry) IN
           /\ refusal # "success"
           /\ refusal = "none" => invocation.tool \in Permitted
<1> DEFINE checked == validate(invocation.args, Registry[invocation.tool].schema)
           routed == Routed(Registry, invocation)
           tagged == invocation.tags \subseteq Registry[invocation.tool].tags
           allowed == evaluate_invocation(Policy, invocation, index)
<1>1. Refusal(invocation, index, Policy, Registry)
        = IF ~allowed THEN "blocked" ELSE IF ~routed THEN "not_found"
          ELSE IF ~tagged THEN "blocked" ELSE IF checked THEN "none" ELSE "validation_error"
  BY DEF Refusal
<1>2. allowed => invocation.tool \in Permitted
  BY DEF evaluate_invocation, Permitted
<1> HIDE DEF checked, routed, tagged, allowed
<1> QED
  BY <1>1, <1>2

LEMMA Invokes ==
    ASSUME IInv, Invoke
    PROVE  IInv'
<1> DEFINE index == Len(context.steps)
           invocation == request.attached[index + 1]
           refusal == Refusal(invocation, index, Policy, Registry)
<1>0. /\ In("ACTION") /\ ~Skipped("ACTION") /\ index < Len(request.attached)
      /\ UNCHANGED <<shared, stores, request, todo, own>>
  BY DEF Invoke
<1>a. PICK did \in IF refusal = "none" THEN Behaviours ELSE {"refused"} :
              context' = [context EXCEPT !.steps = Append(@,
                  [tool |-> invocation.tool, did |-> did,
                   status |-> status_from_tool(IF refusal = "none" THEN StatusOf(did) ELSE refusal)])]
  BY DEF Invoke
<1> DEFINE report == [tool |-> invocation.tool, did |-> did,
                      status |-> status_from_tool(IF refusal = "none" THEN StatusOf(did) ELSE refusal)]
<1>1. report \in Reports
  <2>1. invocation.tool \in Tools
    <3>1. request \in Requests /\ index \in Nat
      BY <1>0 DEF IInv, Shaped, In, Executions
    <3>2. index + 1 \in DOMAIN request.attached
      BY <1>0, <3>1, RequestsAssumption
    <3> HIDE DEF index
    <3> QED
      BY <3>1, <3>2 DEF Tools
  <2>2. refusal # "success" /\ (refusal = "none" => invocation.tool \in Permitted)
    BY Refusals
  <2> HIDE DEF refusal, invocation
  <2>3. did \in Behaviours \cup {"refused"} /\ (refusal = "none" => did \in Behaviours)
    BY <1>a
  <2>4. report.status \in {"success", "blocked", "failed"}
    BY DEF status_from_tool
  <2>5. ASSUME report.status = "success" PROVE did = "success" /\ invocation.tool \in Permitted
    <3>1. (IF refusal = "none" THEN StatusOf(did) ELSE refusal) = "success"
      BY <2>5 DEF status_from_tool
    <3>2. refusal = "none" /\ StatusOf(did) = "success"
      BY <2>2, <3>1
    <3> QED
      BY <2>2, <3>2 DEF StatusOf
  <2> QED
    BY <2>1, <2>3, <2>4, <2>5 DEF Reports
<1> HIDE DEF report
<1>2. context' = [context EXCEPT !.steps = Append(@, report)]
  BY <1>a DEF report
<1>3. /\ DOMAIN context' = DOMAIN Blank
      /\ context'.acquisitions = context.acquisitions /\ context'.found = context.found
      /\ context'.interventions = context.interventions /\ context'.replans = context.replans
      /\ context'.reason = context.reason /\ context'.plan = context.plan
      /\ context'.status = context.status /\ context'.decision = context.decision
      /\ context'.retries = context.retries /\ context'.emotional = context.emotional
      /\ context'.update = context.update /\ context'.steps = Append(context.steps, report)
  BY <1>2 DEF IInv, Shaped, Blank
<1>4. todo # <<>> /\ Head(todo) = "ACTION" /\ Rest(todo)
  BY <1>0 DEF In, IInv, Shaped
<1>5. Shaped' /\ Evidence' /\ Plans'
  <2>1. Enough
    BY <1>0, Due
  <2>2. context.interventions \in Nat
    BY DEF IInv, Shaped, Counts
  <2> QED
    BY <1>0, <1>3, <1>4, <2>1, <2>2, Delivers DEF Delivery
<1>6. Moods'
  BY <1>0, <1>3, <1>4, Calmly DEF stores
<1>7. Executions'
  <2>1. context.status # "success"
    BY <1>4 DEF IInv, Executions, Facing
  <2>2. context'.steps \in Seq(Reports)
    BY <1>1, <1>3 DEF IInv, Executions
  <2>3. request.attached # <<>>
    <3>1. context.steps \in Seq(Reports)
      BY DEF IInv, Executions
    <3> QED
      BY <1>0, <3>1
  <2> QED
    BY <1>0, <1>3, <2>1, <2>2, <2>3 DEF IInv, Executions, ProcedureIsVerified, stores
<1> QED
  BY <1>5, <1>6, <1>7 DEF IInv

LEMMA Executes ==
    ASSUME IInv, Action
    PROVE  IInv'
<1> DEFINE made == aggregate_status(Statuses, context.plan.intent)
           q == Head(todo')
<1>0. /\ In("ACTION") /\ ~Skipped("ACTION") /\ Len(context.steps) = Len(request.attached)
      /\ todo' = Tail(todo) /\ UNCHANGED <<stores, request, own>>
      /\ context' = [context EXCEPT !.status = made]
  BY DEF Action, Computes
<1>1. made = "success" => Statuses = {"success"}
  BY DEF aggregate_status
<1> HIDE DEF made
<1>2. Rest(todo') /\ todo' # <<>> /\ q \in {"ANSWER_GENERATION", "OUTPUT_VALIDATION"}
  BY <1>0, Passed DEF Behind
<1>3. /\ DOMAIN context' = DOMAIN Blank
      /\ context'.acquisitions = context.acquisitions /\ context'.found = context.found
      /\ context'.interventions = context.interventions /\ context'.replans = context.replans
      /\ context'.reason = context.reason /\ context'.plan = context.plan
      /\ context'.status = made /\ context'.decision = context.decision
      /\ context'.retries = context.retries /\ context'.emotional = context.emotional
      /\ context'.update = context.update /\ context'.steps = context.steps
  BY <1>0 DEF IInv, Shaped, Blank
<1>4. todo # <<>> /\ Head(todo) = "ACTION" /\ Rest(todo)
  BY <1>0 DEF In, IInv, Shaped
<1>5. Shaped' /\ Evidence' /\ Plans'
  <2>1. Enough
    BY <1>0, Due
  <2>2. context.interventions \in Nat
    BY DEF IInv, Shaped, Counts
  <2> QED
    BY <1>0, <1>2, <1>3, <1>4, <2>1, <2>2, Delivers DEF Delivery
<1>6. Moods'
  BY <1>0, <1>2, <1>3, <1>4, Calmly DEF stores
<1>7. Executions'
  <2>1. ~Facing({"ACTION"})'
    BY <1>2 DEF Facing
  <2>2. ASSUME made = "success", NEW i \in DOMAIN context.steps PROVE context.steps[i].status = "success"
    <3>1. context.steps # <<>>
      BY <2>2 DEF IInv, Executions
    <3>2. request.attached # <<>>
      BY <3>1 DEF IInv, Executions
    <3>3. context.steps[i].status \in Statuses
      BY <2>2, <3>2 DEF Statuses
    <3> QED
      BY <1>1, <2>2, <3>3
  <2> QED
    BY <1>0, <1>3, <2>1, <2>2 DEF IInv, Executions, ProcedureIsVerified, stores
<1> QED
  BY <1>5, <1>6, <1>7 DEF IInv

LEMMA Answers ==
    ASSUME IInv, AnswerGeneration
    PROVE  IInv'
<1> DEFINE p == "ANSWER_GENERATION"
           q == Head(todo')
<1>a. PICK g : Computes(p, [context EXCEPT !.generation = g])
  BY DEF AnswerGeneration
<1>0. /\ In(p) /\ ~Skipped(p) /\ todo' = Tail(todo) /\ UNCHANGED <<stores, request, own>>
      /\ context' = [context EXCEPT !.generation = g]
  BY <1>a DEF AnswerGeneration, Computes
<1>2. Rest(todo') /\ todo' # <<>> /\ q = "OUTPUT_VALIDATION"
  BY <1>0, Passed DEF Behind
<1>3. /\ DOMAIN context' = DOMAIN Blank
      /\ context'.acquisitions = context.acquisitions /\ context'.found = context.found
      /\ context'.interventions = context.interventions /\ context'.replans = context.replans
      /\ context'.reason = context.reason /\ context'.plan = context.plan
      /\ context'.status = context.status /\ context'.decision = context.decision
      /\ context'.retries = context.retries /\ context'.emotional = context.emotional
      /\ context'.update = context.update /\ context'.steps = context.steps
  BY <1>0 DEF IInv, Shaped, Blank
<1>4. todo # <<>> /\ Head(todo) = p /\ Rest(todo)
  BY <1>0 DEF In, IInv, Shaped
<1>5. Shaped' /\ Evidence' /\ Plans'
  <2>1. Enough
    BY <1>0, Due
  <2>2. context.interventions \in Nat
    BY DEF IInv, Shaped, Counts
  <2> QED
    BY <1>0, <1>2, <1>3, <1>4, <2>1, <2>2, Delivers DEF Delivery
<1>6. Moods'
  BY <1>0, <1>2, <1>3, <1>4, Calmly DEF stores
<1>7. Executions'
  BY <1>0, <1>2, <1>3, Idly DEF stores
<1> QED
  BY <1>5, <1>6, <1>7 DEF IInv

LEMMA Validates ==
    ASSUME IInv, OutputValidation
    PROVE  IInv'
<1> DEFINE p == "OUTPUT_VALIDATION"
           q == Head(todo')
           rest == Tail(todo)
           action == Proposal
           accepted == action # "none" /\ Accepted([trigger |-> TRUE, action |-> action, confidence |-> 900])
<1>0. In(p) /\ UNCHANGED <<stores, request, own>>
  BY DEF OutputValidation
<1>a. IF accepted
      THEN /\ context' = [Consumed(context, action) EXCEPT
                             !.terminal = (action = "abstain"),
                             !.steps = IF action = "retry_transient_failure" THEN <<>> ELSE @]
           /\ todo' = Again(action) \o rest
      ELSE todo' = rest /\ UNCHANGED context
  BY DEF OutputValidation
<1>1. /\ action \in {"regenerate", "retry_transient_failure", "abstain", "none"}
      /\ action = "retry_transient_failure" => context.status # "success"
  BY DEF Proposal
<1>2. accepted => context.interventions < 1
  BY DEF Accepted, Budget
<1> HIDE DEF action, accepted
<1>3. /\ Rest(rest) /\ rest # <<>> /\ Head(rest) = "OUTPUT" /\ Head(rest) \in Behind(p)
      /\ todo # <<>> /\ Head(todo) = p /\ Rest(todo)
  <2>1. Rest(todo) /\ todo # <<>> /\ Head(todo) = p
    BY <1>0 DEF IInv, Shaped, In
  <2>2. Rest(rest) /\ rest # <<>> /\ Head(rest) \in Behind(p)
    BY <2>1, Following
  <2> QED
    BY <2>1, <2>2 DEF Behind
<1>4. /\ DOMAIN context' = DOMAIN Blank
      /\ context'.acquisitions = context.acquisitions /\ context'.found = context.found
      /\ context'.replans = context.replans
      /\ context'.reason = context.reason /\ context'.plan = context.plan
      /\ context'.status = context.status /\ context'.decision = context.decision
      /\ context'.retries = context.retries /\ context'.emotional = context.emotional
      /\ context'.generation = context.generation
      /\ context'.update = context.update
      /\ context'.interventions \in {context.interventions, context.interventions + 1}
      /\ context'.steps = IF accepted /\ action = "retry_transient_failure" THEN <<>> ELSE context.steps
  <2>1. CASE accepted
    <3> DEFINE next == Consumed(context, action)
    <3> DEFINE spent == IF action \in Retrieving THEN context.retrievals + 1
                        ELSE context.retrievals
    <3>1. action # "replan"
      BY <1>1
    <3>2. next = [context EXCEPT !.interventions = @ + 1, !.retrievals = spent, !.replans = @]
      BY <3>1 DEF Consumed
    <3> HIDE DEF spent
    <3>3. DOMAIN context = DOMAIN Blank
      BY DEF IInv, Shaped
    <3>4. context' = [next EXCEPT !.terminal = (action = "abstain"),
                        !.steps = IF action = "retry_transient_failure" THEN <<>> ELSE @]
      BY <1>a, <2>1
    <3> HIDE DEF next
    <3> QED
      BY <2>1, <3>2, <3>3, <3>4 DEF Blank
  <2>2. CASE ~accepted
    BY <1>a, <2>2 DEF IInv, Shaped
  <2> QED
    BY <2>1, <2>2
<1>5. /\ Rest(todo') /\ todo' # <<>> /\ q \in Delivery
      /\ q = "ACTION" => action = "retry_transient_failure"
  <2>1. <<>> \o rest = rest
    <3>1. rest \in Seq(Phases)
      BY <1>3 DEF Rest, Path
    <3> HIDE DEF rest
    <3> QED
      BY <3>1
  <2>2. CASE accepted /\ action = "regenerate"
    <3> DEFINE s == <<"ANSWER_GENERATION", "OUTPUT_VALIDATION">>
    <3>1. todo' = s \o rest
      BY <1>a, <2>2 DEF Again
    <3>2. Rest(s \o rest) /\ s \o rest # <<>> /\ Head(s \o rest) = "ANSWER_GENERATION"
      <4>1. Spans(s, "ANSWER_GENERATION", "OUTPUT_VALIDATION")
        BY Fronts
      <4> HIDE DEF s
      <4> QED
        BY <1>3, <4>1, SpansJoined
    <3> QED
      BY <3>1, <3>2 DEF Delivery
  <2>3. CASE accepted /\ action = "retry_transient_failure"
    <3> DEFINE s == <<"ACTION", "OUTPUT_VALIDATION">>
    <3>1. todo' = s \o rest
      BY <1>a, <2>3 DEF Again
    <3>2. Rest(s \o rest) /\ s \o rest # <<>> /\ Head(s \o rest) = "ACTION"
      <4>1. Spans(s, "ACTION", "OUTPUT_VALIDATION")
        BY Fronts
      <4> HIDE DEF s
      <4> QED
        BY <1>3, <4>1, SpansJoined
    <3> QED
      BY <2>3, <3>1, <3>2 DEF Delivery
  <2>4. CASE ~accepted \/ action \in {"abstain", "none"}
    <3>1. todo' = rest
      BY <1>a, <2>1, <2>4 DEF Again
    <3> QED
      BY <1>3, <3>1 DEF Delivery
  <2> QED
    BY <1>1, <2>2, <2>3, <2>4
<1>6. Shaped' /\ Evidence' /\ Plans'
  <2>1. Acted' => Enough
    BY <1>4 DEF IInv, Evidence, Acted
  <2>2. context'.interventions \in Nat /\ context'.interventions >= context.interventions
    BY <1>4 DEF IInv, Shaped, Counts
  <2> QED
    BY <1>0, <1>3, <1>4, <1>5, <2>1, <2>2, Delivers DEF Delivery
<1>7. Moods'
  <2>1. q # "AFFECT"
    BY <1>5 DEF Delivery
  <2> QED
    BY <1>0, <1>3, <1>4, <1>5, <2>1, Calmly DEF stores
<1>8. Executions'
  <2>1. CASE accepted /\ action = "retry_transient_failure"
    <3>1. context'.steps = <<>> /\ context'.status # "success"
      BY <1>1, <1>4, <2>1
    <3>2. <<>> \in Seq(Reports)
      OBVIOUS
    <3>3. context'.steps \in Seq(Reports)
      BY <3>1, <3>2, Zenon
    <3> QED
      BY <1>0, <3>1, <3>3 DEF IInv, Executions, ProcedureIsVerified, stores
  <2>2. CASE ~(accepted /\ action = "retry_transient_failure")
    <3>1. q # "ACTION"
      <4>1. CASE ~accepted
        BY <1>3, <1>a, <4>1
      <4>2. CASE accepted
        BY <1>5, <2>2, <4>2
      <4> QED
        BY <4>1, <4>2
    <3> QED
      BY <1>0, <1>4, <1>5, <2>2, <3>1, Idly DEF stores
  <2> QED
    BY <2>1, <2>2
<1> QED
  BY <1>6, <1>7, <1>8 DEF IInv

LEMMA Outputs ==
    ASSUME IInv, Output
    PROVE  IInv'
<1> DEFINE p == "OUTPUT"
           q == Head(todo')
<1>a. PICK o : Computes(p, [context EXCEPT !.outcome = o])
  BY DEF Output
<1>0. /\ In(p) /\ todo' = Tail(todo) /\ UNCHANGED <<stores, request, own>>
      /\ context' = [context EXCEPT !.outcome = o]
  BY <1>a DEF Computes
<1>2. Rest(todo') /\ todo' # <<>> /\ q = "STATE_COMMIT"
  BY <1>0, Passed DEF Behind
<1>3. /\ DOMAIN context' = DOMAIN Blank
      /\ context'.acquisitions = context.acquisitions /\ context'.found = context.found
      /\ context'.interventions = context.interventions /\ context'.replans = context.replans
      /\ context'.reason = context.reason /\ context'.plan = context.plan
      /\ context'.status = context.status /\ context'.decision = context.decision
      /\ context'.generation = context.generation
      /\ context'.retries = context.retries /\ context'.emotional = context.emotional
      /\ context'.update = context.update /\ context'.steps = context.steps
  BY <1>0 DEF IInv, Shaped, Blank
<1>4. todo # <<>> /\ Head(todo) = p /\ Rest(todo)
  BY <1>0 DEF In, IInv, Shaped
<1>5. Shaped' /\ Evidence' /\ Plans'
  <2>1. Acted' => Enough
    BY <1>3 DEF IInv, Evidence, Acted
  <2>2. context.interventions \in Nat
    BY DEF IInv, Shaped, Counts
  <2> QED
    BY <1>0, <1>2, <1>3, <1>4, <2>1, <2>2, Delivers DEF Delivery
<1>6. Moods'
  BY <1>0, <1>2, <1>3, <1>4, Calmly DEF stores
<1>7. Executions'
  BY <1>0, <1>2, <1>3, Idly DEF stores
<1> QED
  BY <1>5, <1>6, <1>7 DEF IInv

LEMMA Commits ==
    ASSUME IInv, StateCommit
    PROVE  IInv'
<1> DEFINE p == "STATE_COMMIT"
           q == Head(todo')
           s == request.session
<1>0. /\ In(p) /\ todo' = Tail(todo) /\ UNCHANGED <<procedures, request, context>>
      /\ \/ UNCHANGED <<committed, own>>
         \/ /\ committed' = [committed EXCEPT ![s] = context.emotional]
            /\ own' = [own EXCEPT ![s] = Felt(@, context.update.profile)]
  BY DEF StateCommit
<1>1. Rest(todo') /\ todo' # <<>> /\ q = "MEMORY_COMMIT" /\ request \in Requests
  BY <1>0, Passed DEF Behind
<1>2. todo # <<>> /\ Head(todo) = p /\ Rest(todo)
  BY <1>0 DEF In, IInv, Shaped
<1>3. Shaped' /\ Evidence' /\ Plans'
  <2>1. Acted' => Enough
    BY <1>0 DEF IInv, Evidence, Acted
  <2>2. context.interventions \in Nat /\ DOMAIN context = DOMAIN Blank
    BY DEF IInv, Shaped, Counts
  <2> QED
    BY <1>0, <1>1, <1>2, <2>1, <2>2, Delivers DEF Delivery
<1>4. Moods'
  <2>1. s \in Sessions
    BY <1>1, RequestsAssumption
  <2>2. ~Facing({"AFFECT"})' /\ ~Facing(Phases \ {"AFFECT", "MEMORY_COMMIT"})'
    BY <1>1 DEF Facing
  <2>3. CASE UNCHANGED <<committed, own>>
    BY <2>2, <2>3 DEF IInv, Moods, MoodIsOwn
  <2>4. CASE /\ committed' = [committed EXCEPT ![s] = context.emotional]
             /\ own' = [own EXCEPT ![s] = Felt(@, context.update.profile)]
    <3>1. /\ context.emotional.pad = Felt(own[s], context.update.profile).pad
          /\ context.emotional.momentum = Felt(own[s], context.update.profile).momentum
          /\ context.emotional.baseline = Zero
      BY <1>2, PhaseNames DEF IInv, Moods, Facing
    <3>2. /\ committed'[s] = context.emotional /\ own'[s] = Felt(own[s], context.update.profile)
          /\ DOMAIN committed' = Sessions /\ DOMAIN own' = Sessions
          /\ \A r \in Sessions \ {s} : committed'[r] = committed[r] /\ own'[r] = own[r]
      BY <2>1, <2>4 DEF IInv, Moods
    <3> QED
      BY <2>2, <3>1, <3>2 DEF IInv, Moods, MoodIsOwn
  <2> QED
    BY <1>0, <2>3, <2>4
<1>5. Executions'
  BY <1>0, <1>1, Idly
<1> QED
  BY <1>3, <1>4, <1>5 DEF IInv

LEMMA Stores ==
    ASSUME IInv, MemoryCommit
    PROVE  IInv'
<1>1. /\ todo' = <<>> /\ context' = Blank /\ UNCHANGED <<committed, own>>
      /\ procedures' = procedures \/ (Verified /\ procedures' = procedures \cup {context.steps})
  BY DEF MemoryCommit
<1>2. Shaped' /\ Evidence' /\ Plans'
  BY <1>1 DEF Shaped, Rest, Path, Counts, Evidence, Plans, Facing, Acted, Blank
<1>3. Moods'
  BY <1>1 DEF IInv, Moods, MoodIsOwn, Facing
<1>4. Executions'
  <2>1. CASE procedures' = procedures
    BY <1>1, <2>1 DEF IInv, Executions, ProcedureIsVerified, Facing, Blank
  <2>2. CASE Verified /\ procedures' = procedures \cup {context.steps}
    <3>1. ASSUME NEW i \in DOMAIN context.steps
          PROVE  context.steps[i].did = "success" /\ context.steps[i].tool \in Permitted
      <4>1. context.steps[i].status = "success"
        BY <2>2 DEF IInv, Executions, Verified
      <4>2. context.steps[i] \in Reports
        BY DEF IInv, Executions
      <4> QED
        BY <4>1, <4>2 DEF Reports
    <3>2. ProcedureIsVerified'
      BY <2>2, <3>1 DEF IInv, Executions, ProcedureIsVerified, Permitted
    <3> QED
      BY <1>1, <3>2 DEF Executions, Facing, Blank
  <2> QED
    BY <1>1, <2>1, <2>2
<1> QED
  BY <1>2, <1>3, <1>4 DEF IInv

-----------------------------------------------------------------------------
(* The inductive invariant holds. *)

LEMMA Rests ==
    ASSUME IInv, UNCHANGED vars
    PROVE  IInv'
<1>1. UNCHANGED <<committed, procedures, request, todo, context, own>>
  BY DEF vars, stores
<1>2. Shaped' /\ Moods' /\ Evidence' /\ Plans' /\ Executions'
  BY <1>1 DEF IInv, Shaped, Counts, Moods, MoodIsOwn, Evidence, Enough, Acted, Plans, Executions,
              ProcedureIsVerified, Facing
<1> QED
  BY <1>2 DEF IInv

LEMMA Invariance == Spec => []IInv
<1>1. Init => IInv
  BY Begins
<1>2. IInv /\ [Next]_vars => IInv'
  <2> SUFFICES ASSUME IInv, [Next]_vars PROVE IInv'
    OBVIOUS
  <2>1. CASE StateLoad
    BY <2>1, Loads
  <2>2. CASE Skip
    BY <2>2, Skips
  <2>3. CASE Fails
    BY <2>3, Failed
  <2>4. CASE Affect
    BY <2>4, Affects
  <2>5. CASE EvidenceAcquisition
    BY <2>5, Acquires
  <2>6. CASE Planning
    BY <2>6, Revises
  <2>7. CASE WorldSimulation
    BY <2>7, Simulates
  <2>8. CASE UncertaintyEstimation
    BY <2>8, Estimates
  <2>9. CASE ExecutionDecision
    BY <2>9, Decides
  <2>10. CASE Reflection
    BY <2>10, Reflects
  <2>11. CASE Invoke
    BY <2>11, Invokes
  <2>12. CASE Action
    BY <2>12, Executes
  <2>13. CASE AnswerGeneration
    BY <2>13, Answers
  <2>14. CASE OutputValidation
    BY <2>14, Validates
  <2>15. CASE Output
    BY <2>15, Outputs
  <2>16. CASE StateCommit
    BY <2>16, Commits
  <2>17. CASE MemoryCommit
    BY <2>17, Stores
  <2>18. CASE Done \/ UNCHANGED vars
    BY <2>18, Rests DEF Done
  <2> QED
    BY <2>1, <2>2, <2>3, <2>4, <2>5, <2>6, <2>7, <2>8, <2>9, <2>10, <2>11, <2>12, <2>13, <2>14, <2>15,
       <2>16, <2>17, <2>18 DEF Next
<1> QED
  BY <1>1, <1>2, PTL DEF Spec

-----------------------------------------------------------------------------
(* Induction, stated on sets, which the provers can instantiate. *)

(* A set of naturals has a least element.                                    *)
LEMMA LeastNatural ==
    ASSUME NEW S \in SUBSET Nat, S # {}
    PROVE  \E m \in S : \A k \in S : m <= k
<1> DEFINE R == OpToRel(<, Nat)
<1>1. IsWellFoundedOn(R, Nat)
  BY NatLessThanWellFounded
<1>2. \A x, y \in Nat : x < y => <<x, y>> \in R
  BY DEF OpToRel
<1> HIDE DEF R
<1>3. PICK m \in S : \A k \in S : <<k, m>> \notin R
  BY <1>1, WFMin
<1>4. \A k \in S : ~(k < m)
  BY <1>2, <1>3
<1> QED
  BY <1>4

(* A set with 0 and the successors of its members is Nat.                    *)
LEMMA SetInduction ==
    ASSUME NEW S \in SUBSET Nat, 0 \in S, \A n \in S : n + 1 \in S
    PROVE  S = Nat
<1> SUFFICES ASSUME S # Nat PROVE FALSE
  OBVIOUS
<1> DEFINE T == Nat \ S
<1>1. T \in SUBSET Nat /\ T # {}
  OBVIOUS
<1> HIDE DEF T
<1>2. PICK m \in T : \A k \in T : m <= k
  BY <1>1, LeastNatural
<1>3. m # 0 /\ m - 1 \in Nat /\ m - 1 \in S
  BY <1>2 DEF T
<1> QED
  BY <1>2, <1>3 DEF T

\* A set of sets that holds every set of n + 1 elements once it holds every set of n holds
\* every finite set.
(* Induction over the subsets of a finite set.                               *)
LEMMA SizeInduction ==
    ASSUME NEW U, IsFiniteSet(U), NEW G,
           \A T \in SUBSET U : (\A x \in T : T \ {x} \in G) => T \in G
    PROVE  \A T \in SUBSET U : T \in G
<1> DEFINE N == {n \in Nat : \A T \in SUBSET U : Cardinality(T) = n => T \in G}
<1>1. \A T \in SUBSET U : IsFiniteSet(T) /\ Cardinality(T) \in Nat
  BY FS_Subset, FS_CardinalityType
<1>2. 0 \in N
  <2> SUFFICES ASSUME NEW T \in SUBSET U, Cardinality(T) = 0 PROVE T \in G
    OBVIOUS
  <2>1. T = {}
    BY <1>1, FS_EmptySet
  <2> QED
    BY <2>1
<1>3. ASSUME NEW n \in N PROVE n + 1 \in N
  <2> SUFFICES ASSUME NEW T \in SUBSET U, Cardinality(T) = n + 1 PROVE T \in G
    OBVIOUS
  <2>1. ASSUME NEW x \in T PROVE T \ {x} \in G
    <3>1. Cardinality(T \ {x}) = n
      BY <1>1, FS_RemoveElement
    <3> QED
      BY <3>1
  <2> QED
    BY <2>1
<1>4. N = Nat
  <2> HIDE DEF N
  <2>1. N \in SUBSET Nat
    BY DEF N
  <2> QED
    BY <1>2, <1>3, <2>1, SetInduction
<1> QED
  BY <1>1, <1>4

-----------------------------------------------------------------------------
(* What the folds of the community modules compute. *)

(* The subsets of S with at most k elements.                                 *)
Small(S, k) == {T \in SUBSET S : Cardinality(T) <= k}

(* From base, one step for each element, in the order in which c picks them. *)
Folds(g, base, c, op, D) ==
    \A T \in D : g[T] = IF T = {} THEN base ELSE op[T][g[T \ {c[T]}]]

(* A fold whose steps stay in V exists, and its values are in V.             *)
LEMMA FoldExists ==
    ASSUME NEW S, IsFiniteSet(S), NEW V, NEW base \in V,
           NEW c, \A T \in SUBSET S : T # {} => c[T] \in T,
           NEW op, \A T \in SUBSET S : T # {} => \A v \in V : op[T][v] \in V
    PROVE  \E g \in [SUBSET S -> V] : Folds(g, base, c, op, SUBSET S)
<1>1. \A T \in SUBSET S : IsFiniteSet(T) /\ Cardinality(T) \in Nat /\ Cardinality(T) <= Cardinality(S)
  BY FS_Subset, FS_CardinalityType
<1>2. ASSUME NEW T \in SUBSET S, T # {}
      PROVE  c[T] \in T /\ T \ {c[T]} \in SUBSET S /\ Cardinality(T \ {c[T]}) = Cardinality(T) - 1
  <2>1. c[T] \in T
    BY <1>2
  <2> QED
    BY <1>1, <2>1, FS_RemoveElement
<1> DEFINE N == {k \in Nat : \E g \in [Small(S, k) -> V] : Folds(g, base, c, op, Small(S, k))}
<1>3. 0 \in N
  <2> DEFINE g == [T \in Small(S, 0) |-> base]
  <2>1. \A T \in Small(S, 0) : T = {}
    BY <1>1, FS_EmptySet DEF Small
  <2>2. Folds(g, base, c, op, Small(S, 0))
    BY <2>1 DEF Folds
  <2>3. g \in [Small(S, 0) -> V]
    OBVIOUS
  <2> QED
    BY <2>2, <2>3
<1>4. ASSUME NEW k \in N PROVE k + 1 \in N
  <2>1. PICK g \in [Small(S, k) -> V] : Folds(g, base, c, op, Small(S, k))
    OBVIOUS
  <2> DEFINE h == [T \in Small(S, k + 1) |-> IF T = {} THEN base ELSE op[T][g[T \ {c[T]}]]]
  <2>2. Small(S, k) \subseteq Small(S, k + 1)
    BY <1>1 DEF Small
  <2>3. ASSUME NEW T \in Small(S, k) PROVE h[T] = g[T]
    BY <2>1, <2>2 DEF Folds
  <2>4. ASSUME NEW T \in Small(S, k + 1), T # {} PROVE T \ {c[T]} \in Small(S, k)
    BY <1>1, <1>2, <2>4 DEF Small
  <2>5. Folds(h, base, c, op, Small(S, k + 1))
    <3> SUFFICES ASSUME NEW T \in Small(S, k + 1)
                 PROVE  h[T] = IF T = {} THEN base ELSE op[T][h[T \ {c[T]}]]
      BY DEF Folds
    <3>1. h[T] = IF T = {} THEN base ELSE op[T][g[T \ {c[T]}]]
      OBVIOUS
    <3> HIDE DEF h
    <3>2. T # {} => h[T \ {c[T]}] = g[T \ {c[T]}]
      BY <2>3, <2>4
    <3> QED
      BY <3>1, <3>2
  <2>6. h \in [Small(S, k + 1) -> V]
    <3> SUFFICES ASSUME NEW T \in Small(S, k + 1), T # {} PROVE op[T][g[T \ {c[T]}]] \in V
      OBVIOUS
    <3>1. g[T \ {c[T]}] \in V
      BY <2>1, <2>4
    <3>2. T \in SUBSET S
      BY DEF Small
    <3> QED
      BY <3>1, <3>2
  <2> HIDE DEF h
  <2>7. \E e \in [Small(S, k + 1) -> V] : Folds(e, base, c, op, Small(S, k + 1))
    BY <2>5, <2>6
  <2> QED
    BY <2>7
<1>5. Cardinality(S) \in N
  <2> HIDE DEF N
  <2>1. N \in SUBSET Nat
    BY DEF N
  <2> QED
    BY <1>1, <1>3, <1>4, <2>1, SetInduction
<1>6. Small(S, Cardinality(S)) = SUBSET S
  BY <1>1 DEF Small
<1> QED
  BY <1>5, <1>6, ZenonT(60)

(* The sums over the subsets of S, as the community modules compute them.    *)
Chosen(T) == CHOOSE x \in T : TRUE

(* g[T] is the sum of f over T, one element at a time.                       *)
Sums(g, f, S) ==
    /\ g \in [SUBSET S -> Int]
    /\ \A T \in SUBSET S :
          /\ T = {} => g[T] = 0
          /\ T # {} => Chosen(T) \in T /\ g[T] = f[Chosen(T)] + g[T \ {Chosen(T)}]

LEMMA SumsExist ==
    ASSUME NEW S, IsFiniteSet(S), NEW f, \A x \in S : f[x] \in Int
    PROVE  \E g : Sums(g, f, S)
<1> DEFINE c == [T \in SUBSET S |-> Chosen(T)]
           op == [T \in SUBSET S |-> [v \in Int |-> f[Chosen(T)] + v]]
<1>1. \A T \in SUBSET S : T # {} => Chosen(T) \in T
  BY DEF Chosen
<1>2. \A T \in SUBSET S : c[T] = Chosen(T) /\ \A v \in Int : op[T][v] = f[Chosen(T)] + v
  OBVIOUS
<1>3. \A T \in SUBSET S : T # {} => c[T] \in T /\ \A v \in Int : op[T][v] \in Int
  <2> HIDE DEF c, op
  <2> SUFFICES ASSUME NEW T \in SUBSET S, T # {} PROVE c[T] \in T /\ \A v \in Int : op[T][v] \in Int
    OBVIOUS
  <2>1. Chosen(T) \in S /\ f[Chosen(T)] \in Int
    BY <1>1
  <2> QED
    BY <1>1, <1>2, <2>1
<1> HIDE DEF c, op
<1>4. PICK g \in [SUBSET S -> Int] : Folds(g, 0, c, op, SUBSET S)
  <2>1. 0 \in Int /\ (\A T \in SUBSET S : T # {} => c[T] \in T)
        /\ (\A T \in SUBSET S : T # {} => \A v \in Int : op[T][v] \in Int)
    BY <1>3
  <2> QED
    BY <2>1, FoldExists
<1>5. ASSUME NEW T \in SUBSET S
      PROVE  /\ T = {} => g[T] = 0
             /\ T # {} => Chosen(T) \in T /\ g[T] = f[Chosen(T)] + g[T \ {Chosen(T)}]
  <2>1. g[T] = IF T = {} THEN 0 ELSE op[T][g[T \ {c[T]}]]
    BY <1>4 DEF Folds
  <2>2. g[T \ {c[T]}] \in Int
    BY <1>4
  <2> QED
    BY <1>1, <1>2, <2>1, <2>2
<1> QED
  BY <1>4, <1>5 DEF Sums

(* The same, as an equation with one solution.                               *)
Summing(h, f, S) ==
    h = [T \in SUBSET S |-> IF T = {} THEN 0 ELSE f[Chosen(T)] + h[T \ {Chosen(T)}]]

LEMMA SummingExists ==
    ASSUME NEW S, IsFiniteSet(S), NEW f, \A x \in S : f[x] \in Int
    PROVE  \E h : Summing(h, f, S)
<1>1. PICK g : Sums(g, f, S)
  BY SumsExist
<1>2. ASSUME NEW T \in SUBSET S
      PROVE  g[T] = IF T = {} THEN 0 ELSE f[Chosen(T)] + g[T \ {Chosen(T)}]
  BY <1>1 DEF Sums
<1>3. g \in [SUBSET S -> Int]
  BY <1>1 DEF Sums
<1> DEFINE e == [T \in SUBSET S |-> IF T = {} THEN 0 ELSE f[Chosen(T)] + g[T \ {Chosen(T)}]]
<1>4. ASSUME NEW T \in SUBSET S PROVE g[T] = e[T]
  BY <1>2
<1>5. g = e
  <2>1. e = [T \in SUBSET S |-> e[T]] /\ g = [T \in SUBSET S |-> g[T]]
    BY <1>3
  <2> HIDE DEF e
  <2> QED
    BY <1>4, <2>1
<1> QED
  BY <1>5 DEF Summing

(* What solves the equation is the sum.                                      *)
LEMMA SummingSums ==
    ASSUME NEW S, IsFiniteSet(S), NEW f, \A x \in S : f[x] \in Int, NEW h, Summing(h, f, S)
    PROVE  Sums(h, f, S)
<1> DEFINE G == {T \in SUBSET S : h[T] \in Int}
<1>1. ASSUME NEW T \in SUBSET S
      PROVE  h[T] = IF T = {} THEN 0 ELSE f[Chosen(T)] + h[T \ {Chosen(T)}]
  <2> DEFINE e == [U \in SUBSET S |-> IF U = {} THEN 0 ELSE f[Chosen(U)] + h[U \ {Chosen(U)}]]
  <2>1. h = e
    BY DEF Summing
  <2>2. e[T] = IF T = {} THEN 0 ELSE f[Chosen(T)] + h[T \ {Chosen(T)}]
    OBVIOUS
  <2> HIDE DEF e
  <2> QED
    BY <2>1, <2>2
<1>2. \A T \in SUBSET S : T # {} => Chosen(T) \in T
  BY DEF Chosen
<1>3. \A T \in SUBSET S : T \in G
  <2>1. ASSUME NEW T \in SUBSET S, \A x \in T : T \ {x} \in G PROVE T \in G
    <3>1. CASE T = {}
      <4>1. h[T] = 0
        BY <1>1, <3>1
      <4> QED
        BY <4>1
    <3>2. CASE T # {}
      <4>1. Chosen(T) \in T /\ f[Chosen(T)] \in Int
        BY <1>2, <3>2
      <4>2. h[T \ {Chosen(T)}] \in Int
        BY <2>1, <4>1
      <4>3. h[T] = f[Chosen(T)] + h[T \ {Chosen(T)}]
        BY <1>1, <3>2
      <4> QED
        BY <4>1, <4>2, <4>3
    <3> QED
      BY <3>1, <3>2
  <2> HIDE DEF G
  <2> QED
    BY <2>1, SizeInduction
<1>4. h \in [SUBSET S -> Int]
  <2>1. \A T \in SUBSET S : h[T] \in Int
    BY <1>3
  <2>2. h = [T \in SUBSET S |-> h[T]]
    BY DEF Summing
  <2> QED
    BY <2>1, <2>2
<1> QED
  BY <1>1, <1>2, <1>4 DEF Sums

(* The mean risk of a plan is such a sum.                                    *)
LEMMA MeanRiskSums ==
   ASSUME NEW actions, IsFiniteSet(DOMAIN actions), NEW confidence, NEW constraints, NEW tool,
          \A i \in DOMAIN actions : ActionRisk(actions[i], confidence, constraints, tool) \in Int
   PROVE \E g : /\ Sums(g, [i \in DOMAIN actions |-> ActionRisk(actions[i], confidence, constraints, tool)], DOMAIN actions)
                /\ MeanRisk(actions, confidence, constraints, tool) = g[DOMAIN actions] \div Cardinality(DOMAIN actions)
<1> DEFINE S == DOMAIN actions
           f == [i \in S |-> ActionRisk(actions[i], confidence, constraints, tool)]
           h == CHOOSE h : h = [T \in SUBSET S |-> IF T = {} THEN 0
                   ELSE LET x == CHOOSE x \in T : TRUE
                        IN  ActionRisk(actions[x], confidence, constraints, tool) + h[T \ {x}]]
<1>1. ASSUME NEW x
      PROVE  Summing(x, f, S) <=> x = [T \in SUBSET S |-> IF T = {} THEN 0
                   ELSE ActionRisk(actions[Chosen(T)], confidence, constraints, tool) + x[T \ {Chosen(T)}]]
  <2> DEFINE a(T) == IF T = {} THEN 0 ELSE f[Chosen(T)] + x[T \ {Chosen(T)}]
             b(T) == IF T = {} THEN 0 ELSE
                        ActionRisk(actions[Chosen(T)], confidence, constraints, tool) + x[T \ {Chosen(T)}]
  <2>1. ASSUME NEW T \in SUBSET S PROVE a(T) = b(T)
    <3>1. T # {} => Chosen(T) \in S
      BY DEF Chosen
    <3> QED
      BY <3>1
  <2> HIDE DEF a, b
  <2>2. [T \in SUBSET S |-> a(T)] = [T \in SUBSET S |-> b(T)]
    BY <2>1
  <2> QED
    BY <2>2 DEF Summing, a, b
<1>2. \E x : Summing(x, f, S)
  BY SummingExists
<1>3. Summing(h, f, S)
  <2>1. PICK g : Summing(g, f, S)
    BY <1>2
  <2>2. g = [T \in SUBSET S |-> IF T = {} THEN 0
                   ELSE ActionRisk(actions[Chosen(T)], confidence, constraints, tool) + g[T \ {Chosen(T)}]]
    BY <1>1, <2>1
  <2>3. \E e : e = [T \in SUBSET S |-> IF T = {} THEN 0
                   ELSE LET x == CHOOSE x \in T : TRUE
                        IN  ActionRisk(actions[x], confidence, constraints, tool) + e[T \ {x}]]
    BY <2>2 DEF Chosen
  <2>4. h = [T \in SUBSET S |-> IF T = {} THEN 0
                   ELSE LET x == CHOOSE x \in T : TRUE
                        IN  ActionRisk(actions[x], confidence, constraints, tool) + h[T \ {x}]]
    BY <2>3
  <2> HIDE DEF h
  <2>5. h = [T \in SUBSET S |-> IF T = {} THEN 0
                   ELSE ActionRisk(actions[Chosen(T)], confidence, constraints, tool) + h[T \ {Chosen(T)}]]
    BY <2>4 DEF Chosen
  <2> QED
    BY <1>1, <2>5
<1>4. Sums(h, f, S)
  BY <1>3, SummingSums
<1>5. MeanRisk(actions, confidence, constraints, tool) = h[S] \div Cardinality(S)
  BY DEF MeanRisk, MeanOver, SumOver, MapThenSumSet, MapThenFoldSet
<1> QED
  BY <1>4, <1>5

(* A sum lies between so many times a lower and an upper bound of its terms. *)
LEMMA SumRange ==
    ASSUME NEW S, IsFiniteSet(S), NEW f, NEW g, Sums(g, f, S), NEW lo \in Int, NEW hi \in Int,
           \A x \in S : f[x] \in Int /\ lo <= f[x] /\ f[x] <= hi
    PROVE  lo * Cardinality(S) <= g[S] /\ g[S] <= hi * Cardinality(S)
<1> DEFINE G == {T \in SUBSET S : lo * Cardinality(T) <= g[T] /\ g[T] <= hi * Cardinality(T)}
<1>1. \A T \in SUBSET S : IsFiniteSet(T) /\ Cardinality(T) \in Nat /\ g[T] \in Int
  BY FS_Subset, FS_CardinalityType DEF Sums
<1>2. \A T \in SUBSET S : T \in G
  <2>1. ASSUME NEW T \in SUBSET S, \A x \in T : T \ {x} \in G PROVE T \in G
    <3>1. CASE T = {}
      <4>1. Cardinality(T) = 0 /\ g[T] = 0
        BY <1>1, <3>1, FS_EmptySet DEF Sums
      <4> QED
        BY <4>1
    <3>2. CASE T # {}
      <4>1. PICK x \in T : g[T] = f[x] + g[T \ {x}]
        BY <3>2 DEF Sums
      <4>2. T \ {x} \in SUBSET S /\ T \ {x} \in G
        BY <2>1, <4>1
      <4>3. Cardinality(T \ {x}) = Cardinality(T) - 1
        BY <1>1, <4>1, FS_RemoveElement
      <4>4. PICK n \in Nat, s \in Int, t \in Int, a \in Int :
                /\ n = Cardinality(T \ {x}) /\ s = g[T \ {x}] /\ t = g[T] /\ a = f[x]
        BY <1>1, <4>1, <4>2
      <4>5. Cardinality(T) = n + 1 /\ lo * n <= s /\ s <= hi * n /\ t = a + s /\ lo <= a /\ a <= hi
        BY <1>1, <4>1, <4>2, <4>3, <4>4
      <4>6. lo * (n + 1) = lo * n + lo /\ hi * (n + 1) = hi * n + hi
        OBVIOUS
      <4>7. lo * n \in Int /\ hi * n \in Int
        OBVIOUS
      <4>8. lo * (n + 1) <= t /\ t <= hi * (n + 1)
        BY <4>5, <4>6, <4>7
      <4> QED
        BY <4>4, <4>5, <4>8
    <3> QED
      BY <3>1, <3>2
  <2> HIDE DEF G
  <2> QED
    BY <2>1, SizeInduction
<1> QED
  BY <1>2

(* A quotient is between what its dividend is between.                       *)
LEMMA Quotients ==
    ASSUME NEW n \in Nat \ {0}, NEW s \in Int
    PROVE  /\ s \div n \in Int
           /\ \A lo, hi \in Int : lo * n <= s /\ s <= hi * n => lo <= s \div n /\ s \div n <= hi
<1> DEFINE q == s \div n
<1>1. q \in Int /\ n * q <= s /\ s < n * q + n
  <2>1. q \in Int /\ s = n * q + (s % n) /\ 0 <= s % n /\ s % n < n
    OBVIOUS
  <2>2. s % n \in Int /\ n * q \in Int
    BY <2>1
  <2> QED
    BY <2>1, <2>2
<1> HIDE DEF q
<1>2. ASSUME NEW lo \in Int, NEW hi \in Int, lo * n <= s, s <= hi * n PROVE lo <= q /\ q <= hi
  <2>1. lo <= q
    <3> SUFFICES ASSUME q + 1 <= lo PROVE FALSE
      BY <1>1
    <3>0. lo - (q + 1) \in Nat /\ lo = q + 1 + (lo - (q + 1))
      BY <1>1
    <3>1. PICK d \in Nat : lo = q + 1 + d
      BY <3>0
    <3>2. lo * n = n * q + n + d * n
      BY <1>1, <3>1
    <3>3. d * n \in Nat /\ n * q \in Int
      BY <1>1
    <3> QED
      BY <1>1, <1>2, <3>2, <3>3
  <2>2. q <= hi
    <3> SUFFICES ASSUME hi + 1 <= q PROVE FALSE
      BY <1>1
    <3>0. q - (hi + 1) \in Nat /\ q = hi + 1 + (q - (hi + 1))
      BY <1>1
    <3>1. PICK d \in Nat : q = hi + 1 + d
      BY <3>0
    <3>2. n * q = hi * n + n + d * n
      BY <1>1, <3>1
    <3>3. d * n \in Nat /\ hi * n \in Int
      BY <1>1
    <3> QED
      BY <1>1, <1>2, <3>2, <3>3
  <2> QED
    BY <2>1, <2>2
<1> QED
  BY <1>1, <1>2 DEF q

(* The root of a number in its range is one.                                 *)
LEMMA RootIs ==
    ASSUME NEW n \in Nat, n < 3520 * 3520
    PROVE  Root(n) \in Nat
<1>1. n \in Nat
  OBVIOUS
<1> DEFINE S == {k \in Nat : n < (k + 1) * (k + 1)}
<1>2. 3519 \in S
  BY SMT
<1>3. PICK r \in S : \A k \in S : r <= k
  <2>1. S \in SUBSET Nat
    OBVIOUS
  <2> HIDE DEF S
  <2>2. S # {}
    BY <1>2
  <2> QED
    BY <2>1, <2>2, LeastNatural
<1>4. r \in Nat /\ r <= 3519 /\ n < (r + 1) * (r + 1)
  BY <1>2, <1>3
<1>5. r * r <= n
  <2>1. CASE r = 0
    BY <1>1, <2>1
  <2>2. CASE r # 0
    <3>1. r - 1 \in Nat /\ r - 1 \notin S
      BY <1>3, <1>4, <2>2
    <3>2. ~(n < r * r)
      BY <1>4, <3>1
    <3>3. r * r \in Nat
      BY <1>4
    <3> QED
      BY <1>1, <3>2, <3>3
  <2> QED
    BY <2>1, <2>2
<1> HIDE DEF S
<1>6. PICK q \in Nat : 64 * q <= r /\ r <= 64 * q + 63 /\ q \in 0 .. 54
  <2>1. r \div 64 \in Nat /\ 64 * (r \div 64) <= r /\ r <= 64 * (r \div 64) + 63 /\ r \div 64 \in 0 .. 54
    BY <1>4, SMT
  <2> QED
    BY <2>1
<1>7. 4096 * q * q <= n
  <2>0. r - 64 * q \in Nat /\ r = 64 * q + (r - 64 * q)
    BY <1>4, <1>6
  <2>1. PICK d \in Nat : r = 64 * q + d
    BY <2>0
  <2>2. r * r = 4096 * q * q + (128 * q * d + d * d)
    BY <2>1
  <2>3. 128 * q * d + d * d \in Nat /\ 4096 * q * q \in Nat
    BY <2>1, <1>6
  <2> QED
    BY <1>1, <1>5, <2>2, <2>3
<1>8. n < 4096 * (q + 1) * (q + 1)
  <2>0. 64 * (q + 1) - (r + 1) \in Nat /\ 64 * (q + 1) = r + 1 + (64 * (q + 1) - (r + 1))
    BY <1>4, <1>6
  <2>1. PICK d \in Nat : 64 * (q + 1) = r + 1 + d
    BY <2>0
  <2>2. 4096 * (q + 1) * (q + 1) = (64 * (q + 1)) * (64 * (q + 1))
    BY <1>6
  <2>3. (r + 1 + d) * (r + 1 + d) = (r + 1) * (r + 1) + (2 * (r + 1) * d + d * d)
    BY <1>4, <2>1
  <2>4. 2 * (r + 1) * d + d * d \in Nat /\ (r + 1) * (r + 1) \in Nat
    BY <1>4, <2>1
  <2> QED
    BY <1>1, <1>4, <2>1, <2>2, <2>3, <2>4
<1> DEFINE R == UNION {64 * p .. 64 * p + 63 :
                          p \in {b \in 0 .. 54 : 4096 * b * b <= n /\ n < 4096 * (b + 1) * (b + 1)}}
<1>9. r \in R
  <2>1. q \in {b \in 0 .. 54 : 4096 * b * b <= n /\ n < 4096 * (b + 1) * (b + 1)}
    BY <1>6, <1>7, <1>8
  <2>2. r \in 64 * q .. 64 * q + 63
    BY <1>4, <1>6
  <2> DEFINE B == {b \in 0 .. 54 : 4096 * b * b <= n /\ n < 4096 * (b + 1) * (b + 1)}
             I(p) == 64 * p .. 64 * p + 63
  <2> HIDE DEF B, I
  <2>3. q \in B /\ r \in I(q)
    BY <2>1, <2>2 DEF B, I
  <2>4. r \in UNION {I(p) : p \in B}
    BY <2>3
  <2> QED
    BY <2>4 DEF B, I
<1>10. \A x \in R : x \in Nat
  OBVIOUS
<1>11. Root(n) = CHOOSE x \in R : x * x <= n /\ n < (x + 1) * (x + 1)
  BY DEF Root
<1> HIDE DEF R
<1>12. Root(n) \in R
  <2>1. \E x \in R : x * x <= n /\ n < (x + 1) * (x + 1)
    BY <1>4, <1>5, <1>9
  <2> QED
    BY <1>11, <2>1
<1> QED
  BY <1>10, <1>12

-----------------------------------------------------------------------------
(* Scores, and states of three of them. *)

(* What the clamps and the parts of numbers are.                             *)
LEMMA Clamps ==
    ASSUME NEW x \in Int
    PROVE  /\ Within(x) \in 0 .. 1000 /\ Within(x) = IF x < 0 THEN 0 ELSE IF x > 1000 THEN 1000 ELSE x
           /\ Clamped(x) \in -1000 .. 1000
<1>1. PICK y \in Int : y = Min({1000, x}) /\ y = IF x > 1000 THEN 1000 ELSE x
  BY Extremes
<1>2. PICK m \in Int : m = -1000
  OBVIOUS
<1>3. Within(x) = Max({0, y}) /\ Clamped(x) = Max({m, y})
  BY <1>1, <1>2 DEF Within, Clamped, One
<1>4. Max({0, y}) = (IF 0 >= y THEN 0 ELSE y) /\ Max({m, y}) = (IF m >= y THEN m ELSE y)
  BY Extremes
<1>5. /\ (IF 0 >= y THEN 0 ELSE y) \in 0 .. 1000
      /\ (IF 0 >= y THEN 0 ELSE y) = IF x < 0 THEN 0 ELSE IF x > 1000 THEN 1000 ELSE x
  BY <1>1
<1>6. (IF m >= y THEN m ELSE y) \in -1000 .. 1000
  BY <1>1, <1>2, SMTT(30)
<1>7. Within(x) = (IF 0 >= y THEN 0 ELSE y) /\ Clamped(x) = (IF m >= y THEN m ELSE y)
  BY <1>3, <1>4
<1> QED
  BY <1>5, <1>6, <1>7

LEMMA Parts ==
    ASSUME NEW p \in Int, NEW x \in Int
    PROVE  Percent(p, x) \in Int /\ Scaled(p, x) \in Int
<1>1. p * x \in Int
  OBVIOUS
<1>2. PICK y \in Int : y = p * x
  BY <1>1
<1>3. y \div 100 \in Int /\ y \div 1000 \in Int
  OBVIOUS
<1> QED
  BY <1>2, <1>3 DEF Percent, Scaled, One

(* A set of numbers between two bounds has a largest one.                    *)
LEMMA Largest ==
    ASSUME NEW lo \in Int, NEW hi \in Int, NEW S \in SUBSET (lo .. hi), S # {}
    PROVE  Max(S) \in S /\ \A y \in S : Max(S) >= y
<1> DEFINE D == {hi - x : x \in S}
<1>1. \A x \in S : x \in Int /\ x <= hi
  OBVIOUS
<1>2. D \in SUBSET Nat /\ D # {}
  <2>1. \A x \in S : hi - x \in Nat
    BY <1>1
  <2> QED
    BY <2>1
<1>3. PICK d \in D : \A k \in D : d <= k
  <2> HIDE DEF D
  <2> QED
    BY <1>2, LeastNatural
<1>4. PICK m \in S : d = hi - m
  OBVIOUS
<1>5. \A y \in S : m >= y
  <2> SUFFICES ASSUME NEW y \in S PROVE m >= y
    OBVIOUS
  <2>1. hi - y \in D
    OBVIOUS
  <2>2. hi - m <= hi - y
    BY <1>3, <1>4, <2>1
  <2> QED
    BY <1>1, <2>2
<1>6. \E x \in S : \A y \in S : x >= y
  BY <1>5
<1> QED
  BY <1>6, Zenon DEF Max

LEMMA PadAt ==
    ASSUME NEW p \in Pads, NEW d \in 1 .. 3
    PROVE  p[d] \in -One .. One
BY DEF Pads

LEMMA SquareApart ==
    ASSUME NEW x, x \in -One .. One, NEW y, y \in -One .. One
    PROVE  (x - y) * (x - y) \in Int /\ 0 <= (x - y) * (x - y) /\ (x - y) * (x - y) <= 2000 * 2000
<1>0. /\ x \in Int /\ 0 - 1000 <= x /\ x <= 1000
      /\ y \in Int /\ 0 - 1000 <= y /\ y <= 1000
  BY DEF One
<1>1. PICK w \in Int : w = x - y /\ 0 - 2000 <= w /\ w <= 2000
  BY <1>0
<1>2. PICK z \in Nat : z <= 2000 /\ w * w = z * z
  <2>1. CASE w >= 0
    <3>1. PICK z \in Nat : z <= 2000 /\ w = z
      BY <1>1, <2>1
    <3>2. w * w = z * z
      BY <3>1
    <3> QED
      BY <3>1, <3>2
  <2>2. CASE w < 0
    <3>1. PICK z \in Nat : z <= 2000 /\ w = 0 - z
      BY <1>1, <2>2
    <3>2. w * w = z * z
      BY <3>1
    <3> QED
      BY <3>1, <3>2
  <2> QED
    BY <2>1, <2>2
<1>3. z * z \in Nat /\ z * z <= 2000 * z /\ 2000 * z <= 2000 * 2000
  BY <1>2
<1>4. w * w \in Int /\ 0 <= w * w /\ w * w <= 2000 * 2000
  BY <1>2, <1>3
<1>5. (x - y) * (x - y) = w * w
  BY <1>1
<1> QED
  BY <1>4, <1>5, SMTT(30)

LEMMA DistanceIs ==
    ASSUME NEW p \in Pads, NEW q \in Pads
    PROVE  distance(p, q) \in Nat
<1> DEFINE S == 1 .. 3
           e(d) == (p[d] - q[d]) * (p[d] - q[d])
           f == [d \in S |-> e(d)]
           h == CHOOSE h : h = [T \in SUBSET S |-> IF T = {} THEN 0
                   ELSE LET x == CHOOSE x \in T : TRUE IN (p[x] - q[x]) * (p[x] - q[x]) + h[T \ {x}]]
<1>1. ASSUME NEW d \in S PROVE e(d) \in Int /\ 0 <= e(d) /\ e(d) <= 2000 * 2000
  <2>1. p[d] \in -One .. One /\ q[d] \in -One .. One
    BY PadAt
  <2>2. /\ (p[d] - q[d]) * (p[d] - q[d]) \in Int
        /\ 0 <= (p[d] - q[d]) * (p[d] - q[d]) /\ (p[d] - q[d]) * (p[d] - q[d]) <= 2000 * 2000
    BY <2>1, SquareApart
  <2> QED
    BY <2>2
<1>2. IsFiniteSet(S) /\ Cardinality(S) = 3
  <2>1. 1 \in Int /\ 3 \in Int
    OBVIOUS
  <2>2. IsFiniteSet(1 .. 3) /\ Cardinality(1 .. 3) = IF 1 > 3 THEN 0 ELSE 3 - 1 + 1
    BY <2>1, FS_Interval, Zenon
  <2> QED
    BY <2>2
<1>3. \A d \in S : f[d] = e(d) /\ f[d] \in Int
  BY <1>1
<1>4. ASSUME NEW x
      PROVE  Summing(x, f, S) <=> x = [T \in SUBSET S |-> IF T = {} THEN 0
                   ELSE e(Chosen(T)) + x[T \ {Chosen(T)}]]
  <2> DEFINE a(T) == IF T = {} THEN 0 ELSE f[Chosen(T)] + x[T \ {Chosen(T)}]
             b(T) == IF T = {} THEN 0 ELSE e(Chosen(T)) + x[T \ {Chosen(T)}]
  <2>1. ASSUME NEW T \in SUBSET S PROVE a(T) = b(T)
    <3>1. T # {} => Chosen(T) \in S
      BY DEF Chosen
    <3> QED
      BY <1>3, <3>1
  <2> HIDE DEF a, b
  <2>2. [T \in SUBSET S |-> a(T)] = [T \in SUBSET S |-> b(T)]
    BY <2>1
  <2> QED
    BY <2>2 DEF Summing, a, b
<1>5. Sums(h, f, S)
  <2>1. PICK g : Summing(g, f, S)
    <3> HIDE DEF f, S
    <3> QED
      BY <1>2, <1>3, SummingExists
  <2>0. g = [T \in SUBSET S |-> IF T = {} THEN 0
                   ELSE (p[Chosen(T)] - q[Chosen(T)]) * (p[Chosen(T)] - q[Chosen(T)]) + g[T \ {Chosen(T)}]]
    BY <1>4, <2>1
  <2>2. \E k : k = [T \in SUBSET S |-> IF T = {} THEN 0
                   ELSE LET x == CHOOSE x \in T : TRUE IN (p[x] - q[x]) * (p[x] - q[x]) + k[T \ {x}]]
    BY <2>0 DEF Chosen
  <2>3. h = [T \in SUBSET S |-> IF T = {} THEN 0
                   ELSE LET x == CHOOSE x \in T : TRUE IN (p[x] - q[x]) * (p[x] - q[x]) + h[T \ {x}]]
    BY <2>2
  <2> HIDE DEF h
  <2>5. h = [T \in SUBSET S |-> IF T = {} THEN 0
                   ELSE (p[Chosen(T)] - q[Chosen(T)]) * (p[Chosen(T)] - q[Chosen(T)]) + h[T \ {Chosen(T)}]]
    BY <2>3 DEF Chosen
  <2>4. Summing(h, f, S)
    BY <1>4, <2>5
  <2> QED
    BY <1>2, <1>3, <2>4, SummingSums
<1>6. distance(p, q) = Root(h[S])
  BY DEF distance, SumOver, MapThenSumSet, MapThenFoldSet
<1> HIDE DEF h, f
<1>7. h[S] \in Nat /\ h[S] < 3520 * 3520
  <2>1. h[S] \in Int
    BY <1>5 DEF Sums
  <2>2. PICK m \in Int : m = 2000 * 2000
    OBVIOUS
  <2>3. 0 * Cardinality(S) <= h[S] /\ h[S] <= m * Cardinality(S)
    BY <1>1, <1>2, <1>3, <1>5, <2>2, SumRange
  <2> QED
    BY <1>2, <2>1, <2>2, <2>3, SMT
<1> QED
  BY <1>6, <1>7, RootIs

(* A state of three scores.                                                  *)
LEMMA PadOfThree ==
    ASSUME NEW f, \A d \in 1 .. 3 : f[d] \in -One .. One, f = [d \in 1 .. 3 |-> f[d]]
    PROVE  f \in Pads
BY DEF Pads

LEMMA ZeroIs == Zero \in Pads
<1>1. 0 \in -One .. One
  BY DEF One
<1>2. Zero = [d \in 1 .. 3 |-> 0]
  BY SMTT(30) DEF Zero
<1> QED
  BY <1>1, <1>2, Zenon DEF Pads

LEMMA ClampedIn ==
    ASSUME NEW x, x \in Int
    PROVE  Clamped(x) \in -One .. One /\ Within(x) \in 0 .. One /\ Within(x) \in Int
BY Clamps DEF One

LEMMA PartsIn ==
    ASSUME NEW p, p \in Int, NEW x, x \in Int
    PROVE  Percent(p, x) \in Int /\ Scaled(p, x) \in Int
BY Parts

LEMMA ScoreInt ==
    ASSUME NEW x, x \in -One .. One
    PROVE  x \in Int
BY DEF One

LEMMA PadInt ==
    ASSUME NEW p \in Pads, NEW d \in 1 .. 3
    PROVE  p[d] \in Int
<1>1. p[d] \in -One .. One
  BY DEF Pads
<1> QED
  BY <1>1, ScoreInt

(* A decayed, a merged and a next state are states.                          *)
LEMMA DecayIs ==
    ASSUME NEW p \in Pads, NEW base \in Pads
    PROVE  decay(p, 920, base) \in Pads
<1> DEFINE g == decay(p, 920, base)
<1>1. g = [d \in 1 .. 3 |-> Clamped(base[d] + Scaled(920, p[d] - base[d]))]
  BY DEF decay
<1>2. ASSUME NEW d \in 1 .. 3 PROVE g[d] \in -One .. One
  <2>1. p[d] \in Int /\ base[d] \in Int
    BY PadInt
  <2>2. PICK a \in Int, b \in Int : a = p[d] /\ b = base[d]
    BY <2>1, Zenon
  <2>3. PICK m \in Int : m = a - b
    OBVIOUS
  <2>4. PICK c \in Int : c = Scaled(920, m)
    BY PartsIn
  <2>5. PICK e \in Int : e = b + c
    OBVIOUS
  <2>6. Clamped(e) \in -One .. One
    BY ClampedIn
  <2>7. g[d] = Clamped(base[d] + Scaled(920, p[d] - base[d]))
    BY <1>1
  <2>8. m = p[d] - base[d]
    BY <2>2, <2>3, Zenon
  <2>9. e = base[d] + Scaled(920, p[d] - base[d])
    BY <2>2, <2>4, <2>5, <2>8, Zenon
  <2> HIDE DEF g
  <2>10. g[d] = Clamped(e)
    BY <2>7, <2>9
  <2> QED
    BY <2>6, <2>10
<1>3. g = [d \in 1 .. 3 |-> g[d]]
  BY <1>1
<1> HIDE DEF g
<1>4. g \in Pads
  BY <1>2, <1>3, PadOfThree
<1> QED
  BY <1>4 DEF g

LEMMA MergeIs ==
    ASSUME NEW p \in Pads, NEW q \in Pads, NEW weight \in Int
    PROVE  merge(p, q, weight) \in Pads
<1> DEFINE g == merge(p, q, weight)
<1>0. PICK w \in Int : w = Within(weight)
  BY Clamps
<1>1. g = [d \in 1 .. 3 |-> Clamped((p[d] * (One - w) + q[d] * w) \div One)]
  BY <1>0 DEF merge
<1>2. ASSUME NEW d \in 1 .. 3 PROVE g[d] \in -One .. One
  <2>1. p[d] \in Int /\ q[d] \in Int
    BY PadInt
  <2>2. p[d] * (One - w) + q[d] * w \in Int
    <3>1. PICK a \in Int, b \in Int : a = p[d] /\ b = q[d]
      BY <2>1, Zenon
    <3>2. a * (One - w) + b * w \in Int
      BY DEF One
    <3> QED
      BY <3>1, <3>2, Zenon
  <2>3. \A x \in Int : x \div One \in Int
    BY DEF One
  <2>4. (p[d] * (One - w) + q[d] * w) \div One \in Int
    BY <2>2, <2>3
  <2>5. Clamped((p[d] * (One - w) + q[d] * w) \div One) \in -One .. One
    BY <2>4, ClampedIn, Zenon
  <2> QED
    BY <1>1, <2>5
<1>3. g = [d \in 1 .. 3 |-> g[d]]
  BY <1>1
<1> HIDE DEF g
<1>4. g \in Pads
  BY <1>2, <1>3, PadOfThree
<1> QED
  BY <1>4 DEF g

LEMMA NextPadIs ==
    ASSUME NEW profile, profile.pad \in Pads, profile.confidence \in 0 .. One,
           NEW current, current.pad \in Pads, current.baseline \in Pads
    PROVE  NextPad(profile, current) \in Pads
<1>1. profile.confidence \in Int
  BY SMTT(30) DEF One
<1>2. Percent(25, profile.confidence) \in Int
  BY <1>1, PartsIn
<1>3. 450 + Percent(25, profile.confidence) \in Int
  BY <1>2
<1>4. decay(current.pad, 920, current.baseline) \in Pads
  BY DecayIs
<1>5. PICK w \in Int, p \in Pads : /\ w = 450 + Percent(25, profile.confidence)
                                     /\ p = decay(current.pad, 920, current.baseline)
  BY <1>3, <1>4, ZenonT(60)
<1>6. merge(p, profile.pad, w) \in Pads
  BY MergeIs
<1> QED
  BY <1>5, <1>6, ZenonT(60) DEF NextPad

(* The last count states of a history.                                       *)
LEMMA RecentIs ==
    ASSUME NEW h \in Seq(Pads), NEW count \in Nat \ {0}
    PROVE  get_recent(h, count) \in Seq(Pads)
<1>1. Len(h) \in Nat
  BY LenProperties
<1>2. PICK n \in Nat : n = Len(h)
  BY <1>1
<1>3. PICK k \in Int : k = n - count + 1
  OBVIOUS
<1>4. PICK m \in Int : m = Max({1, k}) /\ m = IF 1 >= k THEN 1 ELSE k
  BY Extremes
<1>5. get_recent(h, count) = SubSeq(h, m, n)
  BY <1>2, <1>3, <1>4 DEF get_recent
<1>6. m \in 1 .. n + 1
  BY <1>3, <1>4
<1>7. SubSeq(h, m, n) \in Seq(Pads)
  BY <1>2, <1>6, SubSeqProperties
<1> QED
  BY <1>5, <1>7

LEMMA ElementOf ==
    ASSUME NEW h \in Seq(Pads), NEW i \in 1 .. Len(h)
    PROVE  h[i] \in Pads
BY ElementOfSeq

LEMMA AddedIs ==
    ASSUME NEW h \in Seq(Pads), NEW p \in Pads
    PROVE  Added(h, p) \in Seq(Pads)
<1>1. Append(h, p) \in Seq(Pads)
  BY AppendProperties
<1>2. 50 \in Nat \ {0}
  OBVIOUS
<1> QED
  BY <1>1, <1>2, RecentIs DEF Added, HistoryLimit

LEMMA StepIs ==
    ASSUME NEW h \in Seq(Pads), NEW i \in 2 .. Len(h)
    PROVE  Step(h, i) \in Nat
<1>0. PICK n \in Nat : n = Len(h)
  BY LenProperties
<1>1. i \in 1 .. n /\ i - 1 \in 1 .. n
  BY <1>0
<1>2. h[i] \in Pads /\ h[i - 1] \in Pads
  BY <1>0, <1>1, ElementOf
<1> QED
  BY <1>2, DistanceIs DEF Step

LEMMA Indices ==
    ASSUME NEW k \in Nat, NEW n \in Nat, k <= n + 1
    PROVE  IsFiniteSet(k .. n) /\ Cardinality(k .. n) = n - k + 1
<1>1. k \in Int /\ n \in Int
  OBVIOUS
<1>2. IsFiniteSet(k .. n) /\ Cardinality(k .. n) = IF k > n THEN 0 ELSE n - k + 1
  BY <1>1, FS_Interval, Zenon
<1> QED
  BY <1>2

(* A mean of numbers between two bounds is between them.                     *)
LEMMA MeanRange ==
    ASSUME NEW S, IsFiniteSet(S), S # {}, NEW f, NEW g, Sums(g, f, S), NEW lo \in Int, NEW hi \in Int,
           \A x \in S : f[x] \in Int /\ lo <= f[x] /\ f[x] <= hi
    PROVE  /\ g[S] \div Cardinality(S) \in Int
           /\ lo <= g[S] \div Cardinality(S) /\ g[S] \div Cardinality(S) <= hi
<1>1. Cardinality(S) \in Nat /\ Cardinality(S) # 0
  BY FS_CardinalityType, FS_EmptySet
<1>2. g[S] \in Int
  BY DEF Sums
<1>3. lo * Cardinality(S) <= g[S] /\ g[S] <= hi * Cardinality(S)
  BY SumRange
<1>4. PICK n \in Nat \ {0}, s \in Int : n = Cardinality(S) /\ s = g[S]
  BY <1>1, <1>2
<1>5. lo * n <= s /\ s <= hi * n
  BY <1>3, <1>4
<1>6. s \div n \in Int /\ lo <= s \div n /\ s \div n <= hi
  BY <1>5, Quotients
<1> QED
  BY <1>4, <1>6, Zenon

(* A mean of natural numbers.                                                *)
LEMMA MeanNatural ==
    ASSUME NEW S, IsFiniteSet(S), S # {}, NEW f, NEW g, Sums(g, f, S), \A x \in S : f[x] \in Nat
    PROVE  g[S] \div Cardinality(S) \in Nat
<1> DEFINE G == {T \in SUBSET S : 0 <= g[T]}
<1>1. \A T \in SUBSET S : IsFiniteSet(T) /\ Cardinality(T) \in Nat /\ g[T] \in Int
  BY FS_Subset, FS_CardinalityType DEF Sums
<1>2. \A T \in SUBSET S : T \in G
  <2>1. ASSUME NEW T \in SUBSET S, \A x \in T : T \ {x} \in G PROVE T \in G
    <3>1. CASE T = {}
      <4>1. g[T] = 0
        BY <3>1 DEF Sums
      <4> QED
        BY <4>1
    <3>2. CASE T # {}
      <4>1. PICK x \in T : g[T] = f[x] + g[T \ {x}]
        BY <3>2 DEF Sums
      <4>2. T \ {x} \in SUBSET S /\ T \ {x} \in G /\ f[x] \in Nat
        BY <2>1, <4>1
      <4> QED
        BY <1>1, <4>1, <4>2
    <3> QED
      BY <3>1, <3>2
  <2> HIDE DEF G
  <2> QED
    BY <2>1, SizeInduction
<1>3. Cardinality(S) \in Nat /\ Cardinality(S) # 0
  BY FS_CardinalityType, FS_EmptySet
<1>4. PICK n \in Nat \ {0}, s \in Nat : n = Cardinality(S) /\ s = g[S]
  BY <1>1, <1>2, <1>3
<1>5. s \div n \in Nat
  OBVIOUS
<1> QED
  BY <1>4, <1>5

LEMMA AverageAt ==
    ASSUME NEW pads \in Seq(Pads), pads # <<>>, NEW e \in 1 .. 3
    PROVE  MeanOver(DOMAIN pads, LAMBDA i : pads[i][e]) \in -One .. One
<1> DEFINE S == DOMAIN pads
           f == [d \in S |-> pads[d][e]]
           h == CHOOSE h : h = [T \in SUBSET S |-> IF T = {} THEN 0
                   ELSE LET x == CHOOSE x \in T : TRUE IN pads[x][e] + h[T \ {x}]]
<1>1. PICK n \in Nat : n = Len(pads) /\ S = 1 .. n /\ n # 0
  <2>1. Len(pads) \in Nat /\ DOMAIN pads = 1 .. Len(pads)
    BY LenProperties
  <2>2. Len(pads) # 0
    BY EmptySeq
  <2> QED
    BY <2>1, <2>2
<1>2. IsFiniteSet(S) /\ S # {}
  <2>1. IsFiniteSet(1 .. n)
    BY <1>1, Indices
  <2>2. 1 \in 1 .. n
    BY <1>1
  <2> HIDE DEF S
  <2> QED
    BY <1>1, <2>1, <2>2
<1>3. ASSUME NEW d \in S PROVE f[d] = pads[d][e] /\ f[d] \in -One .. One
  <2>1. pads[d] \in Pads
    BY <1>1, ElementOf
  <2>2. pads[d][e] \in -One .. One
    BY <2>1 DEF Pads
  <2> QED
    BY <2>2
<1>4. \A d \in S : f[d] = pads[d][e] /\ f[d] \in Int
  BY <1>3, ScoreInt
<1>5. ASSUME NEW x
      PROVE  Summing(x, f, S) <=> x = [T \in SUBSET S |-> IF T = {} THEN 0
                   ELSE pads[Chosen(T)][e] + x[T \ {Chosen(T)}]]
  <2> DEFINE l(T) == IF T = {} THEN 0 ELSE f[Chosen(T)] + x[T \ {Chosen(T)}]
             r(T) == IF T = {} THEN 0 ELSE pads[Chosen(T)][e] + x[T \ {Chosen(T)}]
  <2>1. ASSUME NEW T \in SUBSET S PROVE l(T) = r(T)
    <3>1. T # {} => Chosen(T) \in S
      BY DEF Chosen
    <3> QED
      BY <1>4, <3>1
  <2> HIDE DEF l, r
  <2>2. [T \in SUBSET S |-> l(T)] = [T \in SUBSET S |-> r(T)]
    BY <2>1
  <2> QED
    BY <2>2 DEF Summing, l, r
<1>6. Sums(h, f, S)
  <2>1. PICK g : Summing(g, f, S)
    <3> HIDE DEF f, S
    <3> QED
      BY <1>2, <1>4, SummingExists
  <2>2. g = [T \in SUBSET S |-> IF T = {} THEN 0
                   ELSE pads[Chosen(T)][e] + g[T \ {Chosen(T)}]]
    BY <1>5, <2>1
  <2>3. \E k : k = [T \in SUBSET S |-> IF T = {} THEN 0
                   ELSE LET x == CHOOSE x \in T : TRUE IN pads[x][e] + k[T \ {x}]]
    BY <2>2 DEF Chosen
  <2>4. h = [T \in SUBSET S |-> IF T = {} THEN 0
                   ELSE LET x == CHOOSE x \in T : TRUE IN pads[x][e] + h[T \ {x}]]
    BY <2>3
  <2> HIDE DEF h
  <2>5. h = [T \in SUBSET S |-> IF T = {} THEN 0
                   ELSE pads[Chosen(T)][e] + h[T \ {Chosen(T)}]]
    BY <2>4 DEF Chosen
  <2>6. Summing(h, f, S)
    BY <1>5, <2>5
  <2> QED
    BY <1>2, <1>4, <2>6, SummingSums
<1>7. MeanOver(DOMAIN pads, LAMBDA i : pads[i][e]) = h[S] \div Cardinality(S)
  BY DEF MeanOver, SumOver, MapThenSumSet, MapThenFoldSet
<1> HIDE DEF h, f, S
<1>8. PICK lo \in Int, hi \in Int : lo = -One /\ hi = One
  BY DEF One
<1>9. \A x \in lo .. hi : lo <= x /\ x <= hi /\ x \in Int
  OBVIOUS
<1>10. \A x \in S : f[x] \in Int /\ lo <= f[x] /\ f[x] <= hi
  BY <1>3, <1>8, <1>9
<1>11. /\ h[S] \div Cardinality(S) \in Int
       /\ lo <= h[S] \div Cardinality(S) /\ h[S] \div Cardinality(S) <= hi
  BY <1>2, <1>6, <1>10, MeanRange
<1>12. \A x \in Int : lo <= x /\ x <= hi => x \in lo .. hi
  OBVIOUS
<1>13. h[S] \div Cardinality(S) \in lo .. hi
  BY <1>11, <1>12, Zenon
<1> QED
  BY <1>7, <1>8, <1>13, Zenon

(* The mean of some states is one.                                           *)
LEMMA AverageIs ==
    ASSUME NEW pads \in Seq(Pads)
    PROVE  average_pad(pads) \in Pads
<1> DEFINE g == average_pad(pads)
<1>1. CASE pads = <<>>
  <2>1. g = Zero
    BY <1>1 DEF average_pad
  <2> QED
    BY <2>1, ZeroIs, Zenon
<1>2. CASE pads # <<>>
  <2>1. g = [d \in 1 .. 3 |-> MeanOver(DOMAIN pads, LAMBDA i : pads[i][d])]
    BY <1>2 DEF average_pad
  <2>2. ASSUME NEW d \in 1 .. 3 PROVE g[d] \in -One .. One
    BY <1>2, <2>1, AverageAt
  <2>3. g = [d \in 1 .. 3 |-> g[d]]
    BY <2>1
  <2> HIDE DEF g
  <2>4. g \in Pads
    BY <2>2, <2>3, PadOfThree
  <2> QED
    BY <2>4 DEF g
<1> QED
  BY <1>1, <1>2

LEMMA MeanStep ==
    ASSUME NEW recent \in Seq(Pads), Len(recent) >= 2
    PROVE  MeanOver(2 .. Len(recent), LAMBDA i : Step(recent, i)) \in Nat
<1> DEFINE S == 2 .. Len(recent)
           f == [d \in S |-> Step(recent, d)]
           h == CHOOSE h : h = [T \in SUBSET S |-> IF T = {} THEN 0
                   ELSE LET x == CHOOSE x \in T : TRUE IN Step(recent, x) + h[T \ {x}]]
<1>1. PICK n \in Nat : n = Len(recent) /\ S = 2 .. n /\ n >= 2
  BY LenProperties
<1>2. IsFiniteSet(S) /\ S # {}
  <2>1. IsFiniteSet(2 .. n)
    BY <1>1, Indices
  <2> QED
    BY <1>1, <2>1
<1>3. ASSUME NEW d \in S PROVE f[d] = Step(recent, d) /\ f[d] \in Nat
  BY StepIs
<1>4. \A d \in S : f[d] = Step(recent, d) /\ f[d] \in Int
  BY <1>3
<1>5. ASSUME NEW x
      PROVE  Summing(x, f, S) <=> x = [T \in SUBSET S |-> IF T = {} THEN 0
                   ELSE Step(recent, Chosen(T)) + x[T \ {Chosen(T)}]]
  <2> DEFINE l(T) == IF T = {} THEN 0 ELSE f[Chosen(T)] + x[T \ {Chosen(T)}]
             r(T) == IF T = {} THEN 0 ELSE Step(recent, Chosen(T)) + x[T \ {Chosen(T)}]
  <2>1. ASSUME NEW T \in SUBSET S PROVE l(T) = r(T)
    <3>1. T # {} => Chosen(T) \in S
      BY DEF Chosen
    <3> QED
      BY <1>4, <3>1
  <2> HIDE DEF l, r
  <2>2. [T \in SUBSET S |-> l(T)] = [T \in SUBSET S |-> r(T)]
    BY <2>1
  <2> QED
    BY <2>2 DEF Summing, l, r
<1>6. Sums(h, f, S)
  <2>1. PICK g : Summing(g, f, S)
    <3> HIDE DEF f, S
    <3> QED
      BY <1>2, <1>4, SummingExists
  <2>2. g = [T \in SUBSET S |-> IF T = {} THEN 0
                   ELSE Step(recent, Chosen(T)) + g[T \ {Chosen(T)}]]
    BY <1>5, <2>1
  <2>3. \E k : k = [T \in SUBSET S |-> IF T = {} THEN 0
                   ELSE LET x == CHOOSE x \in T : TRUE IN Step(recent, x) + k[T \ {x}]]
    BY <2>2 DEF Chosen
  <2>4. h = [T \in SUBSET S |-> IF T = {} THEN 0
                   ELSE LET x == CHOOSE x \in T : TRUE IN Step(recent, x) + h[T \ {x}]]
    BY <2>3
  <2> HIDE DEF h
  <2>5. h = [T \in SUBSET S |-> IF T = {} THEN 0
                   ELSE Step(recent, Chosen(T)) + h[T \ {Chosen(T)}]]
    BY <2>4 DEF Chosen
  <2>6. Summing(h, f, S)
    BY <1>5, <2>5
  <2> QED
    BY <1>2, <1>4, <2>6, SummingSums
<1>7. MeanOver(2 .. Len(recent), LAMBDA i : Step(recent, i)) = h[S] \div Cardinality(S)
  BY DEF MeanOver, SumOver, MapThenSumSet, MapThenFoldSet
<1> HIDE DEF h, f, S
<1>8. h[S] \div Cardinality(S) \in Nat
  BY <1>2, <1>3, <1>6, MeanNatural
<1> QED
  BY <1>7, <1>8, Zenon

LEMMA CappedIs ==
    ASSUME NEW x \in Nat
    PROVE  Min({One, x}) \in 0 .. One
<1>1. PICK o \in Int : o = One /\ o = 1000
  BY DEF One
<1>2. Min({o, x}) = IF o <= x THEN o ELSE x
  BY Extremes
<1>3. (IF o <= x THEN o ELSE x) \in 0 .. o
  BY <1>1
<1> QED
  BY <1>1, <1>2, <1>3

(* The volatility, the acceleration and the dissonance are scores.           *)
LEMMA VolatilityIs ==
    ASSUME NEW h \in Seq(Pads)
    PROVE  compute_volatility(h) \in 0 .. One
<1>0. 6 \in Nat \ {0}
  OBVIOUS
<1>1. get_recent(h, 6) \in Seq(Pads)
  BY <1>0, RecentIs
<1>2. CASE Len(get_recent(h, 6)) < 2
  <2>1. compute_volatility(h) = 0
    BY <1>2 DEF compute_volatility
  <2> QED
    BY <2>1 DEF One
<1>3. CASE ~(Len(get_recent(h, 6)) < 2)
  <2>0. Len(get_recent(h, 6)) \in Nat
    BY <1>1, LenProperties
  <2>1. Len(get_recent(h, 6)) >= 2
    BY <1>3, <2>0
  <2>2. MeanOver(2 .. Len(get_recent(h, 6)), LAMBDA i : Step(get_recent(h, 6), i)) \in Nat
    BY <1>1, <2>1, MeanStep
  <2>3. compute_volatility(h)
        = Min({One, MeanOver(2 .. Len(get_recent(h, 6)), LAMBDA i : Step(get_recent(h, 6), i))})
    BY <1>3 DEF compute_volatility
  <2> QED
    BY <2>2, <2>3, CappedIs
<1> QED
  BY <1>2, <1>3

-----------------------------------------------------------------------------
(* The affect engine. *)

LEMMA AccelerationIs ==
    ASSUME NEW h \in Seq(Pads)
    PROVE  compute_acceleration(h) \in Int
<1>0. PICK n \in Nat : n = Len(h)
  BY LenProperties
<1>1. CASE n < 3
  BY <1>0, <1>1 DEF compute_acceleration
<1>2. CASE ~(n < 3)
  <2>1. n \in 2 .. n /\ n - 1 \in 2 .. n
    BY <1>2
  <2>2. Step(h, n) \in Nat /\ Step(h, n - 1) \in Nat
    BY <1>0, <2>1, StepIs
  <2>3. compute_acceleration(h) = Step(h, n) - Step(h, n - 1)
    BY <1>0, <1>2 DEF compute_acceleration
  <2> QED
    BY <2>2, <2>3
<1> QED
  BY <1>1, <1>2

LEMMA DissonanceIs ==
    ASSUME NEW h \in Seq(Pads), NEW current \in Pads, NEW confidence \in 0 .. One
    PROVE  detect_dissonance(h, current, confidence) \in 0 .. One
<1>0. 5 \in Nat \ {0}
  OBVIOUS
<1>1. PICK recent \in Seq(Pads) : recent = get_recent(h, 5)
  BY <1>0, RecentIs
<1>2. PICK past \in Pads : past = average_pad(recent)
  BY AverageIs
<1>3. CASE Len(recent) < 3
  <2>1. detect_dissonance(h, current, confidence) = 0
    BY <1>1, <1>3 DEF detect_dissonance
  <2> QED
    BY <2>1 DEF One
<1>4. CASE ~(Len(recent) < 3)
  <2>1. PICK d \in Nat : d = distance(past, current)
    BY DistanceIs
  <2>2. d \div 2 \in Nat
    OBVIOUS
  <2>3. PICK a \in Nat : a = Min({One, d \div 2})
    <3>1. Min({One, d \div 2}) \in 0 .. One
      BY <2>2, CappedIs
    <3> QED
      BY <3>1 DEF One
  <2>4. PICK b \in Nat : b = IF past[1] * current[1] < -50 * One THEN 250 ELSE 0
    OBVIOUS
  <2>5. PICK c \in Nat : c = IF confidence < 350 THEN 150 ELSE 0
    OBVIOUS
  <2>6. PICK e \in Nat : e = a + b + c
    OBVIOUS
  <2>7. detect_dissonance(h, current, confidence) = Min({One, e})
    BY <1>1, <1>2, <1>4, <2>1, <2>3, <2>4, <2>5, <2>6 DEF detect_dissonance
  <2> QED
    BY <2>7, CappedIs
<1> QED
  BY <1>3, <1>4

LEMMA Scorings ==
    ASSUME NEW x, x \in 0 .. One
    PROVE  x \in Int /\ 0 <= x /\ x <= 1000
BY DEF One

(* The largest of some scores.                                               *)
LEMMA LargestScore ==
    ASSUME NEW S, S \subseteq 0 .. One, S # {}
    PROVE  Max(S) \in S /\ \A y \in S : Max(S) >= y
<1>1. PICK lo \in Int, hi \in Int : lo = 0 /\ hi = One
  BY DEF One
<1>2. S \in SUBSET (lo .. hi)
  BY <1>1
<1> QED
  BY <1>2, Largest

LEMMA IntensityIs ==
    ASSUME NEW scores \in Seq(STRING \X (0 .. One))
    PROVE  Intensity(scores) \in 0 .. One
<1>1. CASE scores = <<>>
  BY <1>1 DEF Intensity, One
<1>2. CASE scores # <<>>
  <2> DEFINE S == {scores[i][2] : i \in DOMAIN scores}
  <2>1. Intensity(scores) = Max(S)
    BY <1>2 DEF Intensity
  <2>2. \A i \in DOMAIN scores : scores[i] \in STRING \X (0 .. One)
    BY ElementOfSeq, LenProperties
  <2>3. \A i \in DOMAIN scores : scores[i][2] \in 0 .. One
    BY <2>2
  <2>4. S \subseteq 0 .. One
    BY <2>3
  <2>5. S # {}
    <3>1. Len(scores) \in Nat /\ DOMAIN scores = 1 .. Len(scores) /\ Len(scores) # 0
      BY <1>2, LenProperties, EmptySeq
    <3>2. 1 \in DOMAIN scores
      BY <3>1
    <3> QED
      BY <3>2
  <2> HIDE DEF S
  <2>6. Max(S) \in S
    BY <2>4, <2>5, LargestScore
  <2> QED
    BY <2>1, <2>4, <2>6
<1> QED
  BY <1>1, <1>2

LEMMA SalienceIs ==
    ASSUME NEW intensity \in 0 .. One, NEW novelty \in Nat, NEW volatility \in 0 .. One
    PROVE  compute_salience(intensity, novelty, volatility) \in 0 .. One
<1>1. intensity \in Int /\ novelty \in Int /\ volatility \in Int
  BY Scorings
<1>2. PICK a \in Int, b \in Int, c \in Int :
          a = Percent(55, intensity) /\ b = Percent(25, novelty) /\ c = Percent(20, volatility)
  <2>1. Percent(55, intensity) \in Int
    BY <1>1, PartsIn
  <2>2. Percent(25, novelty) \in Int
    BY <1>1, PartsIn
  <2>3. Percent(20, volatility) \in Int
    BY <1>1, PartsIn
  <2> QED
    BY <2>1, <2>2, <2>3
<1>3. PICK d \in Int : d = a + b + c
  OBVIOUS
<1>4. Within(d) \in 0 .. One
  BY ClampedIn
<1> QED
  BY <1>2, <1>3, <1>4 DEF compute_salience

LEMMA Complement ==
    ASSUME NEW x, x \in 0 .. One
    PROVE  One - x \in 0 .. One
BY DEF One

(* Signals with scores for strengths.                                        *)
Signalling(signals) == \A s \in signals : s[2] \in 0 .. One

(* The strengths of the signals are scores.                                  *)
LEMMA SignalsIs ==
    ASSUME NEW profile, profile.pad \in Pads, profile.confidence \in 0 .. One,
           NEW dissonance \in 0 .. One, NEW acceleration \in Int, NEW volatility \in 0 .. One
    PROVE  Signalling(generate_reflection_signals(profile, dissonance, acceleration, volatility))
<1>1. One - profile.confidence \in 0 .. One
  BY Complement
<1>2. Within(Abs(profile.pad[1]) + acceleration \div 2) \in 0 .. One
  <2>0. 1 \in 1 .. 3
    OBVIOUS
  <2>1. PICK p \in Int : p = profile.pad[1]
    <3>1. profile.pad[1] \in Int
      BY <2>0, PadInt
    <3> QED
      BY <3>1
  <2>2. PICK a \in Int : a = Abs(p)
    BY DEF Abs
  <2>3. PICK b \in Int : b = acceleration \div 2
    OBVIOUS
  <2>4. PICK c \in Int : c = a + b
    OBVIOUS
  <2>5. Within(c) \in 0 .. One
    BY ClampedIn
  <2> QED
    BY <2>1, <2>2, <2>3, <2>4, <2>5, Zenon
<1>3. ASSUME NEW s \in generate_reflection_signals(profile, dissonance, acceleration, volatility)
      PROVE  s[2] \in 0 .. One
  <2>1. \/ s = <<"emotional_dissonance", dissonance>>
        \/ s = <<"elevated_uncertainty", One - profile.confidence>>
        \/ s = <<"rapid_negative_drift", Within(Abs(profile.pad[1]) + acceleration \div 2)>>
        \/ s = <<"emotional_conflict", volatility>>
    BY <1>3 DEF generate_reflection_signals
  <2>2. \/ s[2] = dissonance
        \/ s[2] = One - profile.confidence
        \/ s[2] = Within(Abs(profile.pad[1]) + acceleration \div 2)
        \/ s[2] = volatility
    BY <2>1
  <2> QED
    BY <1>1, <1>2, <2>2
<1> QED
  BY <1>3 DEF Signalling

(* What an update of the affect engine leaves.                               *)
Updated(u) ==
    /\ u.emotional.pad \in Pads
    /\ u.profile.confidence \in 0 .. One
    /\ u.salience \in 0 .. One
    /\ u.dissonance \in 0 .. One
    /\ Signalling(u.signals)

(* So what the engine leaves of scores are scores.                           *)
LEMMA ProcessIs ==
    ASSUME NEW profile, profile.pad \in Pads, profile.confidence \in 0 .. One,
           profile.emotions \in Seq(STRING \X (0 .. One)),
           NEW current, current.pad \in Pads, current.baseline \in Pads, NEW h \in Seq(Pads)
    PROVE  LET u == process(profile, current, h)
           IN  Updated(u) /\ u.history \in Seq(Pads) /\ u.emotional.baseline = current.baseline
<1>1. PICK pad \in Pads : pad = NextPad(profile, current)
  BY NextPadIs
<1>2. PICK recent \in Seq(Pads) : recent = Added(h, pad)
  BY AddedIs
<1>3. PICK volatility \in 0 .. One : volatility = compute_volatility(recent)
  <2>1. compute_volatility(recent) \in 0 .. One
    BY VolatilityIs
  <2> QED
    BY <2>1, Zenon
<1>4. PICK dissonance \in 0 .. One : dissonance = detect_dissonance(h, profile.pad, profile.confidence)
  <2>1. detect_dissonance(h, profile.pad, profile.confidence) \in 0 .. One
    BY DissonanceIs
  <2> QED
    BY <2>1, Zenon
<1>5. PICK novelty \in Nat : novelty = distance(pad, average_pad(get_recent(recent, 5)))
  <2>1. 5 \in Nat \ {0}
    OBVIOUS
  <2>2. average_pad(get_recent(recent, 5)) \in Pads
    BY <2>1, RecentIs, AverageIs
  <2> QED
    BY <2>2, DistanceIs
<1>6. PICK salience \in 0 .. One :
          salience = compute_salience(Intensity(profile.emotions), novelty, volatility)
  <2>1. Intensity(profile.emotions) \in 0 .. One
    BY IntensityIs
  <2>2. compute_salience(Intensity(profile.emotions), novelty, volatility) \in 0 .. One
    BY <2>1, SalienceIs
  <2> QED
    BY <2>2, Zenon
<1>7. PICK acceleration \in Int : acceleration = compute_acceleration(recent)
  BY AccelerationIs
<1>8. Signalling(generate_reflection_signals(profile, dissonance, acceleration, volatility))
  BY SignalsIs
<1> DEFINE u == process(profile, current, h)
<1>9. /\ u.emotional.pad = pad /\ u.emotional.baseline = current.baseline
      /\ u.profile = profile /\ u.salience = salience /\ u.dissonance = dissonance
      /\ u.history = recent
      /\ u.signals = generate_reflection_signals(profile, dissonance, acceleration, volatility)
  BY <1>1, <1>2, <1>3, <1>4, <1>5, <1>6, <1>7 DEF process
<1> HIDE DEF u
<1>10. Updated(u) /\ u.history \in Seq(Pads) /\ u.emotional.baseline = current.baseline
  BY <1>8, <1>9 DEF Updated
<1> QED
  BY <1>10 DEF u

-----------------------------------------------------------------------------
(* The risk of a plan of a session that states no constraints. *)

(* The steps of a fold over a list, from its end.                            *)
LEMMA LargestIndex ==
    ASSUME NEW n \in Nat, NEW T \in SUBSET (1 .. n), T # {}
    PROVE  Max(T) \in T
<1>1. 1 \in Int /\ n \in Int
  OBVIOUS
<1> QED
  BY <1>1, Largest

Added1(kept, c) ==
    IF \E i \in DOMAIN kept : kept[i].type = c.type /\ kept[i].text = c.text THEN kept ELSE Append(kept, c)

(* Dropping the repeated ones of some constraints adds none.                 *)
LEMMA DedupedIs ==
    ASSUME NEW C, NEW cs \in Seq(C)
    PROVE  Deduped(cs) \in Seq(C)
<1> DEFINE S == DOMAIN cs
           V == Seq(C)
           c == [T \in SUBSET S |-> Max(T)]
           op == [T \in SUBSET S |-> [v \in V |-> Added1(v, cs[Max(T)])]]
           h == CHOOSE h : h = [T \in SUBSET S |-> IF T = {} THEN <<>>
                   ELSE LET x == Max(T)
                        IN  IF \E i \in DOMAIN h[T \ {x}] :
                                  h[T \ {x}][i].type = cs[x].type /\ h[T \ {x}][i].text = cs[x].text
                            THEN h[T \ {x}] ELSE Append(h[T \ {x}], cs[x])]
<1>1. PICK n \in Nat : n = Len(cs) /\ S = 1 .. n
  BY LenProperties
<1>2. IsFiniteSet(S)
  <2>1. 1 \in Int /\ n \in Int
    OBVIOUS
  <2>2. IsFiniteSet(1 .. n)
    BY <2>1, FS_Interval, Zenon
  <2> QED
    BY <1>1, <2>2
<1>3. \A T \in SUBSET S : T # {} => Max(T) \in T
  <2> HIDE DEF S
  <2> QED
    BY <1>1, LargestIndex
<1>4. \A x \in S : cs[x] \in C
  BY ElementOfSeq, LenProperties
<1>5. ASSUME NEW v \in V, NEW x \in C PROVE Added1(v, x) \in V
  BY AppendProperties DEF Added1
<1>6. ASSUME NEW T \in SUBSET S
      PROVE  c[T] = Max(T) /\ \A v \in V : op[T][v] = Added1(v, cs[Max(T)])
  OBVIOUS
<1> HIDE DEF c, op
<1>7. \A T \in SUBSET S : T # {} => c[T] \in T
  BY <1>3, <1>6
<1>8. \A T \in SUBSET S : T # {} => \A v \in V : op[T][v] \in V
  <2> HIDE DEF S, V
  <2> SUFFICES ASSUME NEW T \in SUBSET S, T # {}, NEW v \in V PROVE op[T][v] \in V
    OBVIOUS
  <2>1. cs[Max(T)] \in C
    BY <1>3, <1>4
  <2> QED
    BY <1>5, <1>6, <2>1
<1>9. <<>> \in V
  OBVIOUS
<1>10. PICK g \in [SUBSET S -> V] : Folds(g, <<>>, c, op, SUBSET S)
  <2> HIDE DEF S, V
  <2> QED
    BY <1>2, <1>7, <1>8, <1>9, FoldExists
<1>11. g = [T \in SUBSET S |-> IF T = {} THEN <<>> ELSE Added1(g[T \ {Max(T)}], cs[Max(T)])]
  <2> HIDE DEF V, h
  <2> DEFINE r(T) == IF T = {} THEN <<>> ELSE Added1(g[T \ {Max(T)}], cs[Max(T)])
  <2>1. ASSUME NEW T \in SUBSET S PROVE g[T] = r(T)
    <3>1. g[T] = IF T = {} THEN <<>> ELSE op[T][g[T \ {c[T]}]]
      BY <1>10 DEF Folds
    <3>2. c[T] = Max(T) /\ \A v \in V : op[T][v] = Added1(v, cs[Max(T)])
      BY <1>6
    <3>3. g[T \ {Max(T)}] \in V
      BY <1>10
    <3> QED
      BY <3>1, <3>2, <3>3
  <2>2. g = [T \in SUBSET S |-> g[T]]
    BY <1>10
  <2> HIDE DEF r
  <2>3. g = [T \in SUBSET S |-> r(T)]
    BY <2>1, <2>2
  <2> QED
    BY <2>3 DEF r
<1>12. h = [T \in SUBSET S |-> IF T = {} THEN <<>> ELSE Added1(h[T \ {Max(T)}], cs[Max(T)])]
  <2>1. \E k : k = [T \in SUBSET S |-> IF T = {} THEN <<>>
                   ELSE LET x == Max(T)
                        IN  IF \E i \in DOMAIN k[T \ {x}] :
                                  k[T \ {x}][i].type = cs[x].type /\ k[T \ {x}][i].text = cs[x].text
                            THEN k[T \ {x}] ELSE Append(k[T \ {x}], cs[x])]
    BY <1>11 DEF Added1
  <2>2. h = [T \in SUBSET S |-> IF T = {} THEN <<>>
                   ELSE LET x == Max(T)
                        IN  IF \E i \in DOMAIN h[T \ {x}] :
                                  h[T \ {x}][i].type = cs[x].type /\ h[T \ {x}][i].text = cs[x].text
                            THEN h[T \ {x}] ELSE Append(h[T \ {x}], cs[x])]
    BY <2>1
  <2> HIDE DEF h
  <2> QED
    BY <2>2 DEF Added1
<1>13. Deduped(cs) = h[S]
  BY DEF Deduped, FoldLeft, MapThenFoldSet
<1> HIDE DEF h
<1>14. ASSUME NEW T \in SUBSET S
       PROVE  h[T] = IF T = {} THEN <<>> ELSE Added1(h[T \ {Max(T)}], cs[Max(T)])
  <2> DEFINE r(U) == IF U = {} THEN <<>> ELSE Added1(h[U \ {Max(U)}], cs[Max(U)])
             e == [U \in SUBSET S |-> r(U)]
  <2>1. h = e
    BY <1>12
  <2>2. e[T] = r(T)
    OBVIOUS
  <2> HIDE DEF e
  <2> QED
    BY <2>1, <2>2
<1> DEFINE G == {T \in SUBSET S : h[T] \in V}
<1>15. \A T \in SUBSET S : T \in G
  <2>1. ASSUME NEW T \in SUBSET S, \A x \in T : T \ {x} \in G PROVE T \in G
    <3>1. CASE T = {}
      BY <1>9, <1>14, <3>1
    <3>2. CASE T # {}
      <4> HIDE DEF V, S
      <4>1. Max(T) \in T /\ cs[Max(T)] \in C
        BY <1>3, <1>4, <3>2
      <4>2. h[T \ {Max(T)}] \in V
        BY <2>1, <4>1
      <4>3. Added1(h[T \ {Max(T)}], cs[Max(T)]) \in V
        BY <1>5, <4>1, <4>2
      <4> QED
        BY <1>14, <3>2, <4>3
    <3> QED
      BY <3>1, <3>2
  <2> HIDE DEF G, S
  <2> QED
    BY <1>2, <2>1, SizeInduction
<1> QED
  BY <1>13, <1>15

(* No plan has more actions than these places.                               *)
Sevens == 1 .. 7

(* A sum is at most the sum of the bounds of its terms.                      *)
Bounded(u, T) ==
    (IF 1 \in T THEN u[1] ELSE 0) + (IF 2 \in T THEN u[2] ELSE 0) + (IF 3 \in T THEN u[3] ELSE 0)
    + (IF 4 \in T THEN u[4] ELSE 0) + (IF 5 \in T THEN u[5] ELSE 0) + (IF 6 \in T THEN u[6] ELSE 0)
    + (IF 7 \in T THEN u[7] ELSE 0)

LEMMA BoundedLess ==
    ASSUME NEW u \in [Sevens -> Int], NEW T, NEW x \in Sevens, x \in T
    PROVE  /\ Bounded(u, T) \in Int /\ Bounded(u, T \ {x}) \in Int
           /\ Bounded(u, T) = u[x] + Bounded(u, T \ {x})
<1> DEFINE U == T \ {x}
           at(V, i) == IF i \in V THEN u[i] ELSE 0
<1>1. \A i \in Sevens : u[i] \in Int
  OBVIOUS
<1>2. \A i \in Sevens : at(T, i) \in Int /\ at(U, i) \in Int
  BY <1>1
<1>3. \A i \in Sevens : i # x => at(T, i) = at(U, i)
  OBVIOUS
<1>4. at(T, x) = u[x] /\ at(U, x) = 0
  OBVIOUS
<1>5. \A V : Bounded(u, V) = at(V, 1) + at(V, 2) + at(V, 3) + at(V, 4) + at(V, 5) + at(V, 6) + at(V, 7)
  BY DEF Bounded
<1> HIDE DEF U, at
<1>6. 1 \in Sevens /\ 2 \in Sevens /\ 3 \in Sevens /\ 4 \in Sevens /\ 5 \in Sevens /\ 6 \in Sevens /\ 7 \in Sevens
  BY DEF Sevens
<1>7. PICK a1 \in Int, a2 \in Int, a3 \in Int, a4 \in Int, a5 \in Int, a6 \in Int, a7 \in Int :
          a1 = at(T, 1) /\ a2 = at(T, 2) /\ a3 = at(T, 3) /\ a4 = at(T, 4) /\ a5 = at(T, 5) /\ a6 = at(T, 6) /\ a7 = at(T, 7)
  BY <1>2, <1>6
<1>8. PICK b1 \in Int, b2 \in Int, b3 \in Int, b4 \in Int, b5 \in Int, b6 \in Int, b7 \in Int :
          b1 = at(U, 1) /\ b2 = at(U, 2) /\ b3 = at(U, 3) /\ b4 = at(U, 4) /\ b5 = at(U, 5) /\ b6 = at(U, 6) /\ b7 = at(U, 7)
  BY <1>2, <1>6
<1>9. PICK w \in Int : w = u[x]
  BY <1>1
<1>10. Bounded(u, T) = a1 + a2 + a3 + a4 + a5 + a6 + a7 /\ Bounded(u, U) = b1 + b2 + b3 + b4 + b5 + b6 + b7
  BY <1>5, <1>7, <1>8, Zenon
<1>11. a1 + a2 + a3 + a4 + a5 + a6 + a7 = w + (b1 + b2 + b3 + b4 + b5 + b6 + b7)
  <2>1. CASE x = 1
    <3>1. a1 = w /\ b1 = 0 /\ a2 = b2 /\ a3 = b3 /\ a4 = b4 /\ a5 = b5 /\ a6 = b6 /\ a7 = b7
      BY <1>3, <1>4, <1>6, <1>7, <1>8, <1>9, <2>1
    <3> QED
      BY <3>1
  <2>2. CASE x = 2
    <3>1. a2 = w /\ b2 = 0 /\ a1 = b1 /\ a3 = b3 /\ a4 = b4 /\ a5 = b5 /\ a6 = b6 /\ a7 = b7
      BY <1>3, <1>4, <1>6, <1>7, <1>8, <1>9, <2>2
    <3> QED
      BY <3>1
  <2>3. CASE x = 3
    <3>1. a3 = w /\ b3 = 0 /\ a1 = b1 /\ a2 = b2 /\ a4 = b4 /\ a5 = b5 /\ a6 = b6 /\ a7 = b7
      BY <1>3, <1>4, <1>6, <1>7, <1>8, <1>9, <2>3
    <3> QED
      BY <3>1
  <2>4. CASE x = 4
    <3>1. a4 = w /\ b4 = 0 /\ a1 = b1 /\ a2 = b2 /\ a3 = b3 /\ a5 = b5 /\ a6 = b6 /\ a7 = b7
      BY <1>3, <1>4, <1>6, <1>7, <1>8, <1>9, <2>4
    <3> QED
      BY <3>1
  <2>5. CASE x = 5
    <3>1. a5 = w /\ b5 = 0 /\ a1 = b1 /\ a2 = b2 /\ a3 = b3 /\ a4 = b4 /\ a6 = b6 /\ a7 = b7
      BY <1>3, <1>4, <1>6, <1>7, <1>8, <1>9, <2>5
    <3> QED
      BY <3>1
  <2>6. CASE x = 6
    <3>1. a6 = w /\ b6 = 0 /\ a1 = b1 /\ a2 = b2 /\ a3 = b3 /\ a4 = b4 /\ a5 = b5 /\ a7 = b7
      BY <1>3, <1>4, <1>6, <1>7, <1>8, <1>9, <2>6
    <3> QED
      BY <3>1
  <2>7. CASE x = 7
    <3>1. a7 = w /\ b7 = 0 /\ a1 = b1 /\ a2 = b2 /\ a3 = b3 /\ a4 = b4 /\ a5 = b5 /\ a6 = b6
      BY <1>3, <1>4, <1>6, <1>7, <1>8, <1>9, <2>7
    <3> QED
      BY <3>1
  <2>8. x = 1 \/ x = 2 \/ x = 3 \/ x = 4 \/ x = 5 \/ x = 6 \/ x = 7
    BY DEF Sevens
  <2> QED
    BY <2>1, <2>2, <2>3, <2>4, <2>5, <2>6, <2>7, <2>8
<1>12. a1 + a2 + a3 + a4 + a5 + a6 + a7 \in Int /\ b1 + b2 + b3 + b4 + b5 + b6 + b7 \in Int
  OBVIOUS
<1>13. Bounded(u, T) \in Int /\ Bounded(u, U) \in Int /\ Bounded(u, T) = u[x] + Bounded(u, U)
  BY <1>9, <1>10, <1>11, <1>12, Zenon
<1> QED
  BY <1>13 DEF U

LEMMA SumBounded ==
    ASSUME NEW S \in SUBSET Sevens, IsFiniteSet(S), NEW u \in [Sevens -> Int], NEW f, NEW g, Sums(g, f, S),
           \A x \in S : f[x] \in Int /\ f[x] <= u[x]
    PROVE  g[S] <= Bounded(u, S)
<1> DEFINE G == {T \in SUBSET S : g[T] <= Bounded(u, T)}
<1>1. \A T \in SUBSET S : g[T] \in Int
  BY DEF Sums
<1>2. \A T \in SUBSET S : T \in G
  <2>1. ASSUME NEW T \in SUBSET S, \A x \in T : T \ {x} \in G PROVE T \in G
    <3>1. CASE T = {}
      <4>1. g[T] = 0
        BY <3>1 DEF Sums
      <4>2. Bounded(u, T) = 0
        BY <3>1 DEF Bounded
      <4> QED
        BY <4>1, <4>2
    <3>2. CASE T # {}
      <4>1. PICK x \in T : g[T] = f[x] + g[T \ {x}]
        BY <3>2 DEF Sums
      <4>2. T \ {x} \in SUBSET S /\ T \ {x} \in G /\ x \in S /\ x \in Sevens
        BY <2>1, <4>1
      <4>3. /\ Bounded(u, T) \in Int /\ Bounded(u, T \ {x}) \in Int
            /\ Bounded(u, T) = u[x] + Bounded(u, T \ {x})
        BY <4>2, BoundedLess
      <4>4. f[x] \in Int /\ f[x] <= u[x] /\ u[x] \in Int /\ g[T \ {x}] \in Int
        BY <1>1, <4>2
      <4>5. PICK v \in Int, y \in Int, w \in Int, z \in Int, t \in Int, s \in Int :
                /\ v = f[x] /\ y = u[x] /\ w = g[T \ {x}] /\ z = Bounded(u, T \ {x})
                /\ t = Bounded(u, T) /\ s = g[T]
        BY <1>1, <4>3, <4>4
      <4>6. w <= z
        BY <4>2, <4>5
      <4>7. s <= t
        BY <4>1, <4>3, <4>4, <4>5, <4>6
      <4> QED
        BY <4>5, <4>7
    <3> QED
      BY <3>1, <3>2
  <2> HIDE DEF G
  <2> QED
    BY <2>1, SizeInduction
<1> QED
  BY <1>2

(* The marks that the constraints of the planner and of the policy carry.    *)
Mild == {{}, {"tools"}, {"models"}, {"workflow"}, {"unsure"}, {"reflection", "workflow"}}

(* Such a constraint is violated with at most 0.48.                          *)
LEMMA ViolationIs ==
    ASSUME NEW marks \in Mild, NEW action, NEW confidence, confidence \in 0 .. One
    PROVE  violation_probability(marks, action, confidence) \in 0 .. 480
<1>1. PICK c \in Int : c = confidence /\ 0 <= c /\ c <= 1000
  <2>1. confidence \in Int /\ 0 <= confidence /\ confidence <= 1000
    BY Scorings
  <2> QED
    BY <2>1
<1>2. PICK s \in Int : s = Percent(30, One - c) /\ 0 <= s /\ s <= 300
  BY <1>1 DEF Percent, One
<1>3. PICK t \in Int : t = (IF "tools" \notin marks THEN 0
                            ELSE IF action \in {"review_state", "request_reflection"} THEN 50 ELSE 400)
                       /\ 0 <= t /\ t <= 400 /\ ("tools" \notin marks => t = 0)
  OBVIOUS
<1>4. PICK m \in Int : m = (IF "models" \in marks THEN 50 ELSE 0)
  OBVIOUS
<1>5. PICK n \in Int : n = (IF "unsure" \in marks THEN s ELSE 0)
  OBVIOUS
<1>6. PICK r \in Int : r = (IF "reflection" \in marks /\ action # "request_reflection" THEN 150 ELSE 0)
                       /\ 0 <= r /\ r <= 150 /\ ("reflection" \notin marks => r = 0)
  OBVIOUS
<1>7. PICK w \in Int : w = (IF "workflow" \in marks THEN 40 ELSE 0)
  OBVIOUS
<1>8. PICK x \in Int : x = 80 + t + m + n + r + w
  OBVIOUS
<1>9. violation_probability(marks, action, confidence) = Within(x)
  BY <1>1, <1>2, <1>3, <1>4, <1>5, <1>6, <1>7, <1>8 DEF violation_probability
<1>10. 0 <= x /\ x <= 480
  <2>1. CASE marks = {}
    BY <1>3, <1>4, <1>5, <1>6, <1>7, <1>8, <2>1
  <2>2. CASE marks = {"tools"}
    BY <1>3, <1>4, <1>5, <1>6, <1>7, <1>8, <2>2
  <2>3. CASE marks = {"models"}
    BY <1>3, <1>4, <1>5, <1>6, <1>7, <1>8, <2>3
  <2>4. CASE marks = {"workflow"}
    BY <1>3, <1>4, <1>5, <1>6, <1>7, <1>8, <2>4
  <2>5. CASE marks = {"unsure"}
    BY <1>2, <1>3, <1>4, <1>5, <1>6, <1>7, <1>8, <2>5
  <2>6. CASE marks = {"reflection", "workflow"}
    BY <1>3, <1>4, <1>5, <1>6, <1>7, <1>8, <2>6
  <2> QED
    BY <2>1, <2>2, <2>3, <2>4, <2>5, <2>6 DEF Mild
<1>11. Within(x) = x
  BY <1>10, Clamps
<1> QED
  BY <1>9, <1>10, <1>11

(* So it adds at most 0.384 to the risk of an action.                        *)
LEMMA ContributionIs ==
    ASSUME NEW marks \in Mild, NEW action, NEW confidence, confidence \in 0 .. One
    PROVE  risk_contribution(marks, action, confidence) \in 0 .. 384
<1>1. violation_probability(marks, action, confidence) \in 0 .. 480
  BY ViolationIs
<1>2. PICK v \in 0 .. 480 : v = violation_probability(marks, action, confidence)
  BY <1>1, Zenon
<1>3. (v * 800) \div 1000 \in 0 .. 384
  OBVIOUS
<1> QED
  BY <1>2, <1>3 DEF risk_contribution, Scaled, Severity, One

LEMMA ConstraintRiskIs ==
    ASSUME NEW pool, NEW n \in Nat, n # 0, DOMAIN pool = 1 .. n, \A i \in 1 .. n : pool[i].marks \in Mild,
           NEW action, NEW confidence, confidence \in 0 .. One
    PROVE  ConstraintRisk(action, confidence, pool) \in 0 .. 384
<1> DEFINE S == {risk_contribution(pool[i].marks, action, confidence) : i \in DOMAIN pool}
<1>1. S \subseteq 0 .. 384
  <2>1. ASSUME NEW i \in 1 .. n PROVE risk_contribution(pool[i].marks, action, confidence) \in 0 .. 384
    <3>1. PICK marks \in Mild : marks = pool[i].marks
      OBVIOUS
    <3>2. risk_contribution(marks, action, confidence) \in 0 .. 384
      BY ContributionIs
    <3> QED
      BY <3>1, <3>2, Zenon
  <2>2. S = {risk_contribution(pool[i].marks, action, confidence) : i \in 1 .. n}
    BY Zenon
  <2> HIDE DEF S
  <2> QED
    BY <2>1, <2>2, ZenonT(60)
<1>2. S # {}
  <2>1. 1 \in DOMAIN pool
    OBVIOUS
  <2> QED
    BY <2>1
<1>3. ConstraintRisk(action, confidence, pool) = Max(S)
  BY DEF ConstraintRisk
<1> HIDE DEF S
<1>4. PICK lo \in Int, hi \in Int : lo = 0 /\ hi = 384
  OBVIOUS
<1>5. S \in SUBSET (lo .. hi)
  BY <1>1, <1>4
<1>6. Max(S) \in S
  BY <1>2, <1>5, Largest
<1> QED
  BY <1>1, <1>3, <1>6

(* The actions the rules know.                                               *)
Acts == DOMAIN SymbolicRules

(* What an action of a plan adds to the risk at most.                        *)
LEMMA ActionRiskIs ==
    ASSUME NEW pool, NEW n \in Nat, n # 0, DOMAIN pool = 1 .. n, Len(pool) = n,
           \A i \in 1 .. n : pool[i].marks \in Mild,
           NEW action \in Acts, NEW confidence, confidence \in 0 .. One, NEW tool \in BOOLEAN
    PROVE  /\ ActionRisk(action, confidence, pool, tool) \in Int
           /\ 0 <= ActionRisk(action, confidence, pool, tool)
           /\ ActionRisk(action, confidence, pool, tool) <= SymbolicRules[action].risk + 700
<1>1. PICK c \in Int : c = confidence /\ 0 <= c /\ c <= 1000
  <2>1. confidence \in Int /\ 0 <= confidence /\ confidence <= 1000
    BY Scorings
  <2> QED
    BY <2>1
<1>2. PICK s \in Int : s = Percent(20, One - c) /\ 0 <= s /\ s <= 200
  BY <1>1 DEF Percent, One
<1>3. PICK b \in Int : b = SymbolicRules[action].risk /\ 30 <= b /\ b <= 180
  BY DEF SymbolicRules, Acts
<1>4. PICK m \in Int : m = 25 * n /\ 0 <= m
  OBVIOUS
<1>5. PICK k \in Int : k = Min({250, m}) /\ k <= 250 /\ 0 <= k
  <2>1. PICK o \in Int : o = 250
    OBVIOUS
  <2>2. Min({o, m}) = IF o <= m THEN o ELSE m
    BY Extremes
  <2> QED
    BY <1>4, <2>1, <2>2
<1>6. PICK t \in Int : t = (IF tool THEN 250 ELSE 0) /\ 0 <= t /\ t <= 250
  OBVIOUS
<1>7. PICK x \in Int : x = b + s + k + t
  OBVIOUS
<1>b. 0 <= s /\ s <= 200 /\ 30 <= b /\ b <= 180 /\ 0 <= k /\ k <= 250 /\ 0 <= t /\ t <= 250
  BY <1>2, <1>3, <1>5, <1>6, Zenon
<1>8. risk_for(action, confidence, pool, tool) = Within(x)
  BY <1>1, <1>2, <1>3, <1>4, <1>5, <1>6, <1>7 DEF risk_for
<1>9. PICK y \in Int : y = Within(x) /\ 0 <= y /\ y <= x
  <2>1. 0 <= x
    BY <1>b, <1>7
  <2>2. Within(x) = IF x < 0 THEN 0 ELSE IF x > 1000 THEN 1000 ELSE x
    BY Clamps
  <2> QED
    BY <2>1, <2>2
<1>10. PICK z \in Int : z = ConstraintRisk(action, confidence, pool) /\ 0 <= z /\ z <= 384
  <2>1. ConstraintRisk(action, confidence, pool) \in 0 .. 384
    BY ConstraintRiskIs
  <2>2. \A v \in 0 .. 384 : v \in Int /\ 0 <= v /\ v <= 384
    OBVIOUS
  <2> QED
    BY <2>1, <2>2, Zenon
<1>11. Max({y, z}) = IF y >= z THEN y ELSE z
  BY Extremes
<1>12. ActionRisk(action, confidence, pool, tool) = Max({y, z})
  BY <1>8, <1>9, <1>10 DEF ActionRisk
<1>c. 0 <= y /\ y <= x /\ 0 <= z /\ z <= 384
  BY <1>9, <1>10, Zenon
<1>13. 0 <= (IF y >= z THEN y ELSE z) /\ (IF y >= z THEN y ELSE z) <= b + 700
  BY <1>b, <1>c, <1>7
<1> QED
  BY <1>3, <1>11, <1>12, <1>13

(* A sequence that begins as one and goes on as another is their concatenation. *)
LEMMA Spliced ==
    ASSUME NEW S, NEW s \in Seq(S), NEW t \in Seq(S), NEW r \in Seq(S), Len(r) = Len(s) + Len(t),
           \A i \in 1 .. Len(s) : r[i] = s[i], \A j \in 1 .. Len(t) : r[Len(s) + j] = t[j]
    PROVE  s \o t = r
<1>1. s \o t \in Seq(S) /\ Len(s \o t) = Len(r)
  BY ConcatProperties
<1>2. ASSUME NEW i \in 1 .. Len(r) PROVE (s \o t)[i] = r[i]
  <2>1. (s \o t)[i] = IF i <= Len(s) THEN s[i] ELSE t[i - Len(s)]
    BY ConcatProperties
  <2>2. Len(s) \in Nat /\ Len(t) \in Nat /\ i \in Nat
    BY LenProperties
  <2>3. CASE i <= Len(s)
    <3>1. i \in 1 .. Len(s)
      BY <2>2, <2>3
    <3> QED
      BY <2>1, <2>3, <3>1
  <2>4. CASE ~(i <= Len(s))
    <3>1. i - Len(s) \in 1 .. Len(t) /\ Len(s) + (i - Len(s)) = i
      BY <2>2, <2>4
    <3>2. r[Len(s) + (i - Len(s))] = t[i - Len(s)]
      BY <3>1
    <3> QED
      BY <2>1, <2>4, <3>1, <3>2
  <2> QED
    BY <2>3, <2>4
<1> QED
  BY <1>1, <1>2, SeqEqual

LEMMA Tuples1And2 ==
    ASSUME NEW S, NEW a \in S, NEW b \in S, NEW c \in S
    PROVE  <<a>> \o <<b, c>> = <<a, b, c>>
<1> DEFINE s == <<a>>
           t == <<b, c>>
           r == <<a, b, c>>
<1>1. s \in Seq(S) /\ t \in Seq(S) /\ r \in Seq(S) /\ Len(s) = 1 /\ Len(t) = 2 /\ Len(r) = 3
  OBVIOUS
<1>2. (\A i \in 1 .. 1 : r[i] = s[i]) /\ (\A j \in 1 .. 2 : r[1 + j] = t[j])
  OBVIOUS
<1> HIDE DEF s, t, r
<1>3. /\ Len(r) = Len(s) + Len(t)
      /\ (\A i \in 1 .. Len(s) : r[i] = s[i]) /\ (\A j \in 1 .. Len(t) : r[Len(s) + j] = t[j])
  BY <1>1, <1>2
<1>4. s \o t = r
  BY <1>1, <1>3, Spliced
<1> QED
  BY <1>4, Zenon DEF s, t, r

LEMMA Tuples2And1 ==
    ASSUME NEW S, NEW a \in S, NEW b \in S, NEW c \in S
    PROVE  <<a, b>> \o <<c>> = <<a, b, c>>
<1> DEFINE s == <<a, b>>
           t == <<c>>
           r == <<a, b, c>>
<1>1. s \in Seq(S) /\ t \in Seq(S) /\ r \in Seq(S) /\ Len(s) = 2 /\ Len(t) = 1 /\ Len(r) = 3
  OBVIOUS
<1>2. (\A i \in 1 .. 2 : r[i] = s[i]) /\ (\A j \in 1 .. 1 : r[2 + j] = t[j])
  OBVIOUS
<1> HIDE DEF s, t, r
<1>3. /\ Len(r) = Len(s) + Len(t)
      /\ (\A i \in 1 .. Len(s) : r[i] = s[i]) /\ (\A j \in 1 .. Len(t) : r[Len(s) + j] = t[j])
  BY <1>1, <1>2
<1>4. s \o t = r
  BY <1>1, <1>3, Spliced
<1> QED
  BY <1>4, Zenon DEF s, t, r

LEMMA Tuples3And1 ==
    ASSUME NEW S, NEW a \in S, NEW b \in S, NEW c \in S, NEW d \in S
    PROVE  <<a, b, c>> \o <<d>> = <<a, b, c, d>>
<1> DEFINE s == <<a, b, c>>
           t == <<d>>
           r == <<a, b, c, d>>
<1>1. s \in Seq(S) /\ t \in Seq(S) /\ r \in Seq(S) /\ Len(s) = 3 /\ Len(t) = 1 /\ Len(r) = 4
  OBVIOUS
<1>2. (\A i \in 1 .. 3 : r[i] = s[i]) /\ (\A j \in 1 .. 1 : r[3 + j] = t[j])
  OBVIOUS
<1> HIDE DEF s, t, r
<1>3. /\ Len(r) = Len(s) + Len(t)
      /\ (\A i \in 1 .. Len(s) : r[i] = s[i]) /\ (\A j \in 1 .. Len(t) : r[Len(s) + j] = t[j])
  BY <1>1, <1>2
<1>4. s \o t = r
  BY <1>1, <1>3, Spliced
<1> QED
  BY <1>4, Zenon DEF s, t, r

LEMMA Tuples4And1 ==
    ASSUME NEW S, NEW a \in S, NEW b \in S, NEW c \in S, NEW d \in S, NEW e \in S
    PROVE  <<a, b, c, d>> \o <<e>> = <<a, b, c, d, e>>
<1> DEFINE s == <<a, b, c, d>>
           t == <<e>>
           r == <<a, b, c, d, e>>
<1>1. s \in Seq(S) /\ t \in Seq(S) /\ r \in Seq(S) /\ Len(s) = 4 /\ Len(t) = 1 /\ Len(r) = 5
  OBVIOUS
<1>2. (\A i \in 1 .. 4 : r[i] = s[i]) /\ (\A j \in 1 .. 1 : r[4 + j] = t[j])
  OBVIOUS
<1> HIDE DEF s, t, r
<1>3. /\ Len(r) = Len(s) + Len(t)
      /\ (\A i \in 1 .. Len(s) : r[i] = s[i]) /\ (\A j \in 1 .. Len(t) : r[Len(s) + j] = t[j])
  BY <1>1, <1>2
<1>4. s \o t = r
  BY <1>1, <1>3, Spliced
<1> QED
  BY <1>4, Zenon DEF s, t, r

LEMMA Tuples3And2 ==
    ASSUME NEW S, NEW a \in S, NEW b \in S, NEW c \in S, NEW d \in S, NEW e \in S
    PROVE  <<a, b, c>> \o <<d, e>> = <<a, b, c, d, e>>
<1> DEFINE s == <<a, b, c>>
           t == <<d, e>>
           r == <<a, b, c, d, e>>
<1>1. s \in Seq(S) /\ t \in Seq(S) /\ r \in Seq(S) /\ Len(s) = 3 /\ Len(t) = 2 /\ Len(r) = 5
  OBVIOUS
<1>2. (\A i \in 1 .. 3 : r[i] = s[i]) /\ (\A j \in 1 .. 2 : r[3 + j] = t[j])
  OBVIOUS
<1> HIDE DEF s, t, r
<1>3. /\ Len(r) = Len(s) + Len(t)
      /\ (\A i \in 1 .. Len(s) : r[i] = s[i]) /\ (\A j \in 1 .. Len(t) : r[Len(s) + j] = t[j])
  BY <1>1, <1>2
<1>4. s \o t = r
  BY <1>1, <1>3, Spliced
<1> QED
  BY <1>4, Zenon DEF s, t, r

LEMMA Tuples4And2 ==
    ASSUME NEW S, NEW a \in S, NEW b \in S, NEW c \in S, NEW d \in S, NEW e \in S, NEW f \in S
    PROVE  <<a, b, c, d>> \o <<e, f>> = <<a, b, c, d, e, f>>
<1> DEFINE s == <<a, b, c, d>>
           t == <<e, f>>
           r == <<a, b, c, d, e, f>>
<1>1. s \in Seq(S) /\ t \in Seq(S) /\ r \in Seq(S) /\ Len(s) = 4 /\ Len(t) = 2 /\ Len(r) = 6
  OBVIOUS
<1>2. (\A i \in 1 .. 4 : r[i] = s[i]) /\ (\A j \in 1 .. 2 : r[4 + j] = t[j])
  OBVIOUS
<1> HIDE DEF s, t, r
<1>3. /\ Len(r) = Len(s) + Len(t)
      /\ (\A i \in 1 .. Len(s) : r[i] = s[i]) /\ (\A j \in 1 .. Len(t) : r[Len(s) + j] = t[j])
  BY <1>1, <1>2
<1>4. s \o t = r
  BY <1>1, <1>3, Spliced
<1> QED
  BY <1>4, Zenon DEF s, t, r

LEMMA Tuples5And2 ==
    ASSUME NEW S, NEW a \in S, NEW b \in S, NEW c \in S, NEW d \in S, NEW e \in S, NEW f \in S, NEW g \in S
    PROVE  <<a, b, c, d, e>> \o <<f, g>> = <<a, b, c, d, e, f, g>>
<1> DEFINE s == <<a, b, c, d, e>>
           t == <<f, g>>
           r == <<a, b, c, d, e, f, g>>
<1>1. s \in Seq(S) /\ t \in Seq(S) /\ r \in Seq(S) /\ Len(s) = 5 /\ Len(t) = 2 /\ Len(r) = 7
  OBVIOUS
<1>2. (\A i \in 1 .. 5 : r[i] = s[i]) /\ (\A j \in 1 .. 2 : r[5 + j] = t[j])
  OBVIOUS
<1> HIDE DEF s, t, r
<1>3. /\ Len(r) = Len(s) + Len(t)
      /\ (\A i \in 1 .. Len(s) : r[i] = s[i]) /\ (\A j \in 1 .. Len(t) : r[Len(s) + j] = t[j])
  BY <1>1, <1>2
<1>4. s \o t = r
  BY <1>1, <1>3, Spliced
<1> QED
  BY <1>4, Zenon DEF s, t, r

(* The lists of actions a planner makes, knowing the affective priors.       *)
Third == {"integrate_memory", "resolve_uncertainty"}

Listed(b, d, u, r, x, p, q, t, a) ==
    \/ b \o <<r, x>> \o <<p>> \o d \o <<t, a>> = <<r, x, p, t, a>>
    \/ b \o <<r, x>> \o <<p>> \o d \o <<t, a>> = <<r, x, p, q, t, a>>
    \/ b \o <<r, x>> \o <<p>> \o d \o <<t, a>> = <<u, r, x, p, t, a>>
    \/ b \o <<r, x>> \o <<p>> \o d \o <<t, a>> = <<u, r, x, p, q, t, a>>

LEMMA ListsAre ==
    ASSUME NEW S, NEW u \in S, NEW r \in S, NEW x \in S, NEW p \in S, NEW q \in S, NEW t \in S, NEW a \in S,
           NEW b, b = <<>> \/ b = <<u>>, NEW d, d = <<>> \/ d = <<q>>
    PROVE  Listed(b, d, u, r, x, p, q, t, a)
<1>e. <<r, x>> \in Seq(S) /\ <<r, x, p>> \in Seq(S) /\ <<u, r, x, p>> \in Seq(S)
  OBVIOUS
<1>1. <<>> \o <<r, x>> = <<r, x>>
  BY <1>e, ConcatEmptySeq, Zenon
<1>2. <<u>> \o <<r, x>> = <<u, r, x>>
  BY Tuples1And2
<1>3. <<r, x>> \o <<p>> = <<r, x, p>>
  BY Tuples2And1
<1>4. <<u, r, x>> \o <<p>> = <<u, r, x, p>>
  BY Tuples3And1
<1>5. <<r, x, p>> \o <<>> = <<r, x, p>>
  BY <1>e, ConcatEmptySeq, Zenon
<1>6. <<u, r, x, p>> \o <<>> = <<u, r, x, p>>
  BY <1>e, ConcatEmptySeq, Zenon
<1>7. <<r, x, p>> \o <<q>> = <<r, x, p, q>>
  BY Tuples3And1
<1>8. <<u, r, x, p>> \o <<q>> = <<u, r, x, p, q>>
  BY Tuples4And1
<1>9. <<r, x, p>> \o <<t, a>> = <<r, x, p, t, a>>
  BY Tuples3And2
<1>10. <<u, r, x, p>> \o <<t, a>> = <<u, r, x, p, t, a>>
  BY Tuples4And2
<1>11. <<r, x, p, q>> \o <<t, a>> = <<r, x, p, q, t, a>>
  BY Tuples4And2
<1>12. <<u, r, x, p, q>> \o <<t, a>> = <<u, r, x, p, q, t, a>>
  BY Tuples5And2
<1> QED
  BY <1>1, <1>2, <1>3, <1>4, <1>5, <1>6, <1>7, <1>8, <1>9, <1>10, <1>11, <1>12, Zenon DEF Listed

LEMMA ActionsAre ==
    ASSUME NEW ctx, ctx.priors = TRUE, NEW reason
    PROVE  \E x \in Third :
               \/ Actions(ctx, reason) = <<"review_state", x, "apply_affective_priors", "plan_state_transition",
                                          "prepare_response">>
               \/ Actions(ctx, reason) = <<"review_state", x, "apply_affective_priors", "request_reflection",
                                          "plan_state_transition", "prepare_response">>
               \/ Actions(ctx, reason) = <<"resolve_uncertainty", "review_state", x, "apply_affective_priors",
                                          "plan_state_transition", "prepare_response">>
               \/ Actions(ctx, reason) = <<"resolve_uncertainty", "review_state", x, "apply_affective_priors",
                                          "request_reflection", "plan_state_transition", "prepare_response">>
<1>1. PICK u, r, p, q, t, a :
          /\ u = "resolve_uncertainty" /\ r = "review_state" /\ p = "apply_affective_priors"
          /\ q = "request_reflection" /\ t = "plan_state_transition" /\ a = "prepare_response"
  OBVIOUS
<1>2. PICK x \in Third : x = IF ctx.memories > 0 THEN "integrate_memory" ELSE "resolve_uncertainty"
  BY DEF Third
<1> DEFINE A == {u, r, x, p, q, t, a}
<1>3. u \in A /\ r \in A /\ x \in A /\ p \in A /\ q \in A /\ t \in A /\ a \in A
  OBVIOUS
<1> HIDE DEF A
<1> DEFINE b == When(reason # "none", "resolve_uncertainty")
           d == When(NeedsReflection(ctx), "request_reflection")
<1>4. When(TRUE, "apply_affective_priors") = <<p>>
  BY <1>1 DEF When
<1>5. b = <<>> \/ b = <<u>>
  BY <1>1 DEF When
<1>6. d = <<>> \/ d = <<q>>
  BY <1>1 DEF When
<1>7. Actions(ctx, reason) = b \o <<"review_state", x>> \o When(TRUE, "apply_affective_priors") \o d
          \o <<"plan_state_transition", "prepare_response">>
  BY <1>2 DEF Actions
<1> HIDE DEF b, d
<1>8. Actions(ctx, reason) = b \o <<r, x>> \o <<p>> \o d \o <<t, a>>
  BY <1>1, <1>4, <1>7, Zenon
<1>9. \/ Actions(ctx, reason) = <<r, x, p, t, a>>
      \/ Actions(ctx, reason) = <<r, x, p, q, t, a>>
      \/ Actions(ctx, reason) = <<u, r, x, p, t, a>>
      \/ Actions(ctx, reason) = <<u, r, x, p, q, t, a>>
  <2>1. Listed(b, d, u, r, x, p, q, t, a)
    BY <1>3, <1>5, <1>6, ListsAre, Zenon
  <2> QED
    BY <1>8, <2>1, Zenon DEF Listed
<1>10. /\ <<r, x, p, t, a>> = <<"review_state", x, "apply_affective_priors", "plan_state_transition",
                                "prepare_response">>
       /\ <<r, x, p, q, t, a>> = <<"review_state", x, "apply_affective_priors", "request_reflection",
                                   "plan_state_transition", "prepare_response">>
       /\ <<u, r, x, p, t, a>> = <<"resolve_uncertainty", "review_state", x, "apply_affective_priors",
                                   "plan_state_transition", "prepare_response">>
       /\ <<u, r, x, p, q, t, a>> = <<"resolve_uncertainty", "review_state", x, "apply_affective_priors",
                                      "request_reflection", "plan_state_transition", "prepare_response">>
  BY <1>1
<1> QED
  BY <1>9, <1>10, Zenon

(* The risk of an action by the rules, with everything else at its worst.    *)
Worst(actions) == [i \in Sevens |-> IF i \in DOMAIN actions THEN SymbolicRules[actions[i]].risk + 700 ELSE 0]

(* Actions whose risks add up to few enough.                                 *)
Fit(actions, n) ==
    /\ n \in 5 .. 7 /\ DOMAIN actions = 1 .. n
    /\ \A i \in 1 .. n : actions[i] \in Acts
    /\ Bounded(Worst(actions), 1 .. n) <= 825 * n

LEMMA RuleRisks ==
    /\ SymbolicRules["review_state"].risk = 30 /\ SymbolicRules["integrate_memory"].risk = 120
    /\ SymbolicRules["apply_affective_priors"].risk = 80 /\ SymbolicRules["resolve_uncertainty"].risk = 160
    /\ SymbolicRules["request_reflection"].risk = 100 /\ SymbolicRules["plan_state_transition"].risk = 140
    /\ SymbolicRules["prepare_response"].risk = 180
    /\ Acts = {"review_state", "integrate_memory", "apply_affective_priors", "resolve_uncertainty",
               "request_reflection", "plan_state_transition", "prepare_response"}
BY DEF SymbolicRules, Acts

LEMMA FitsFive ==
    ASSUME NEW x \in Third, NEW actions,
           actions = <<"review_state", x, "apply_affective_priors", "plan_state_transition", "prepare_response">>
    PROVE  Fit(actions, 5)
<1>1. DOMAIN actions = 1 .. 5 /\ actions[1] = "review_state" /\ actions[2] = x /\ actions[3] = "apply_affective_priors" /\ actions[4] = "plan_state_transition" /\ actions[5] = "prepare_response"
  OBVIOUS
<1>2. x \in Acts /\ (SymbolicRules[x].risk = 120 \/ SymbolicRules[x].risk = 160)
  BY RuleRisks DEF Third
<1>3. PICK w \in Int : w = SymbolicRules[x].risk + 700 /\ w <= 860
  BY <1>2
<1> DEFINE u == Worst(actions)
<1>4. u[1] = 730 /\ u[2] = w /\ u[3] = 780 /\ u[4] = 840 /\ u[5] = 880
  <2>1. \A i \in 1 .. 5 : i \in Sevens /\ u[i] = SymbolicRules[actions[i]].risk + 700
    BY <1>1 DEF Worst, Sevens
  <2>2. 1 \in 1 .. 5 /\ 2 \in 1 .. 5 /\ 3 \in 1 .. 5 /\ 4 \in 1 .. 5 /\ 5 \in 1 .. 5
    OBVIOUS
  <2> HIDE DEF u
  <2> QED
    BY <1>1, <1>3, <2>1, <2>2, RuleRisks
<1> HIDE DEF u
<1>5. 1 \in 1 .. 5 /\ 2 \in 1 .. 5 /\ 3 \in 1 .. 5 /\ 4 \in 1 .. 5 /\ 5 \in 1 .. 5 /\ 6 \notin 1 .. 5 /\ 7 \notin 1 .. 5
  OBVIOUS
<1>6. Bounded(u, 1 .. 5) = 730 + w + 780 + 840 + 880 + 0 + 0
  BY <1>4, <1>5 DEF Bounded
<1>7. Bounded(u, 1 .. 5) <= 825 * 5
  BY <1>3, <1>6
<1>8. \A i \in 1 .. 5 : actions[i] \in Acts
  <2>1. \A i \in 1 .. 5 : i = 1 \/ i = 2 \/ i = 3 \/ i = 4 \/ i = 5
    OBVIOUS
  <2> QED
    BY <1>1, <1>2, <2>1, RuleRisks
<1> QED
  BY <1>1, <1>7, <1>8 DEF Fit, u

LEMMA FitsReflected ==
    ASSUME NEW x \in Third, NEW actions,
           actions = <<"review_state", x, "apply_affective_priors", "request_reflection", "plan_state_transition", "prepare_response">>
    PROVE  Fit(actions, 6)
<1>1. DOMAIN actions = 1 .. 6 /\ actions[1] = "review_state" /\ actions[2] = x /\ actions[3] = "apply_affective_priors" /\ actions[4] = "request_reflection" /\ actions[5] = "plan_state_transition" /\ actions[6] = "prepare_response"
  OBVIOUS
<1>2. x \in Acts /\ (SymbolicRules[x].risk = 120 \/ SymbolicRules[x].risk = 160)
  BY RuleRisks DEF Third
<1>3. PICK w \in Int : w = SymbolicRules[x].risk + 700 /\ w <= 860
  BY <1>2
<1> DEFINE u == Worst(actions)
<1>4. u[1] = 730 /\ u[2] = w /\ u[3] = 780 /\ u[4] = 800 /\ u[5] = 840 /\ u[6] = 880
  <2>1. \A i \in 1 .. 6 : i \in Sevens /\ u[i] = SymbolicRules[actions[i]].risk + 700
    BY <1>1 DEF Worst, Sevens
  <2>2. 1 \in 1 .. 6 /\ 2 \in 1 .. 6 /\ 3 \in 1 .. 6 /\ 4 \in 1 .. 6 /\ 5 \in 1 .. 6 /\ 6 \in 1 .. 6
    OBVIOUS
  <2> HIDE DEF u
  <2> QED
    BY <1>1, <1>3, <2>1, <2>2, RuleRisks
<1> HIDE DEF u
<1>5. 1 \in 1 .. 6 /\ 2 \in 1 .. 6 /\ 3 \in 1 .. 6 /\ 4 \in 1 .. 6 /\ 5 \in 1 .. 6 /\ 6 \in 1 .. 6 /\ 7 \notin 1 .. 6
  OBVIOUS
<1>6. Bounded(u, 1 .. 6) = 730 + w + 780 + 800 + 840 + 880 + 0
  BY <1>4, <1>5 DEF Bounded
<1>7. Bounded(u, 1 .. 6) <= 825 * 6
  BY <1>3, <1>6
<1>8. \A i \in 1 .. 6 : actions[i] \in Acts
  <2>1. \A i \in 1 .. 6 : i = 1 \/ i = 2 \/ i = 3 \/ i = 4 \/ i = 5 \/ i = 6
    OBVIOUS
  <2> QED
    BY <1>1, <1>2, <2>1, RuleRisks
<1> QED
  BY <1>1, <1>7, <1>8 DEF Fit, u

LEMMA FitsResolved ==
    ASSUME NEW x \in Third, NEW actions,
           actions = <<"resolve_uncertainty", "review_state", x, "apply_affective_priors", "plan_state_transition", "prepare_response">>
    PROVE  Fit(actions, 6)
<1>1. DOMAIN actions = 1 .. 6 /\ actions[1] = "resolve_uncertainty" /\ actions[2] = "review_state" /\ actions[3] = x /\ actions[4] = "apply_affective_priors" /\ actions[5] = "plan_state_transition" /\ actions[6] = "prepare_response"
  OBVIOUS
<1>2. x \in Acts /\ (SymbolicRules[x].risk = 120 \/ SymbolicRules[x].risk = 160)
  BY RuleRisks DEF Third
<1>3. PICK w \in Int : w = SymbolicRules[x].risk + 700 /\ w <= 860
  BY <1>2
<1> DEFINE u == Worst(actions)
<1>4. u[1] = 860 /\ u[2] = 730 /\ u[3] = w /\ u[4] = 780 /\ u[5] = 840 /\ u[6] = 880
  <2>1. \A i \in 1 .. 6 : i \in Sevens /\ u[i] = SymbolicRules[actions[i]].risk + 700
    BY <1>1 DEF Worst, Sevens
  <2>2. 1 \in 1 .. 6 /\ 2 \in 1 .. 6 /\ 3 \in 1 .. 6 /\ 4 \in 1 .. 6 /\ 5 \in 1 .. 6 /\ 6 \in 1 .. 6
    OBVIOUS
  <2> HIDE DEF u
  <2> QED
    BY <1>1, <1>3, <2>1, <2>2, RuleRisks
<1> HIDE DEF u
<1>5. 1 \in 1 .. 6 /\ 2 \in 1 .. 6 /\ 3 \in 1 .. 6 /\ 4 \in 1 .. 6 /\ 5 \in 1 .. 6 /\ 6 \in 1 .. 6 /\ 7 \notin 1 .. 6
  OBVIOUS
<1>6. Bounded(u, 1 .. 6) = 860 + 730 + w + 780 + 840 + 880 + 0
  BY <1>4, <1>5 DEF Bounded
<1>7. Bounded(u, 1 .. 6) <= 825 * 6
  BY <1>3, <1>6
<1>8. \A i \in 1 .. 6 : actions[i] \in Acts
  <2>1. \A i \in 1 .. 6 : i = 1 \/ i = 2 \/ i = 3 \/ i = 4 \/ i = 5 \/ i = 6
    OBVIOUS
  <2> QED
    BY <1>1, <1>2, <2>1, RuleRisks
<1> QED
  BY <1>1, <1>7, <1>8 DEF Fit, u

LEMMA FitsSeven ==
    ASSUME NEW x \in Third, NEW actions,
           actions = <<"resolve_uncertainty", "review_state", x, "apply_affective_priors", "request_reflection", "plan_state_transition", "prepare_response">>
    PROVE  Fit(actions, 7)
<1>1. DOMAIN actions = 1 .. 7 /\ actions[1] = "resolve_uncertainty" /\ actions[2] = "review_state" /\ actions[3] = x /\ actions[4] = "apply_affective_priors" /\ actions[5] = "request_reflection" /\ actions[6] = "plan_state_transition" /\ actions[7] = "prepare_response"
  OBVIOUS
<1>2. x \in Acts /\ (SymbolicRules[x].risk = 120 \/ SymbolicRules[x].risk = 160)
  BY RuleRisks DEF Third
<1>3. PICK w \in Int : w = SymbolicRules[x].risk + 700 /\ w <= 860
  BY <1>2
<1> DEFINE u == Worst(actions)
<1>4. u[1] = 860 /\ u[2] = 730 /\ u[3] = w /\ u[4] = 780 /\ u[5] = 800 /\ u[6] = 840 /\ u[7] = 880
  <2>1. \A i \in 1 .. 7 : i \in Sevens /\ u[i] = SymbolicRules[actions[i]].risk + 700
    BY <1>1 DEF Worst, Sevens
  <2>2. 1 \in 1 .. 7 /\ 2 \in 1 .. 7 /\ 3 \in 1 .. 7 /\ 4 \in 1 .. 7 /\ 5 \in 1 .. 7 /\ 6 \in 1 .. 7 /\ 7 \in 1 .. 7
    OBVIOUS
  <2> HIDE DEF u
  <2> QED
    BY <1>1, <1>3, <2>1, <2>2, RuleRisks
<1> HIDE DEF u
<1>5. 1 \in 1 .. 7 /\ 2 \in 1 .. 7 /\ 3 \in 1 .. 7 /\ 4 \in 1 .. 7 /\ 5 \in 1 .. 7 /\ 6 \in 1 .. 7 /\ 7 \in 1 .. 7
  OBVIOUS
<1>6. Bounded(u, 1 .. 7) = 860 + 730 + w + 780 + 800 + 840 + 880
  BY <1>4, <1>5 DEF Bounded
<1>7. Bounded(u, 1 .. 7) <= 825 * 7
  BY <1>3, <1>6
<1>8. \A i \in 1 .. 7 : actions[i] \in Acts
  <2>1. \A i \in 1 .. 7 : i = 1 \/ i = 2 \/ i = 3 \/ i = 4 \/ i = 5 \/ i = 6 \/ i = 7
    OBVIOUS
  <2> QED
    BY <1>1, <1>2, <2>1, RuleRisks
<1> QED
  BY <1>1, <1>7, <1>8 DEF Fit, u

(* So does every list a planner makes.                                       *)
LEMMA ActionsFit ==
    ASSUME NEW ctx, ctx.priors = TRUE, NEW reason
    PROVE  \E n \in 5 .. 7 : Fit(Actions(ctx, reason), n)
<1>1. 5 \in 5 .. 7 /\ 6 \in 5 .. 7 /\ 7 \in 5 .. 7
  OBVIOUS
<1> QED
  BY <1>1, ActionsAre, FitsFive, FitsReflected, FitsResolved, FitsSeven

(* The mean risk of the actions of a plan, and the risk of the plan.         *)
LEMMA MeanRiskIs ==
    ASSUME NEW actions, NEW n, Fit(actions, n),
           NEW pool, NEW m \in Nat, m # 0, DOMAIN pool = 1 .. m, Len(pool) = m,
           \A i \in 1 .. m : pool[i].marks \in Mild,
           NEW confidence, confidence \in 0 .. One, NEW tool \in BOOLEAN
    PROVE  /\ MeanRisk(actions, confidence, pool, tool) \in Int
           /\ 0 <= MeanRisk(actions, confidence, pool, tool)
           /\ MeanRisk(actions, confidence, pool, tool) <= 825
<1>1. n \in Nat /\ n # 0 /\ DOMAIN actions = 1 .. n /\ 1 .. n \in SUBSET Sevens
      /\ Bounded(Worst(actions), 1 .. n) <= 825 * n
  BY DEF Fit, Sevens
<1>2. IsFiniteSet(1 .. n) /\ Cardinality(1 .. n) = n
  <2>1. 1 \in Nat /\ 1 <= n + 1
    BY <1>1
  <2>2. IsFiniteSet(1 .. n) /\ Cardinality(1 .. n) = n - 1 + 1
    BY <1>1, <2>1, Indices
  <2> QED
    BY <1>1, <2>2
<1> DEFINE u == Worst(actions)
           f == [i \in DOMAIN actions |-> ActionRisk(actions[i], confidence, pool, tool)]
<1>3. ASSUME NEW i \in 1 .. n
      PROVE  /\ f[i] = ActionRisk(actions[i], confidence, pool, tool) /\ f[i] \in Int
             /\ 0 <= f[i] /\ f[i] <= u[i]
  <2>1. actions[i] \in Acts
    BY DEF Fit
  <2>2. f[i] = ActionRisk(actions[i], confidence, pool, tool)
    BY <1>1
  <2>3. u[i] = SymbolicRules[actions[i]].risk + 700
    BY <1>1 DEF Worst
  <2>4. /\ ActionRisk(actions[i], confidence, pool, tool) \in Int
        /\ 0 <= ActionRisk(actions[i], confidence, pool, tool)
        /\ ActionRisk(actions[i], confidence, pool, tool) <= SymbolicRules[actions[i]].risk + 700
    <3> HIDE DEF f, u
    <3>1. PICK action \in Acts : action = actions[i]
      BY <2>1
    <3>2. /\ ActionRisk(action, confidence, pool, tool) \in Int
          /\ 0 <= ActionRisk(action, confidence, pool, tool)
          /\ ActionRisk(action, confidence, pool, tool) <= SymbolicRules[action].risk + 700
      BY ActionRiskIs
    <3> QED
      BY <3>1, <3>2, ZenonT(60)
  <2> HIDE DEF f, u
  <2> QED
    BY <2>2, <2>3, <2>4, ZenonT(60)
<1>4. PICK g : /\ Sums(g, f, DOMAIN actions)
               /\ MeanRisk(actions, confidence, pool, tool) = g[DOMAIN actions] \div Cardinality(DOMAIN actions)
  <2>1. IsFiniteSet(DOMAIN actions) /\ \A i \in DOMAIN actions : ActionRisk(actions[i], confidence, pool, tool) \in Int
    <3> HIDE DEF f, u
    <3> QED
      BY <1>1, <1>2, <1>3
  <2> QED
    BY <2>1, MeanRiskSums, Zenon
<1>5. u \in [Sevens -> Int]
  <2>1. ASSUME NEW i \in Sevens PROVE u[i] \in Int
    <3>1. CASE i \in 1 .. n
      <4>1. actions[i] \in Acts /\ u[i] = SymbolicRules[actions[i]].risk + 700
        BY <1>1, <3>1 DEF Fit, Worst
      <4>2. \A a \in Acts : SymbolicRules[a].risk \in Int
        BY DEF Acts, SymbolicRules
      <4>3. SymbolicRules[actions[i]].risk \in Int
        BY <4>1, <4>2
      <4> QED
        BY <4>1, <4>3
    <3>2. CASE i \notin 1 .. n
      BY <1>1, <3>2 DEF Worst
    <3> QED
      BY <3>1, <3>2
  <2> QED
    BY <2>1 DEF Worst
<1> HIDE DEF u, f
<1>6. g[1 .. n] <= Bounded(u, 1 .. n)
  <2>1. Sums(g, f, 1 .. n)
    BY <1>1, <1>4
  <2> QED
    BY <1>1, <1>2, <1>3, <1>5, <2>1, SumBounded
<1>7. 0 * Cardinality(1 .. n) <= g[1 .. n]
  <2>1. Sums(g, f, 1 .. n)
    BY <1>1, <1>4
  <2>2. PICK hi \in Int : \A i \in 1 .. n : f[i] <= hi
    <3>0. PICK o \in Int : o = 1000
      OBVIOUS
    <3>1. \A i \in 1 .. n : f[i] <= o
      <4> SUFFICES ASSUME NEW i \in 1 .. n PROVE f[i] <= o
        OBVIOUS
      <4>1. actions[i] \in Acts /\ u[i] = SymbolicRules[actions[i]].risk + 700
        BY <1>1 DEF Fit, Worst, u
      <4>2. \A a \in Acts : SymbolicRules[a].risk \in Int /\ SymbolicRules[a].risk <= 180
        BY DEF Acts, SymbolicRules
      <4>3. PICK r \in Int : r = SymbolicRules[actions[i]].risk /\ r <= 180
        BY <4>1, <4>2
      <4>4. PICK x \in Int : x = f[i] /\ x <= u[i]
        BY <1>3
      <4>5. x <= r + 700
        BY <4>1, <4>3, <4>4, Zenon
      <4>6. r <= 180
        BY <4>3, Zenon
      <4>7. x <= o
        BY <3>0, <4>5, <4>6
      <4> QED
        BY <4>4, <4>7, Zenon
    <3> QED
      BY <3>1, Zenon
  <2>3. 0 \in Int
    OBVIOUS
  <2> QED
    BY <1>2, <1>3, <2>1, <2>2, <2>3, SumRange
<1>8. PICK s \in Int, b \in Int : s = g[1 .. n] /\ b = Bounded(u, 1 .. n)
  <2>1. g[1 .. n] \in Int
    BY <1>1, <1>4 DEF Sums
  <2>2. Bounded(u, 1 .. n) \in Int
    <3>1. 1 \in Sevens /\ 1 \in 1 .. n
      BY <1>1 DEF Sevens
    <3> QED
      BY <1>5, <3>1, BoundedLess
  <2> QED
    BY <2>1, <2>2
<1>9. 0 * n <= s /\ s <= 825 * n
  <2>1. 0 * n <= s
    BY <1>2, <1>7, <1>8
  <2>2. s <= b /\ b <= 825 * n
    BY <1>1, <1>6, <1>8 DEF u
  <2>3. 825 * n \in Int
    BY <1>1
  <2> QED
    BY <2>1, <2>2, <2>3
<1>10. s \div n \in Int /\ 0 <= s \div n /\ s \div n <= 825
  <2>1. n \in Nat \ {0} /\ 0 \in Int /\ 825 \in Int
    BY <1>1
  <2> QED
    BY <1>9, <2>1, Quotients
<1>11. MeanRisk(actions, confidence, pool, tool) = s \div n
  BY <1>1, <1>2, <1>4, <1>8, Zenon
<1> QED
  BY <1>10, <1>11, ZenonT(60)

LEMMA AggregateIs ==
    ASSUME NEW actions, NEW n, Fit(actions, n),
           NEW pool, NEW m \in Nat, m # 0, DOMAIN pool = 1 .. m, Len(pool) = m,
           \A i \in 1 .. m : pool[i].marks \in Mild,
           NEW confidence, confidence \in 0 .. One, NEW tool \in BOOLEAN, NEW planned, planned \in 0 .. One
    PROVE  /\ AggregateRisk(actions, confidence, pool, tool, planned) \in Int
           /\ AggregateRisk(actions, confidence, pool, tool, planned) < 750
<1>1. PICK a \in Int : a = MeanRisk(actions, confidence, pool, tool) /\ 0 <= a /\ a <= 825
  BY MeanRiskIs
<1> DEFINE S == {ConstraintRisk(x, confidence, pool) : x \in ToSet(actions)}
<1>0. PICK lo \in Int, hi \in Int : lo = 0 /\ hi = 384
  OBVIOUS
<1>2. S \in SUBSET (lo .. hi) /\ S # {}
  <2>1. \A x : ConstraintRisk(x, confidence, pool) \in lo .. hi
    BY <1>0, ConstraintRiskIs, ZenonT(60)
  <2>2. n \in Nat /\ n # 0 /\ DOMAIN actions = 1 .. n
    BY DEF Fit
  <2>3. 1 \in DOMAIN actions
    BY <2>2
  <2>4. actions[1] \in ToSet(actions)
    BY <2>3 DEF ToSet
  <2> QED
    BY <2>1, <2>4
<1> HIDE DEF S
<1>3. PICK c \in Int : c = Max(S) /\ 0 <= c /\ c <= 384
  <2>3. Max(S) \in S
    BY <1>2, Largest
  <2>4. \A x \in lo .. hi : x \in Int /\ 0 <= x /\ x <= 384
    BY <1>0
  <2>5. Max(S) \in lo .. hi
    BY <1>2, <2>3, Zenon
  <2>6. Max(S) \in Int /\ 0 <= Max(S) /\ Max(S) <= 384
    BY <2>4, <2>5
  <2> QED
    BY <2>6
<1>4. PICK p \in Int : p = planned /\ 0 <= p /\ p <= 1000
  <2>1. planned \in Int /\ 0 <= planned /\ planned <= 1000
    BY Scorings
  <2> QED
    BY <2>1
<1>5. PICK x \in Int : x = Percent(55, a) + Percent(25, c) + Percent(20, One - p) /\ x < 750
  <2>1. PICK i \in Int : i = Percent(55, a) /\ i <= 453
    BY <1>1 DEF Percent
  <2>0. 0 <= c /\ c <= 384
    BY <1>3
  <2>2. PICK j \in Int : j = Percent(25, c) /\ j <= 96
    BY <2>0 DEF Percent
  <2>3. PICK k \in Int : k = Percent(20, One - p) /\ k <= 200
    BY <1>4 DEF Percent, One
  <2>4. i <= 453 /\ j <= 96 /\ k <= 200
    BY <2>1, <2>2, <2>3, Zenon
  <2>5. i + j + k \in Int /\ i + j + k < 750
    BY <2>4
  <2>6. PICK x \in Int : x = i + j + k /\ x < 750
    BY <2>5
  <2>7. x = Percent(55, a) + Percent(25, c) + Percent(20, One - p)
    <3>1. x = i + j + k
      BY <2>6
    <3> QED
      BY <2>1, <2>2, <2>3, <3>1, Zenon
  <2>8. x < 750
    BY <2>6
  <2> HIDE <2>1, <2>2, <2>3
  <2> QED
    BY <2>7, <2>8
<1>6. AggregateRisk(actions, confidence, pool, tool, planned) = Within(x)
  BY <1>1, <1>3, <1>4, <1>5 DEF AggregateRisk, S
<1>7. Within(x) \in Int /\ Within(x) < 750
  <2>1. Within(x) = IF x < 0 THEN 0 ELSE IF x > 1000 THEN 1000 ELSE x
    BY Clamps
  <2>2. x < 750
    BY <1>5
  <2> QED
    BY <2>1, <2>2
<1> QED
  BY <1>6, <1>7

(* Constraints with the marks of the planner and of the policy.              *)
Types == {"text", "execution", "policy", "memory", "affect", "reflection", "state"}

(* The texts of the fixed constraints and of the policy's.                   *)
FixedTexts ==
    {"no external tools", "no language models", "workflow owns dispatch", "surface retrieval uncertainty",
     "priors are modifiers", "reflect before action", "no unsupported claims", "no tools without permission",
     "external actions in the sandbox"}

ConstraintsOn(T) == [type : Types, text : T, marks : Mild]

LEMMA ConstraintIn ==
    ASSUME NEW T, NEW type \in Types, NEW text \in T, NEW marks \in Mild, NEW condition
    PROVE  /\ Constraint(type, text, marks) \in ConstraintsOn(T)
           /\ When(condition, Constraint(type, text, marks)) \in Seq(ConstraintsOn(T))
<1>1. Constraint(type, text, marks) \in ConstraintsOn(T)
  BY DEF Constraint, ConstraintsOn
<1> DEFINE c == Constraint(type, text, marks)
           C == ConstraintsOn(T)
<1> HIDE DEF c, C
<1>2. When(condition, c) \in Seq(C)
  <2>1. c \in C
    BY <1>1 DEF c, C
  <2>2. <<c>> \in Seq(C) /\ <<>> \in Seq(C)
    BY <2>1
  <2> QED
    BY <2>2 DEF When
<1> QED
  BY <1>1, <1>2 DEF c, C

LEMMA Texts ==
    ASSUME NEW T, FixedTexts \subseteq T
    PROVE  /\ "no external tools" \in T /\ "no language models" \in T /\ "workflow owns dispatch" \in T
           /\ "surface retrieval uncertainty" \in T /\ "priors are modifiers" \in T
           /\ "reflect before action" \in T /\ "no unsupported claims" \in T
           /\ "no tools without permission" \in T /\ "external actions in the sandbox" \in T
BY DEF FixedTexts

LEMMA MildMarks ==
    /\ {} \in Mild /\ {"tools"} \in Mild /\ {"models"} \in Mild /\ {"workflow"} \in Mild
    /\ {"unsure"} \in Mild /\ {"reflection", "workflow"} \in Mild
  BY DEF Mild

LEMMA TypeNames ==
    /\ "text" \in Types /\ "execution" \in Types /\ "policy" \in Types /\ "memory" \in Types
    /\ "affect" \in Types /\ "reflection" \in Types
BY DEF Types

(* The constraints of a policy are among them.                               *)
LEMMA PolicyConstraintsIs ==
    ASSUME NEW T, FixedTexts \subseteq T, NEW policy
    PROVE  PolicyConstraints(policy) \in Seq(ConstraintsOn(T)) /\ Len(PolicyConstraints(policy)) > 0
<1> DEFINE C == ConstraintsOn(T)
           a == Constraint("text", "no unsupported claims", {"unsure"})
           b == When(~policy.external, Constraint("text", "no tools without permission", {"tools"}))
           d == When(policy.sandbox, Constraint("text", "external actions in the sandbox", {}))
<1>1. a \in C
  BY Texts, MildMarks, TypeNames, ConstraintIn, ZenonT(60)
<1>2. b \in Seq(C)
  BY Texts, MildMarks, TypeNames, ConstraintIn, ZenonT(60)
<1>3. d \in Seq(C)
  BY Texts, MildMarks, TypeNames, ConstraintIn, ZenonT(60)
<1>4. PolicyConstraints(policy) = (<<a>> \o b) \o d
  BY Zenon DEF PolicyConstraints
<1> HIDE DEF a, b, d, C
<1>5. <<a>> \in Seq(C) /\ Len(<<a>>) = 1
  BY <1>1
<1>6. <<a>> \o b \in Seq(C) /\ Len(<<a>> \o b) = Len(<<a>>) + Len(b)
  BY <1>2, <1>5, ConcatProperties
<1>7. (<<a>> \o b) \o d \in Seq(C) /\ Len((<<a>> \o b) \o d) = Len(<<a>> \o b) + Len(d)
  BY <1>3, <1>6, ConcatProperties
<1>8. Len(b) \in Nat /\ Len(d) \in Nat
  BY <1>2, <1>3, LenProperties
<1>9. Len((<<a>> \o b) \o d) > 0
  BY <1>5, <1>6, <1>7, <1>8
<1> QED
  BY <1>4, <1>7, <1>9 DEF C

LEMMA Tripled ==
    ASSUME NEW S, NEW a \in S, NEW b \in S, NEW c \in S
    PROVE  <<a, b, c>> \in Seq(S)
OBVIOUS

(* The constraints of a plan, of a session that states none.                 *)
LEMMA ConstraintsIs ==
    ASSUME NEW ctx, ctx.stated = <<>>, NEW reason, NEW T, FixedTexts \subseteq T, reason \in T
    PROVE  Constraints(ctx, reason) \in Seq(ConstraintsOn(T))
<1> DEFINE C == ConstraintsOn(T)
           f == FixedConstraints
           a == When(ctx.retrieval < 400 \/ ctx.memories = 0,
                     Constraint("memory", "surface retrieval uncertainty", {"unsure"}))
           b == When(ctx.priors, Constraint("affect", "priors are modifiers", {}))
           c == When(ctx.severity >= 450, Constraint("reflection", "reflect before action", {"reflection", "workflow"}))
           d == When(reason # "none", Constraint("policy", reason, {}))
           e == [i \in DOMAIN ctx.stated |-> Constraint("state", ctx.stated[i].text, ctx.stated[i].marks)]
<1>1. f \in Seq(C)
  <2>1. Constraint("execution", "no external tools", {"tools"}) \in C
    BY Texts, MildMarks, TypeNames, ConstraintIn, ZenonT(60)
  <2>2. Constraint("execution", "no language models", {"models"}) \in C
    BY Texts, MildMarks, TypeNames, ConstraintIn, ZenonT(60)
  <2>3. Constraint("policy", "workflow owns dispatch", {"workflow"}) \in C
    BY Texts, MildMarks, TypeNames, ConstraintIn, ZenonT(60)
  <2> HIDE DEF C
  <2> QED
    BY <2>1, <2>2, <2>3, Tripled DEF FixedConstraints
<1>2. a \in Seq(C)
  BY Texts, MildMarks, TypeNames, ConstraintIn, ZenonT(60)
<1>3. b \in Seq(C)
  BY Texts, MildMarks, TypeNames, ConstraintIn, ZenonT(60)
<1>4. c \in Seq(C)
  BY Texts, MildMarks, TypeNames, ConstraintIn, ZenonT(60)
<1>5. d \in Seq(C)
  BY Texts, MildMarks, TypeNames, ConstraintIn, ZenonT(60)
<1>6. e \in Seq(C)
  <2>1. DOMAIN <<>> = {}
    OBVIOUS
  <2>2. e = <<>>
    BY <2>1
  <2> HIDE DEF C
  <2> QED
    BY <2>2
<1>7. Constraints(ctx, reason) = Deduped(((((f \o a) \o b) \o c) \o d) \o e)
  BY Zenon DEF Constraints
<1> HIDE DEF f, a, b, c, d, e, C
<1>8. f \o a \in Seq(C)
  BY <1>1, <1>2, ConcatProperties
<1>9. (f \o a) \o b \in Seq(C)
  BY <1>3, <1>8, ConcatProperties
<1>10. ((f \o a) \o b) \o c \in Seq(C)
  BY <1>4, <1>9, ConcatProperties
<1>11. (((f \o a) \o b) \o c) \o d \in Seq(C)
  BY <1>5, <1>10, ConcatProperties
<1>12. ((((f \o a) \o b) \o c) \o d) \o e \in Seq(C)
  BY <1>6, <1>11, ConcatProperties
<1>13. Deduped(((((f \o a) \o b) \o c) \o d) \o e) \in Seq(C)
  BY <1>12, DedupedIs
<1> QED
  BY <1>7, <1>13 DEF C

(* The numbers of a planning context.                                        *)
Typed(ctx) ==
    /\ ctx.explicit \in Int /\ ctx.retrieval \in Int /\ ctx.ambiguity \in Int /\ ctx.severity \in Int
    /\ ctx.dissonance \in Int /\ ctx.profile \in Int

LEMMA PlannedRiskIs ==
    ASSUME NEW ctx, Typed(ctx), NEW action \in Acts
    PROVE  PlannedRisk(action, ctx) \in Int
<1>1. PICK r \in Int, s \in Int : r = ctx.retrieval /\ s = ctx.severity
  BY DEF Typed
<1>2. PICK b \in Int : b = BaseRisk[action]
  BY DEF BaseRisk, Acts, SymbolicRules
<1>3. PICK z \in Int : z = 400 - r
  OBVIOUS
<1>4. PICK y \in Int : y = Max({0, z})
  <2>1. PICK o \in Int : o = 0
    OBVIOUS
  <2>2. Max({o, z}) = IF o >= z THEN o ELSE z
    BY Extremes
  <2> QED
    BY <2>1, <2>2
<1>5. PICK a \in Int, c \in Int : a = Percent(35, y) /\ c = Percent(25, s)
  <2>1. Percent(35, y) \in Int
    BY Parts
  <2>2. Percent(25, s) \in Int
    BY Parts
  <2> QED
    BY <2>1, <2>2
<1>6. PICK x \in Int : x = b + a + c
  OBVIOUS
<1>7. PlannedRisk(action, ctx) = Within(x)
  BY <1>1, <1>2, <1>3, <1>4, <1>5, <1>6, ZenonT(60) DEF PlannedRisk
<1> QED
  BY <1>7, ClampedIn

LEMMA PredictedRiskIs ==
    ASSUME NEW ctx, Typed(ctx), NEW actions, NEW n, Fit(actions, n)
    PROVE  PredictedRisk(actions, ctx) \in Int
<1> DEFINE S == DOMAIN actions
           f == [d \in S |-> PlannedRisk(actions[d], ctx)]
           h == CHOOSE h : h = [T \in SUBSET S |-> IF T = {} THEN 0
                   ELSE LET x == CHOOSE x \in T : TRUE IN PlannedRisk(actions[x], ctx) + h[T \ {x}]]
<1>1. n \in Nat /\ n # 0 /\ S = 1 .. n
  BY DEF Fit
<1>2. IsFiniteSet(S) /\ Cardinality(S) = n
  <2>1. 1 \in Nat /\ 1 <= n + 1
    BY <1>1
  <2>2. IsFiniteSet(1 .. n) /\ Cardinality(1 .. n) = n - 1 + 1
    BY <1>1, <2>1, Indices
  <2> HIDE DEF S
  <2> QED
    BY <1>1, <2>2
<1>3. \A d \in S : f[d] = PlannedRisk(actions[d], ctx) /\ f[d] \in Int
  <2> SUFFICES ASSUME NEW d \in S PROVE PlannedRisk(actions[d], ctx) \in Int
    OBVIOUS
  <2>1. actions[d] \in Acts
    BY <1>1 DEF Fit
  <2> QED
    BY <2>1, PlannedRiskIs
<1>4. ASSUME NEW x
      PROVE  Summing(x, f, S) <=> x = [T \in SUBSET S |-> IF T = {} THEN 0
                   ELSE PlannedRisk(actions[Chosen(T)], ctx) + x[T \ {Chosen(T)}]]
  <2> DEFINE l(T) == IF T = {} THEN 0 ELSE f[Chosen(T)] + x[T \ {Chosen(T)}]
             r(T) == IF T = {} THEN 0 ELSE PlannedRisk(actions[Chosen(T)], ctx) + x[T \ {Chosen(T)}]
  <2>1. ASSUME NEW T \in SUBSET S PROVE l(T) = r(T)
    <3>1. T # {} => Chosen(T) \in S
      BY DEF Chosen
    <3> QED
      BY <1>3, <3>1
  <2> HIDE DEF l, r
  <2>2. [T \in SUBSET S |-> l(T)] = [T \in SUBSET S |-> r(T)]
    BY <2>1
  <2> QED
    BY <2>2 DEF Summing, l, r
<1>5. Sums(h, f, S)
  <2>1. PICK g : Summing(g, f, S)
    <3> HIDE DEF f, S
    <3> QED
      BY <1>2, <1>3, SummingExists
  <2>2. g = [T \in SUBSET S |-> IF T = {} THEN 0
                   ELSE PlannedRisk(actions[Chosen(T)], ctx) + g[T \ {Chosen(T)}]]
    BY <1>4, <2>1
  <2>3. \E k : k = [T \in SUBSET S |-> IF T = {} THEN 0
                   ELSE LET x == CHOOSE x \in T : TRUE IN PlannedRisk(actions[x], ctx) + k[T \ {x}]]
    BY <2>2 DEF Chosen
  <2>4. h = [T \in SUBSET S |-> IF T = {} THEN 0
                   ELSE LET x == CHOOSE x \in T : TRUE IN PlannedRisk(actions[x], ctx) + h[T \ {x}]]
    BY <2>3
  <2> HIDE DEF h
  <2>5. h = [T \in SUBSET S |-> IF T = {} THEN 0
                   ELSE PlannedRisk(actions[Chosen(T)], ctx) + h[T \ {Chosen(T)}]]
    BY <2>4 DEF Chosen
  <2>6. Summing(h, f, S)
    BY <1>4, <2>5
  <2> QED
    BY <1>2, <1>3, <2>6, SummingSums
<1>6. PredictedRisk(actions, ctx) = h[S] \div Cardinality(S)
  BY DEF PredictedRisk, MeanOver, SumOver, MapThenSumSet, MapThenFoldSet
<1> HIDE DEF h, f, S
<1>7. h[S] \in Int
  BY <1>5 DEF Sums
<1>8. PICK s \in Int : s = h[S]
  BY <1>7
<1>9. s \div n \in Int
  BY <1>1, Quotients
<1> QED
  BY <1>2, <1>6, <1>8, <1>9, Zenon

(* The confidence of a plan is a score.                                      *)
LEMMA PlanConfidenceIs ==
    ASSUME NEW ctx, Typed(ctx), NEW actions, NEW n, Fit(actions, n), NEW reason, NEW revision
    PROVE  Plan(ctx, actions, reason, revision).confidence \in 0 .. One
<1>1. PICK e \in Int, r \in Int, m \in Int, s \in Int, d \in Int, p \in Int :
          /\ e = ctx.explicit /\ r = ctx.retrieval /\ m = ctx.ambiguity /\ s = ctx.severity
          /\ d = ctx.dissonance /\ p = ctx.profile
  BY DEF Typed
<1>2. PICK g \in Int : g = GoalConfidence(ctx)
  <2>1. CASE ctx.explicit # None
    <3>1. GoalConfidence(ctx) = Within(e)
      BY <1>1, <2>1 DEF GoalConfidence
    <3> QED
      BY <3>1, ClampedIn
  <2>2. CASE ~(ctx.explicit # None)
    <3>1. PICK u \in Int : u = Support(ctx, 250)
      BY <1>1 DEF Support
    <3>2. PICK x \in Int, y \in Int, z \in Int : x = Percent(45, u) /\ y = Percent(25, p) /\ z = Percent(25, s)
      <4>1. Percent(45, u) \in Int
        BY Parts
      <4>2. Percent(25, p) \in Int
        BY Parts
      <4>3. Percent(25, s) \in Int
        BY Parts
      <4> QED
        BY <4>1, <4>2, <4>3
    <3>3. PICK w \in Int : w = x + y + 350 - z
      OBVIOUS
    <3>4. GoalConfidence(ctx) = Within(w)
      BY <1>1, <2>2, <3>1, <3>2, <3>3 DEF GoalConfidence
    <3> QED
      BY <3>4, ClampedIn
  <2> QED
    BY <2>1, <2>2
<1>3. PICK u \in Int : u = EvaluatedUncertainty(ctx)
  <2>1. PICK o \in Int : o = One - r
    BY DEF One
  <2>2. PICK a \in Int, b \in Int, c \in Int, f \in Int :
            a = Percent(35, o) /\ b = Percent(20, m) /\ c = Percent(25, s) /\ f = Percent(15, d)
    <3>1. Percent(35, o) \in Int
      BY Parts
    <3>2. Percent(20, m) \in Int
      BY Parts
    <3>3. Percent(25, s) \in Int
      BY Parts
    <3>4. Percent(15, d) \in Int
      BY Parts
    <3> QED
      BY <3>1, <3>2, <3>3, <3>4
  <2>3. PICK k \in Int : k = IF ctx.memories = 0 THEN 250 ELSE 0
    OBVIOUS
  <2>4. PICK w \in Int : w = a + b + c + f + k
    OBVIOUS
  <2>5. EvaluatedUncertainty(ctx) = Within(w)
    BY <1>1, <2>1, <2>2, <2>3, <2>4 DEF EvaluatedUncertainty
  <2> QED
    BY <2>5, ClampedIn
<1>4. PICK v \in Int : v = PredictedConfidence(actions, ctx)
  <2>1. PICK k \in Int : k = PredictedRisk(actions, ctx)
    BY PredictedRiskIs
  <2>2. PICK t \in Int : t = Support(ctx, 200)
    BY <1>1 DEF Support
  <2>3. PICK o \in Int : o = One - k
    BY DEF One
  <2>4. PICK a \in Int, b \in Int, c \in Int, f \in Int :
            a = Percent(45, g) /\ b = Percent(35, t) /\ c = Percent(20, o) /\ f = Percent(20, s)
    <3>1. Percent(45, g) \in Int
      BY Parts
    <3>2. Percent(35, t) \in Int
      BY Parts
    <3>3. Percent(20, o) \in Int
      BY Parts
    <3>4. Percent(20, s) \in Int
      BY Parts
    <3> QED
      BY <3>1, <3>2, <3>3, <3>4
  <2>5. PICK w \in Int : w = a + b + c
    OBVIOUS
  <2>6. PICK y \in Int : y = Within(w)
    BY ClampedIn
  <2>7. PICK z \in Int : z = y - f
    OBVIOUS
  <2>8. PredictedConfidence(actions, ctx) = Within(z)
    BY <1>1, <1>2, <2>1, <2>2, <2>3, <2>4, <2>5, <2>6, <2>7, ZenonT(60) DEF PredictedConfidence
  <2> QED
    BY <2>8, ClampedIn
<1>5. PICK o \in Int : o = One - u
  BY DEF One
<1>6. PICK a \in Int, b \in Int : a = Percent(70, v) /\ b = Percent(30, o)
  <2>1. Percent(70, v) \in Int
    BY Parts
  <2>2. Percent(30, o) \in Int
    BY Parts
  <2> QED
    BY <2>1, <2>2
<1>7. PICK w \in Int : w = a + b
  OBVIOUS
<1>8. Plan(ctx, actions, reason, revision).confidence = Within(w)
  <2>1. Plan(ctx, actions, reason, revision).confidence
        = Within(Percent(70, PredictedConfidence(actions, ctx)) + Percent(30, One - EvaluatedUncertainty(ctx)))
    BY DEF Plan
  <2> QED
    BY <1>3, <1>4, <1>5, <1>6, <1>7, <2>1, Zenon
<1> QED
  BY <1>8, ClampedIn

(* A plan of a session that states no constraints.                           *)
Modest(plan) ==
    /\ \E n \in 5 .. 7 : Fit(plan.actions, n)
    /\ plan.confidence \in 0 .. One
    /\ \E T : FixedTexts \subseteq T /\ plan.constraints \in Seq(ConstraintsOn(T))

(* What create_plan and replan make for it is one.                           *)
LEMMA PlanIs ==
    ASSUME NEW ctx, Typed(ctx), ctx.priors = TRUE, ctx.stated = <<>>, NEW reason, NEW revision
    PROVE  Modest(Plan(ctx, Actions(ctx, reason), reason, revision))
<1> DEFINE plan == Plan(ctx, Actions(ctx, reason), reason, revision)
<1>1. PICK n \in 5 .. 7 : Fit(Actions(ctx, reason), n)
  BY ActionsFit
<1>2. plan.actions = Actions(ctx, reason) /\ plan.constraints = Constraints(ctx, reason)
  BY DEF Plan
<1>3. plan.confidence \in 0 .. One
  BY <1>1, PlanConfidenceIs
<1> HIDE DEF plan
<1>4. PICK T : T = FixedTexts \cup {reason}
  OBVIOUS
<1>5. FixedTexts \subseteq T /\ reason \in T
  BY <1>4
<1>6. plan.constraints \in Seq(ConstraintsOn(T))
  BY <1>2, <1>5, ConstraintsIs
<1>7. Modest(plan)
  BY <1>1, <1>2, <1>3, <1>5, <1>6, Zenon DEF Modest
<1> QED
  BY <1>7 DEF plan

LEMMA ConfidenceOf ==
    ASSUME NEW s, s.overall \in Int, s.explicit \in Int
    PROVE  StateConfidence(s) \in 0 .. One
<1>1. Or(s.explicit, 0) \in 0 .. One
  <2>1. 0 \in 0 .. One
    BY DEF One
  <2>2. Within(s.explicit) \in 0 .. One
    BY ClampedIn
  <2> QED
    BY <2>1, <2>2 DEF Or
<1>2. Within(s.overall) \in 0 .. One
  BY ClampedIn
<1> QED
  BY <1>1, <1>2 DEF Or, StateConfidence

(* What the world model predicts of such a plan.                             *)
LEMMA SimulateIs ==
    ASSUME NEW plan, Modest(plan), NEW s, s.overall \in Int, s.explicit \in Int, NEW policy
    PROVE  simulate(plan, s, policy).risk \in Int /\ simulate(plan, s, policy).risk < 750
<1>1. PICK n \in 5 .. 7 : Fit(plan.actions, n)
  BY DEF Modest
<1>2. PICK T : FixedTexts \subseteq T /\ plan.constraints \in Seq(ConstraintsOn(T))
  BY DEF Modest
<1> DEFINE C == ConstraintsOn(T)
           a == PolicyConstraints(policy)
           pool == a \o plan.constraints
           confidence == StateConfidence(s)
           tool == plan.tool # "none"
<1>3. a \in Seq(C) /\ Len(a) > 0
  BY <1>2, PolicyConstraintsIs
<1>4. confidence \in 0 .. One
  BY ConfidenceOf
<1>5. tool \in BOOLEAN
  OBVIOUS
<1>6. simulate(plan, s, policy).risk = AggregateRisk(plan.actions, confidence, pool, tool, plan.confidence)
  BY DEF simulate, Prediction
<1> HIDE DEF a, confidence, tool, C
<1>7. pool \in Seq(C) /\ Len(pool) = Len(a) + Len(plan.constraints)
  BY <1>2, <1>3, ConcatProperties DEF C
<1> HIDE DEF pool
<1>8. PICK m \in Nat : m # 0 /\ m = Len(pool) /\ DOMAIN pool = 1 .. m
  <2>1. Len(a) \in Nat /\ Len(plan.constraints) \in Nat
    BY <1>2, <1>3, LenProperties DEF C
  <2>2. DOMAIN pool = 1 .. Len(pool) /\ Len(pool) \in Nat
    BY <1>7, LenProperties
  <2>3. Len(pool) # 0
    BY <1>3, <1>7, <2>1
  <2> QED
    BY <2>2, <2>3
<1>9. \A i \in 1 .. m : pool[i].marks \in Mild
  <2> SUFFICES ASSUME NEW i \in 1 .. m PROVE pool[i].marks \in Mild
    OBVIOUS
  <2>1. pool[i] \in C
    BY <1>7, <1>8, ElementOfSeq
  <2> QED
    BY <2>1 DEF C, ConstraintsOn
<1>10. plan.confidence \in 0 .. One
  BY DEF Modest
<1>11. /\ AggregateRisk(plan.actions, confidence, pool, tool, plan.confidence) \in Int
       /\ AggregateRisk(plan.actions, confidence, pool, tool, plan.confidence) < 750
  BY <1>1, <1>4, <1>5, <1>8, <1>9, <1>10, AggregateIs
<1> QED
  BY <1>6, <1>11

-----------------------------------------------------------------------------
(* The numbers and the risks of the turns. *)

(* The request's session states no constraints of its own.                   *)
Free == Settled[request.session].stated = <<>>

(* What the engine holds are states, what it left are scores.                *)
Numbers ==
    /\ history \in Seq(Pads)
    /\ \A s \in Sessions : committed[s].pad \in Pads
    /\ todo # <<>> => context.emotional.pad \in Pads
    /\ Facing(Phases \ {"AFFECT"}) => Updated(context.update)

(* A plan of such a session is modest, and so is its risk.                   *)
Risks ==
    /\ Facing({"WORLD_SIMULATION"}) /\ Free => Modest(context.plan)
    /\ Facing({"UNCERTAINTY_ESTIMATION", "EXECUTION_DECISION"}) /\ Free =>
          context.prediction.risk \in Int /\ context.prediction.risk < 750
    /\ DenialIsFromConstraints

(* What leaves the emotions, the update and the decision alone, and does not *)
(* come to be in front of a simulation or of what follows it.                *)
LEMMA NumbersLast ==
    ASSUME IInv, Numbers, todo # <<>>, Head(todo) # "AFFECT", Head(todo) \in Phases,
           todo' = <<>> \/ Head(todo') \in Phases,
           context'.emotional = context.emotional, context'.update = context.update,
           UNCHANGED <<history, committed>>
    PROVE  Numbers'
<1>1. Facing(Phases \ {"AFFECT"})
  BY DEF Facing
<1>2. (\A s \in Sessions : committed[s].pad \in Pads)'
  BY DEF Numbers
<1> QED
  BY <1>1, <1>2 DEF Numbers

LEMMA RisksLast ==
    ASSUME Risks, todo' = <<>> \/ Head(todo') \notin Judges,
           context'.decision = context.decision, request' = request
    PROVE  Risks'
<1>1. ~Facing({"WORLD_SIMULATION"})' /\ ~Facing({"UNCERTAINTY_ESTIMATION", "EXECUTION_DECISION"})'
  BY DEF Facing, Judges
<1> QED
  BY <1>1 DEF Risks, DenialIsFromConstraints

LEMMA NumbersBegin == Init => Numbers /\ Risks
<1> SUFFICES ASSUME Init PROVE Numbers /\ Risks
  OBVIOUS
<1>1. todo = <<>> /\ context = Blank
  BY DEF Init
<1>2. Zero \in Pads
  BY ZeroIs
<1>3. Calm.pad = Zero
  BY DEF Calm
<1>4. \A s \in Sessions : committed[s].pad \in Pads
  <2>1. \A s \in Sessions : committed[s] = Calm
    BY DEF Init
  <2> QED
    BY <1>2, <1>3, <2>1
<1>5. history \in Seq(Pads)
  BY AffectAssumption DEF Init
<1>6. context.decision # "abstain"
  BY <1>1 DEF Blank
<1> QED
  BY <1>1, <1>4, <1>5, <1>6 DEF Numbers, Risks, Facing, DenialIsFromConstraints

LEMMA NumbersLoad ==
    ASSUME IInv, Numbers, Risks, StateLoad
    PROVE  Numbers' /\ Risks'
<1> PICK r \in Requests :
          /\ request' = r
          /\ todo' = Route(r.task)
          /\ context' = [Blank EXCEPT !.emotional = committed[r.session]]
  BY DEF StateLoad
<1>0. UNCHANGED <<history, committed>>
  BY DEF StateLoad, shared, stores
<1>1. todo' # <<>> /\ Head(todo') = "AFFECT"
  BY RouteFacts
<1>2. context'.emotional = committed[r.session] /\ context'.decision = "none"
  BY DEF Blank
<1>3. r.session \in Sessions
  BY RequestsAssumption
<1>4. (\A s \in Sessions : committed[s].pad \in Pads)'
  BY <1>0 DEF Numbers
<1>5. context'.emotional.pad \in Pads
  BY <1>2, <1>3 DEF Numbers
<1>6. ~Facing(Phases \ {"AFFECT"})' /\ ~Facing({"WORLD_SIMULATION"})'
      /\ ~Facing({"UNCERTAINTY_ESTIMATION", "EXECUTION_DECISION"})'
  BY <1>1 DEF Facing
<1>7. DenialIsFromConstraints'
  BY <1>2 DEF DenialIsFromConstraints
<1> QED
  BY <1>0, <1>4, <1>5, <1>6, <1>7 DEF Numbers, Risks

LEMMA NumbersEnd ==
    ASSUME Numbers, todo' = <<>>, context' = Blank, UNCHANGED <<history, committed>>
    PROVE  Numbers' /\ Risks'
<1>1. (\A s \in Sessions : committed[s].pad \in Pads)'
  BY DEF Numbers
<1>2. context'.decision # "abstain"
  BY DEF Blank
<1> QED
  BY <1>1, <1>2 DEF Numbers, Risks, Facing, DenialIsFromConstraints

LEMMA NumbersAffect ==
    ASSUME IInv, Numbers, Risks, Affect
    PROVE  Numbers' /\ Risks'
<1> DEFINE profile == ProfileOf(request.text)
<1>0. In("AFFECT") /\ todo' = Tail(todo) /\ UNCHANGED <<committed, request>>
  BY DEF Affect, stores
<1> PICK u \in {process(profile, StateSource, history)} :
          history' = u.history /\ context' = [context EXCEPT !.emotional = u.emotional, !.update = u]
  BY DEF Affect
<1>1. todo' # <<>> /\ Head(todo') = "EVIDENCE_ACQUISITION" /\ request \in Requests
  BY <1>0, Passed DEF Behind
<1>2. /\ context'.decision = context.decision
      /\ context'.emotional = u.emotional /\ context'.update = u
  BY DEF IInv, Shaped, Blank
<1>3. /\ profile.pad \in Pads /\ profile.confidence \in 0 .. One
      /\ profile.emotions \in Seq(STRING \X (0 .. One))
  BY <1>1, AffectAssumption
<1>4. StateSource.pad \in Pads /\ StateSource.baseline \in Pads
  <2>1. context.emotional.pad \in Pads
    BY <1>0 DEF Numbers, In
  <2>2. context.emotional.baseline = Zero
    <3>1. request.session \in Sessions
      BY <1>1, RequestsAssumption
    <3>2. context.emotional = committed[request.session]
      BY <1>0 DEF IInv, Moods, Facing, In
    <3> QED
      BY <3>1, <3>2 DEF IInv, Moods
  <2>3. Zero \in Pads
    BY ZeroIs
  <2> QED
    BY <2>1, <2>2, <2>3 DEF StateSource
<1>5. history \in Seq(Pads)
  BY DEF Numbers
<1> HIDE DEF profile
<1>6. Updated(u) /\ u.history \in Seq(Pads)
  <2>1. u = process(profile, StateSource, history)
    OBVIOUS
  <2> QED
    BY <1>3, <1>4, <1>5, <2>1, ProcessIs, Zenon
<1>7. Numbers'
  <2>1. (\A s \in Sessions : committed[s].pad \in Pads)'
    BY <1>0 DEF Numbers
  <2>2. u.emotional.pad \in Pads
    BY <1>6 DEF Updated
  <2> QED
    BY <1>2, <1>6, <2>1, <2>2 DEF Numbers
<1>8. Risks'
  BY <1>0, <1>1, <1>2, RisksLast DEF Judges
<1> QED
  BY <1>7, <1>8

LEMMA NumbersAcquire ==
    ASSUME IInv, Numbers, Risks, EvidenceAcquisition
    PROVE  Numbers' /\ Risks'
<1> PICK f \in Founds : Computes("EVIDENCE_ACQUISITION", [context EXCEPT !.found = f, !.acquisitions = @ + 1])
  BY DEF EvidenceAcquisition
<1>0. /\ In("EVIDENCE_ACQUISITION") /\ todo' = Tail(todo) /\ UNCHANGED <<history, committed, request>>
      /\ context' = [context EXCEPT !.found = f, !.acquisitions = @ + 1]
  BY DEF Computes, shared, stores
<1>1. todo' # <<>> /\ Head(todo') = "PLANNING"
  BY <1>0, Passed DEF Behind
<1>2. /\ context'.decision = context.decision
      /\ context'.emotional = context.emotional /\ context'.update = context.update
  BY <1>0 DEF IInv, Shaped, Blank
<1>3. Numbers'
  BY <1>0, <1>1, <1>2, PhaseNames, NumbersLast DEF In
<1>4. Risks'
  BY <1>0, <1>1, <1>2, RisksLast DEF Judges
<1> QED
  BY <1>3, <1>4

(* Where no phase but those that judge a plan can come to be in front.       *)
LEMMA Elsewhere ==
    ASSUME IInv, Numbers, Risks, NEW p, In(p), p \notin {"AFFECT"}, p \in Phases,
           todo' # <<>>, Head(todo') \in Phases \ Judges,
           context'.emotional = context.emotional, context'.update = context.update,
           context'.decision = context.decision,
           UNCHANGED <<history, committed, request>>
    PROVE  Numbers' /\ Risks'
<1>1. Numbers'
  BY NumbersLast DEF In
<1>2. Risks'
  BY RisksLast
<1> QED
  BY <1>1, <1>2

LEMMA NumbersSkip ==
    ASSUME IInv, Numbers, Risks, Skip
    PROVE  Numbers' /\ Risks'
<1> DEFINE p == Head(todo)
           q == Head(todo')
<1>1. /\ In(p) /\ p \in {"REFLECTION", "ACTION", "ANSWER_GENERATION"} /\ todo' = Tail(todo)
      /\ UNCHANGED <<history, committed, request, context>>
  BY DEF Skip, Skipped, In, shared, stores
<1>2. todo' # <<>> /\ q \in Behind(p) /\ p \in Phases
  BY <1>1, Passed
<1>3. q \in {"ACTION", "ANSWER_GENERATION", "OUTPUT_VALIDATION"}
  BY <1>1, <1>2 DEF Behind
<1>4. q \in Phases \ Judges
  BY <1>3, PhaseNames DEF Judges
<1> QED
  BY <1>1, <1>2, <1>4, Elsewhere

LEMMA NumbersInvoke ==
    ASSUME IInv, Numbers, Risks, Invoke
    PROVE  Numbers' /\ Risks'
<1>0. In("ACTION") /\ UNCHANGED <<history, committed, request, todo>>
  BY DEF Invoke, shared, stores
<1>1. PICK s : context' = [context EXCEPT !.steps = s]
  BY DEF Invoke
<1>2. /\ context'.decision = context.decision
      /\ context'.emotional = context.emotional /\ context'.update = context.update
  BY <1>1 DEF IInv, Shaped, Blank
<1>3. todo' # <<>> /\ Head(todo') \in Phases \ Judges
  BY <1>0, PhaseNames DEF In, Judges
<1> QED
  BY <1>0, <1>2, <1>3, PhaseNames, Elsewhere

LEMMA NumbersAction ==
    ASSUME IInv, Numbers, Risks, Action
    PROVE  Numbers' /\ Risks'
<1> DEFINE made == aggregate_status(Statuses, context.plan.intent)
<1>0. In("ACTION") /\ todo' = Tail(todo) /\ UNCHANGED <<history, committed, request>>
      /\ context' = [context EXCEPT !.status = made]
  BY DEF Action, Computes, shared, stores
<1> HIDE DEF made
<1>1. todo' # <<>> /\ Head(todo') \in {"ANSWER_GENERATION", "OUTPUT_VALIDATION"}
  BY <1>0, Passed DEF Behind
<1>2. /\ context'.decision = context.decision
      /\ context'.emotional = context.emotional /\ context'.update = context.update
  BY <1>0 DEF IInv, Shaped, Blank
<1>3. Head(todo') \in Phases \ Judges
  BY <1>1, PhaseNames DEF Judges
<1> QED
  BY <1>0, <1>1, <1>2, <1>3, PhaseNames, Elsewhere

LEMMA NumbersAnswer ==
    ASSUME IInv, Numbers, Risks, AnswerGeneration
    PROVE  Numbers' /\ Risks'
<1>a. PICK g : Computes("ANSWER_GENERATION", [context EXCEPT !.generation = g])
  BY DEF AnswerGeneration
<1>0. In("ANSWER_GENERATION") /\ todo' = Tail(todo) /\ UNCHANGED <<history, committed, request>>
      /\ context' = [context EXCEPT !.generation = g]
  BY <1>a DEF Computes, shared, stores
<1>1. todo' # <<>> /\ Head(todo') \in {"OUTPUT_VALIDATION"}
  BY <1>0, Passed DEF Behind
<1>2. /\ context'.decision = context.decision
      /\ context'.emotional = context.emotional /\ context'.update = context.update
  BY <1>0 DEF IInv, Shaped, Blank
<1>3. Head(todo') \in Phases \ Judges
  BY <1>1, PhaseNames DEF Judges
<1> QED
  BY <1>0, <1>1, <1>2, <1>3, PhaseNames, Elsewhere

LEMMA NumbersOutput ==
    ASSUME IInv, Numbers, Risks, Output
    PROVE  Numbers' /\ Risks'
<1>a. PICK o : Computes("OUTPUT", [context EXCEPT !.outcome = o])
  BY DEF Output
<1>0. In("OUTPUT") /\ todo' = Tail(todo) /\ UNCHANGED <<history, committed, request>>
      /\ context' = [context EXCEPT !.outcome = o]
  BY <1>a DEF Computes, shared, stores
<1>1. todo' # <<>> /\ Head(todo') \in {"STATE_COMMIT"}
  BY <1>0, Passed DEF Behind
<1>2. /\ context'.decision = context.decision
      /\ context'.emotional = context.emotional /\ context'.update = context.update
  BY <1>0 DEF IInv, Shaped, Blank
<1>3. Head(todo') \in Phases \ Judges
  BY <1>1, PhaseNames DEF Judges
<1> QED
  BY <1>0, <1>1, <1>2, <1>3, PhaseNames, Elsewhere

LEMMA NumbersCommit ==
    ASSUME IInv, Numbers, Risks, StateCommit
    PROVE  Numbers' /\ Risks'
<1>0. In("STATE_COMMIT") /\ todo' = Tail(todo) /\ UNCHANGED <<history, request, context>>
  BY DEF StateCommit, shared
<1>1. todo' # <<>> /\ Head(todo') = "MEMORY_COMMIT" /\ request \in Requests
  BY <1>0, Passed DEF Behind
<1>2. context.emotional.pad \in Pads /\ Updated(context.update)
  <2>1. todo # <<>> /\ Facing(Phases \ {"AFFECT"})
    BY <1>0, PhaseNames DEF In, Facing
  <2> QED
    BY <2>1 DEF Numbers
<1>3. \A s \in Sessions : committed'[s].pad \in Pads
  <2>1. CASE committed' = committed
    BY <2>1 DEF Numbers
  <2>2. CASE committed' = [committed EXCEPT ![request.session] = context.emotional]
    <3>1. DOMAIN committed = Sessions
      BY DEF IInv, Moods
    <3> QED
      BY <1>2, <2>2, <3>1 DEF Numbers
  <2> QED
    BY <2>1, <2>2 DEF StateCommit
<1>4. (\A s \in Sessions : committed[s].pad \in Pads)'
  BY <1>3
<1>5. Numbers'
  BY <1>0, <1>2, <1>4 DEF Numbers
<1>6. Risks'
  BY <1>0, <1>1, RisksLast DEF Judges
<1> QED
  BY <1>5, <1>6

LEMMA NumbersValidate ==
    ASSUME IInv, Numbers, Risks, OutputValidation
    PROVE  Numbers' /\ Risks'
<1> DEFINE p == "OUTPUT_VALIDATION"
           rest == Tail(todo)
           action == Proposal
           accepted == action # "none" /\ Accepted([trigger |-> TRUE, action |-> action, confidence |-> 900])
<1>0. In(p) /\ UNCHANGED <<history, committed, request>>
  BY DEF OutputValidation, shared, stores
<1>a. IF accepted
      THEN /\ context' = [Consumed(context, action) EXCEPT
                             !.terminal = (action = "abstain"),
                             !.steps = IF action = "retry_transient_failure" THEN <<>> ELSE @]
           /\ todo' = Again(action) \o rest
      ELSE todo' = rest /\ UNCHANGED context
  BY DEF OutputValidation
<1>1. action \in {"regenerate", "retry_transient_failure", "abstain", "none"}
  BY DEF Proposal
<1> HIDE DEF action, accepted
<1>2. Rest(rest) /\ rest # <<>> /\ Head(rest) = "OUTPUT" /\ Head(rest) \in Behind(p)
  <2>1. Rest(todo) /\ todo # <<>> /\ Head(todo) = p
    BY <1>0 DEF IInv, Shaped, In
  <2>2. Rest(rest) /\ rest # <<>> /\ Head(rest) \in Behind(p)
    BY <2>1, Following
  <2> QED
    BY <2>1, <2>2 DEF Behind
<1>3. /\ context'.decision = context.decision
      /\ context'.emotional = context.emotional /\ context'.update = context.update
  <2>1. CASE accepted
    <3> DEFINE next == Consumed(context, action)
    <3>1. DOMAIN context = DOMAIN Blank
      BY DEF IInv, Shaped
    <3>2. PICK i, r, n : next = [context EXCEPT !.interventions = i, !.retrievals = r, !.replans = n]
      BY DEF Consumed
    <3>3. context' = [next EXCEPT !.terminal = (action = "abstain"),
                        !.steps = IF action = "retry_transient_failure" THEN <<>> ELSE @]
      BY <1>a, <2>1
    <3> HIDE DEF next
    <3> QED
      BY <3>1, <3>2, <3>3 DEF Blank
  <2>2. CASE ~accepted
    BY <1>a, <2>2
  <2> QED
    BY <2>1, <2>2
<1>4. todo' # <<>> /\ Head(todo') \in {"OUTPUT", "ACTION", "ANSWER_GENERATION"}
  <2>1. <<>> \o rest = rest
    <3>1. rest \in Seq(Phases)
      BY <1>2 DEF Rest, Path
    <3> HIDE DEF rest
    <3> QED
      BY <3>1
  <2>2. CASE accepted /\ action = "regenerate"
    <3> DEFINE s == <<"ANSWER_GENERATION", "OUTPUT_VALIDATION">>
    <3>1. todo' = s \o rest
      BY <1>a, <2>2 DEF Again
    <3>2. s \o rest # <<>> /\ Head(s \o rest) = "ANSWER_GENERATION"
      <4>1. Spans(s, "ANSWER_GENERATION", "OUTPUT_VALIDATION")
        BY Fronts
      <4> HIDE DEF s
      <4> QED
        BY <1>2, <4>1, SpansJoined
    <3> QED
      BY <3>1, <3>2
  <2>3. CASE accepted /\ action = "retry_transient_failure"
    <3> DEFINE s == <<"ACTION", "OUTPUT_VALIDATION">>
    <3>1. todo' = s \o rest
      BY <1>a, <2>3 DEF Again
    <3>2. s \o rest # <<>> /\ Head(s \o rest) = "ACTION"
      <4>1. Spans(s, "ACTION", "OUTPUT_VALIDATION")
        BY Fronts
      <4> HIDE DEF s
      <4> QED
        BY <1>2, <4>1, SpansJoined
    <3> QED
      BY <3>1, <3>2
  <2>4. CASE ~accepted \/ action \in {"abstain", "none"}
    <3>1. todo' = rest
      BY <1>a, <2>1, <2>4 DEF Again
    <3> QED
      BY <1>2, <3>1
  <2> QED
    BY <1>1, <2>2, <2>3, <2>4
<1>5. Head(todo') \in Phases \ Judges
  BY <1>4, PhaseNames DEF Judges
<1> QED
  BY <1>0, <1>3, <1>4, <1>5, PhaseNames, Elsewhere

LEMMA NumbersReflection ==
    ASSUME IInv, Numbers, Risks, Reflection
    PROVE  Numbers' /\ Risks'
<1> DEFINE p == "REFLECTION"
           rest == Tail(todo)
           reflection == {Reflected(ReflectionContext)}
           reason == Failure(ReflectionContext)
<1>0. In(p) /\ UNCHANGED <<history, committed, request>>
  BY DEF Reflection, shared, stores
<1>a. PICK advice :
          IF Accepted(advice)
          THEN /\ context' = [Consumed([context EXCEPT !.reflected = reflection], advice.action) EXCEPT
                                 !.reason = IF advice.action = "replan" THEN reason ELSE @]
               /\ todo' = (IF advice.action = "replan" THEN <<>> ELSE <<"EVIDENCE_ACQUISITION">>)
                          \o Judging \o <<"REFLECTION">> \o Tail(todo)
          ELSE context' = [context EXCEPT !.reflected = reflection] /\ todo' = Tail(todo)
  BY DEF Reflection
<1> HIDE DEF reflection, reason
<1>2. Rest(rest) /\ rest # <<>> /\ Head(rest) = "ACTION" /\ Head(rest) \in Behind(p)
  <2>1. Rest(todo) /\ todo # <<>> /\ Head(todo) = p
    BY <1>0 DEF IInv, Shaped, In
  <2>2. Rest(rest) /\ rest # <<>> /\ Head(rest) \in Behind(p)
    BY <2>1, Following
  <2> QED
    BY <2>1, <2>2 DEF Behind
<1>3. /\ context'.decision = context.decision
      /\ context'.emotional = context.emotional /\ context'.update = context.update
  <2>1. CASE Accepted(advice)
    <3> DEFINE first == [context EXCEPT !.reflected = reflection]
               next == Consumed(first, advice.action)
    <3>1. DOMAIN context = DOMAIN Blank
      BY DEF IInv, Shaped
    <3>2. DOMAIN first = DOMAIN Blank /\ first.decision = context.decision
          /\ first.emotional = context.emotional /\ first.update = context.update
      BY <3>1 DEF Blank
    <3> HIDE DEF first
    <3>3. PICK i, r, n : next = [first EXCEPT !.interventions = i, !.retrievals = r, !.replans = n]
      BY DEF Consumed
    <3>4. context' = [next EXCEPT !.reason = IF advice.action = "replan" THEN reason ELSE @]
      BY <1>a, <2>1 DEF first
    <3> HIDE DEF next
    <3> QED
      BY <3>2, <3>3, <3>4 DEF Blank
  <2>2. CASE ~Accepted(advice)
    BY <1>a, <2>2 DEF IInv, Shaped, Blank
  <2> QED
    BY <2>1, <2>2
<1>4. todo' # <<>> /\ Head(todo') \in {"PLANNING", "ACTION", "EVIDENCE_ACQUISITION"}
  <2>1. CASE Accepted(advice) /\ advice.action = "replan"
    <3>1. <<>> \o Judging = Judging
      BY JudgingPath DEF Path
    <3>2. todo' = Revise \o rest
      BY <1>a, <2>1, <3>1 DEF Revise
    <3>3. Spans(Revise, "PLANNING", "REFLECTION")
      BY Fronts
    <3>4. Revise \o rest # <<>> /\ Head(Revise \o rest) = "PLANNING"
      BY <1>2, <3>3, SpansJoined
    <3> QED
      BY <3>2, <3>4
  <2>2. CASE Accepted(advice) /\ advice.action # "replan"
    <3>2. todo' = RetrieveRevise \o rest
      BY <1>a, <2>2 DEF RetrieveRevise
    <3>3. Spans(RetrieveRevise, "EVIDENCE_ACQUISITION", "REFLECTION")
      BY Fronts
    <3>4. RetrieveRevise \o rest # <<>> /\ Head(RetrieveRevise \o rest) = "EVIDENCE_ACQUISITION"
      BY <1>2, <3>3, SpansJoined
    <3> QED
      BY <3>2, <3>4
  <2>3. CASE ~Accepted(advice)
    BY <1>2, <1>a, <2>3
  <2> QED
    BY <2>1, <2>2, <2>3
<1>5. Head(todo') \in Phases \ Judges
  BY <1>4, PhaseNames DEF Judges
<1> QED
  BY <1>0, <1>3, <1>4, <1>5, PhaseNames, Elsewhere

(* The planning context of a turn is one of numbers.                         *)
LEMMA SeverityIs ==
    ASSUME NEW signals, Signalling(signals)
    PROVE  Max({0} \cup {s[2] : s \in signals}) \in Int
<1> DEFINE S == {0} \cup {s[2] : s \in signals}
<1>1. 0 \in 0 .. One
  BY DEF One
<1>2. S \subseteq 0 .. One /\ S # {}
  BY <1>1 DEF Signalling
<1> HIDE DEF S
<1>3. Max(S) \in S
  BY <1>2, LargestScore
<1>4. Max(S) \in 0 .. One
  BY <1>2, <1>3
<1> QED
  BY <1>4 DEF S

LEMMA TypedContext ==
    ASSUME request \in Requests, context.found \in Founds, Updated(context.update)
    PROVE  /\ Typed(PlanningContext) /\ PlanningContext.priors = TRUE
           /\ PlanningContext.stated = Settled[request.session].stated
<1> DEFINE c == PlanningContext
<1>1. request.session \in Sessions
  BY RequestsAssumption
<1>2. c.explicit \in Int
  <2>1. Settled[request.session].explicit \in Int
    BY <1>1, SettledAssumption
  <2> QED
    BY <2>1 DEF PlanningContext
<1>3. c.retrieval \in Int /\ c.ambiguity \in Int
  <2>1. context.found.confidence \in Int /\ context.found.ambiguity \in Int
    BY FoundsAssumption
  <2>2. Or(context.found.confidence, 0) \in Int
    BY <2>1, ClampedIn DEF Or, One
  <2> QED
    BY <2>1, <2>2 DEF PlanningContext
<1>4. c.severity \in Int
  <2>1. Max({0} \cup {s[2] : s \in context.update.signals}) \in Int
    BY SeverityIs DEF Updated
  <2> QED
    BY <2>1 DEF PlanningContext
<1>5. c.dissonance \in Int /\ c.profile \in Int
  <2>1. context.update.dissonance \in Int /\ context.update.profile.confidence \in Int
    BY Scorings DEF Updated
  <2> QED
    BY <2>1 DEF PlanningContext
<1>6. c.priors = TRUE /\ c.stated = Settled[request.session].stated
  BY DEF PlanningContext
<1> QED
  BY <1>2, <1>3, <1>4, <1>5, <1>6 DEF Typed

LEMMA TooledIs ==
    ASSUME NEW ctx, NEW actions, NEW reason, NEW revision, Modest(Plan(ctx, actions, reason, revision))
    PROVE  Modest(Tooled(Plan(ctx, actions, reason, revision)))
<1> DEFINE plan == Plan(ctx, actions, reason, revision)
           made == Tooled(plan)
<1>1. made.actions = plan.actions /\ made.confidence = plan.confidence /\ made.constraints = plan.constraints
  BY DEF Tooled, Plan
<1> HIDE DEF made, plan
<1>2. Modest(made)
  BY <1>1 DEF Modest, plan
<1> QED
  BY <1>2 DEF made, plan

LEMMA NumbersPlanning ==
    ASSUME IInv, Numbers, Risks, Planning
    PROVE  Numbers' /\ Risks'
<1> DEFINE p == "PLANNING"
           made == Tooled(IF context.plan # Absent /\ context.reason # "none"
                          THEN replan(PlanningContext, context.plan, context.reason)
                          ELSE create_plan(PlanningContext))
<1>0. /\ In(p) /\ todo' = Tail(todo) /\ UNCHANGED <<history, committed, request>>
      /\ context' = [context EXCEPT !.reason = "none", !.plan = made]
  BY DEF Planning, Computes, shared, stores
<1>1. todo' # <<>> /\ Head(todo') = "WORLD_SIMULATION" /\ request \in Requests
  BY <1>0, Passed DEF Behind
<1>2. /\ context'.decision = context.decision /\ context'.plan = made
      /\ context'.emotional = context.emotional /\ context'.update = context.update
  <2> HIDE DEF made
  <2> QED
    BY <1>0 DEF IInv, Shaped, Blank
<1>3. ASSUME Free PROVE Modest(made)
  <2>1. Facing(Phases \ Opening) /\ Facing(Phases \ {"AFFECT"})
    BY <1>0, PhaseNames DEF Facing, In, Opening
  <2>2. context.found \in Founds /\ Updated(context.update)
    BY <2>1 DEF IInv, Evidence, Numbers
  <2> DEFINE c == PlanningContext
  <2>3. Typed(c) /\ c.priors = TRUE /\ c.stated = <<>>
    BY <1>1, <1>3, <2>2, TypedContext DEF Free
  <2> HIDE DEF c
  <2>4. \A reason, revision : Modest(Tooled(Plan(c, Actions(c, reason), reason, revision)))
    BY <2>3, PlanIs, TooledIs
  <2>5. Modest(Tooled(replan(c, context.plan, context.reason)))
    BY <2>4 DEF replan
  <2>6. Modest(Tooled(create_plan(c)))
    BY <2>4 DEF create_plan
  <2> QED
    BY <2>5, <2>6 DEF c
<1> HIDE DEF made
<1>4. Numbers'
  BY <1>0, <1>1, <1>2, PhaseNames, NumbersLast DEF In
<1>5. Risks'
  <2>1. ~Facing({"UNCERTAINTY_ESTIMATION", "EXECUTION_DECISION"})'
    BY <1>1 DEF Facing
  <2>2. Free' <=> Free
    BY <1>0 DEF Free
  <2>3. (Facing({"WORLD_SIMULATION"}) /\ Free => Modest(context.plan))'
    BY <1>2, <1>3, <2>2
  <2>4. DenialIsFromConstraints'
    BY <1>0, <1>2 DEF Risks, DenialIsFromConstraints
  <2> QED
    BY <2>1, <2>3, <2>4 DEF Risks
<1> QED
  BY <1>4, <1>5

LEMMA NumbersSimulation ==
    ASSUME IInv, Numbers, Risks, WorldSimulation
    PROVE  Numbers' /\ Risks'
<1> DEFINE p == "WORLD_SIMULATION"
           made == simulate(context.plan, Settled[request.session], Policy)
<1>0. /\ In(p) /\ todo' = Tail(todo) /\ UNCHANGED <<history, committed, request>>
      /\ context' = [context EXCEPT !.prediction = made]
  BY DEF WorldSimulation, Computes, shared, stores
<1>1. todo' # <<>> /\ Head(todo') = "UNCERTAINTY_ESTIMATION" /\ request \in Requests
  BY <1>0, Passed DEF Behind
<1>2. /\ context'.decision = context.decision /\ context'.prediction = made
      /\ context'.emotional = context.emotional /\ context'.update = context.update
  <2> HIDE DEF made
  <2> QED
    BY <1>0 DEF IInv, Shaped, Blank
<1>3. ASSUME Free PROVE made.risk \in Int /\ made.risk < 750
  <2>1. Modest(context.plan)
    BY <1>0, <1>3 DEF Risks, Facing, In
  <2>2. request.session \in Sessions
    BY <1>1, RequestsAssumption
  <2>3. Settled[request.session].overall \in Int /\ Settled[request.session].explicit \in Int
    BY <2>2, SettledAssumption
  <2> QED
    BY <2>1, <2>3, SimulateIs
<1> HIDE DEF made
<1>4. Numbers'
  BY <1>0, <1>1, <1>2, PhaseNames, NumbersLast DEF In
<1>5. Risks'
  <2>1. ~Facing({"WORLD_SIMULATION"})'
    BY <1>1 DEF Facing
  <2>2. Free' <=> Free
    BY <1>0 DEF Free
  <2>3. (Free => context.prediction.risk \in Int /\ context.prediction.risk < 750)'
    BY <1>2, <1>3, <2>2
  <2>4. DenialIsFromConstraints'
    BY <1>0, <1>2 DEF Risks, DenialIsFromConstraints
  <2> QED
    BY <2>1, <2>3, <2>4 DEF Risks
<1> QED
  BY <1>4, <1>5

LEMMA NumbersEstimation ==
    ASSUME IInv, Numbers, Risks, UncertaintyEstimation
    PROVE  Numbers' /\ Risks'
<1> DEFINE p == "UNCERTAINTY_ESTIMATION"
           made == estimate(CalibratedSignals(context.found, context.reflected, context.update, context.plan,
                                              Settled[request.session].overall, Policy))
<1>0. /\ In(p) /\ todo' = Tail(todo) /\ UNCHANGED <<history, committed, request>>
      /\ context' = [context EXCEPT !.estimated = made]
  BY DEF UncertaintyEstimation, Computes, shared, stores
<1> HIDE DEF made
<1>1. todo' # <<>> /\ Head(todo') = "EXECUTION_DECISION"
  BY <1>0, Passed DEF Behind
<1>2. /\ context'.decision = context.decision /\ context'.prediction = context.prediction
      /\ context'.emotional = context.emotional /\ context'.update = context.update
  BY <1>0 DEF IInv, Shaped, Blank
<1>4. Numbers'
  BY <1>0, <1>1, <1>2, PhaseNames, NumbersLast DEF In
<1>5. Risks'
  <2>1. ~Facing({"WORLD_SIMULATION"})'
    BY <1>1 DEF Facing
  <2>2. Free' <=> Free
    BY <1>0 DEF Free
  <2>3. Free => context.prediction.risk \in Int /\ context.prediction.risk < 750
    BY <1>0 DEF Risks, Facing, In
  <2>4. (Free => context.prediction.risk \in Int /\ context.prediction.risk < 750)'
    BY <1>2, <2>2, <2>3
  <2>5. DenialIsFromConstraints'
    BY <1>0, <1>2 DEF Risks, DenialIsFromConstraints
  <2> QED
    BY <2>1, <2>4, <2>5 DEF Risks
<1> QED
  BY <1>4, <1>5

(* The gate denies for the risk alone.                                       *)
LEMMA GateDenies ==
    ASSUME NEW estimated, NEW risk \in Int, risk < 750, NEW retries
    PROVE  evaluate(estimated, risk, retries, FALSE) # "abstain"
BY DEF evaluate, GatePolicy

LEMMA NumbersDecision ==
    ASSUME IInv, Numbers, Risks, ExecutionDecision
    PROVE  Numbers' /\ Risks'
<1> DEFINE p == "EXECUTION_DECISION"
           rest == Tail(todo)
<1>0. In(p) /\ UNCHANGED <<history, committed, request>>
  BY DEF ExecutionDecision, shared, stores
<1>a. PICK d :
          d = evaluate(context.estimated, context.prediction.risk, context.retries, FALSE) /\
          LET again == d = "retry_retrieval" /\ context.retries < GatePolicy.retries
          IN  /\ context' = [context EXCEPT !.decision = d, !.retries = IF again THEN @ + 1 ELSE @]
              /\ todo' = (IF again THEN <<"EVIDENCE_ACQUISITION">> \o Judging ELSE <<>>) \o Tail(todo)
  BY DEF ExecutionDecision
<1> DEFINE again == d = "retry_retrieval" /\ context.retries < GatePolicy.retries
<1>1. Rest(rest) /\ rest # <<>> /\ Head(rest) = "REFLECTION" /\ Head(rest) \in Behind(p)
  <2>1. Rest(todo) /\ todo # <<>> /\ Head(todo) = p
    BY <1>0 DEF IInv, Shaped, In
  <2>2. Rest(rest) /\ rest # <<>> /\ Head(rest) \in Behind(p)
    BY <2>1, Following
  <2> QED
    BY <2>1, <2>2 DEF Behind
<1>2. /\ context'.decision = d
      /\ context'.emotional = context.emotional /\ context'.update = context.update
  BY <1>a DEF IInv, Shaped, Blank
<1>3. Free => d # "abstain"
  <2>1. Free => context.prediction.risk \in Int /\ context.prediction.risk < 750
    BY <1>0 DEF Risks, Facing, In
  <2> QED
    BY <1>a, <2>1, GateDenies
<1>4. todo' # <<>> /\ Head(todo') \in {"EVIDENCE_ACQUISITION", "REFLECTION"}
  <2>1. CASE again
    <3>1. todo' = Retrieve \o rest
      BY <1>a, <2>1 DEF Retrieve
    <3>2. Spans(Retrieve, "EVIDENCE_ACQUISITION", "EXECUTION_DECISION")
      BY Fronts
    <3>3. Retrieve \o rest # <<>> /\ Head(Retrieve \o rest) = "EVIDENCE_ACQUISITION"
      BY <1>1, <3>2, SpansJoined
    <3> QED
      BY <3>1, <3>3
  <2>2. CASE ~again
    <3>1. rest \in Seq(Phases)
      BY <1>1 DEF Rest, Path
    <3>2. todo' = <<>> \o rest
      BY <1>a, <2>2
    <3> HIDE DEF rest, again
    <3>3. todo' = rest
      BY <3>1, <3>2
    <3> QED
      BY <1>1, <3>3
  <2> QED
    BY <2>1, <2>2
<1>5. Numbers'
  BY <1>0, <1>2, <1>4, PhaseNames, NumbersLast DEF In
<1>6. Risks'
  <2>1. ~Facing({"WORLD_SIMULATION"})' /\ ~Facing({"UNCERTAINTY_ESTIMATION", "EXECUTION_DECISION"})'
    BY <1>4 DEF Facing
  <2>2. DenialIsFromConstraints'
    BY <1>0, <1>2, <1>3 DEF Free, DenialIsFromConstraints
  <2> QED
    BY <2>1, <2>2 DEF Risks
<1> QED
  BY <1>5, <1>6

LEMMA NumbersRest ==
    ASSUME Numbers, Risks, UNCHANGED vars
    PROVE  Numbers' /\ Risks'
<1>1. UNCHANGED <<committed, history, request, todo, context>>
  BY DEF vars, stores, shared
<1> QED
  BY <1>1 DEF Numbers, Risks, Facing, Free, DenialIsFromConstraints

(* The numbers and the risks stay what they should be.                       *)
LEMMA NumbersKept == Spec => [](Numbers /\ Risks)
<1>1. Init => Numbers /\ Risks
  BY NumbersBegin
<1>2. IInv /\ (Numbers /\ Risks) /\ [Next]_vars => (Numbers /\ Risks)'
  <2> SUFFICES ASSUME IInv, Numbers, Risks, [Next]_vars PROVE Numbers' /\ Risks'
    OBVIOUS
  <2>1. CASE StateLoad
    BY <2>1, NumbersLoad
  <2>2. CASE Skip
    BY <2>2, NumbersSkip
  <2>3. CASE Fails \/ MemoryCommit
    <3>1. todo' = <<>> /\ context' = Blank /\ UNCHANGED <<history, committed>>
      BY <2>3 DEF Fails, MemoryCommit, shared, stores
    <3> QED
      BY <3>1, NumbersEnd
  <2>4. CASE Affect
    BY <2>4, NumbersAffect
  <2>5. CASE EvidenceAcquisition
    BY <2>5, NumbersAcquire
  <2>6. CASE Planning
    BY <2>6, NumbersPlanning
  <2>7. CASE WorldSimulation
    BY <2>7, NumbersSimulation
  <2>8. CASE UncertaintyEstimation
    BY <2>8, NumbersEstimation
  <2>9. CASE ExecutionDecision
    BY <2>9, NumbersDecision
  <2>10. CASE Reflection
    BY <2>10, NumbersReflection
  <2>11. CASE Invoke
    BY <2>11, NumbersInvoke
  <2>12. CASE Action
    BY <2>12, NumbersAction
  <2>13. CASE AnswerGeneration
    BY <2>13, NumbersAnswer
  <2>14. CASE OutputValidation
    BY <2>14, NumbersValidate
  <2>15. CASE Output
    BY <2>15, NumbersOutput
  <2>16. CASE StateCommit
    BY <2>16, NumbersCommit
  <2>17. CASE Done \/ UNCHANGED vars
    BY <2>17, NumbersRest DEF Done
  <2> QED
    BY <2>1, <2>2, <2>3, <2>4, <2>5, <2>6, <2>7, <2>8, <2>9, <2>10, <2>11, <2>12, <2>13, <2>14, <2>15,
       <2>16, <2>17 DEF Next
<1> QED
  BY <1>1, <1>2, Invariance, PTL DEF Spec

-----------------------------------------------------------------------------
(* What is stored. *)

(* The notes there can be: finite sets of tokens.                            *)
NoteSets == {n \in SUBSET STRING : IsFiniteSet(n)}

(* The memory is a list of them.                                             *)
Notes == memory \in Seq(NoteSets)

LEMMA NotesBegin == Init => Notes
<1> SUFFICES ASSUME Init PROVE Notes
  OBVIOUS
<1>1. memory \in Seq(SUBSET STRING) /\ \A i \in DOMAIN memory : IsFiniteSet(memory[i])
  BY MemoriesAssumption DEF Init
<1>2. PICK n \in Nat : n = Len(memory) /\ DOMAIN memory = 1 .. n
  BY <1>1, LenProperties
<1>3. ASSUME NEW i \in 1 .. n PROVE memory[i] \in NoteSets
  <2>1. memory[i] \in SUBSET STRING
    BY <1>1, <1>2, ElementOfSeq
  <2> QED
    BY <1>1, <1>2, <2>1 DEF NoteSets
<1>4. memory \in [1 .. n -> NoteSets]
  BY <1>1, <1>2, <1>3
<1> QED
  BY <1>4 DEF Notes

LEMMA NotesKept ==
    ASSUME IInv, Notes, [Next]_vars
    PROVE  Notes'
<1>1. CASE memory' = memory
  BY <1>1 DEF Notes
<1>2. CASE MemoryCommit /\ memory' # memory
  <2>1. memory' = memory \o <<request.text.words, Answer>>
    BY <1>2 DEF MemoryCommit
  <2>2. request \in Requests
    BY <1>2 DEF IInv, Shaped, MemoryCommit, In
  <2>3. PICK w \in NoteSets, a \in NoteSets : w = request.text.words /\ a = Answer
    <3>1. request.text.words \in NoteSets /\ Answer \in NoteSets
      BY <2>2, RequestsAssumption, MemoriesAssumption DEF NoteSets
    <3> QED
      BY <3>1
  <2>4. <<w, a>> \in Seq(NoteSets)
    OBVIOUS
  <2>5. memory \o <<w, a>> \in Seq(NoteSets)
    BY <2>4, ConcatProperties DEF Notes
  <2> QED
    BY <2>1, <2>3, <2>5 DEF Notes
<1> QED
  BY <1>1, <1>2 DEF Next, vars, stores, StateLoad, Skip, Fails, Affect, EvidenceAcquisition, Planning,
     WorldSimulation, UncertaintyEstimation, ExecutionDecision, Reflection, Invoke, Action,
     AnswerGeneration, OutputValidation, Output, StateCommit, Computes, Done

(* The overlap of a text with a note, and with itself.                       *)
LEMMA OverlapIs ==
    ASSUME NEW w, IsFiniteSet(w), w # {}, NEW n, IsFiniteSet(n)
    PROVE  /\ Overlap(w, n) \in 0 .. One
           /\ w = n => Overlap(w, n) = One
<1>1. IsFiniteSet(w \cup n) /\ IsFiniteSet(w \cap n)
  BY FS_Union, FS_Intersection
<1>2. PICK u \in Nat, c \in Nat : u = Cardinality(w \cup n) /\ c = Cardinality(w \cap n)
  BY <1>1, FS_CardinalityType
<1>3. u # 0
  BY <1>1, <1>2, FS_EmptySet
<1>4. c <= u
  BY <1>1, <1>2, FS_Subset
<1>5. PICK o \in Int : o = 1
  OBVIOUS
<1>6. Max({o, u}) = u
  <2>1. Max({o, u}) = IF o >= u THEN o ELSE u
    BY Extremes
  <2> QED
    BY <1>3, <1>5, <2>1
<1>7. Overlap(w, n) = (One * c) \div u
  BY <1>2, <1>5, <1>6, Zenon DEF Overlap
<1>8. /\ (1000 * c) \div u \in Int
      /\ 0 <= (1000 * c) \div u /\ (1000 * c) \div u <= 1000
      /\ c = u => (1000 * c) \div u = 1000
  <2>1. PICK s \in Int : s = 1000 * c
    OBVIOUS
  <2>2. u \in Nat \ {0} /\ 0 * u <= s /\ s <= 1000 * u
    BY <1>3, <1>4, <2>1
  <2>3. s \div u \in Int /\ 0 <= s \div u /\ s \div u <= 1000
    BY <2>2, Quotients
  <2>4. ASSUME c = u PROVE s \div u = 1000
    <3>1. 1000 * u <= s /\ s <= 1000 * u
      BY <2>1, <2>4
    <3>2. s \div u \in Int /\ 1000 <= s \div u /\ s \div u <= 1000
      BY <2>2, <3>1, Quotients
    <3> QED
      BY <3>2
  <2> QED
    BY <2>1, <2>3, <2>4
<1>9. w = n => c = u
  <2>1. w = n => w \cup n = w \cap n
    OBVIOUS
  <2> QED
    BY <1>2, <2>1
<1>10. PICK q \in Int : q = (One * c) \div u
  BY <1>8 DEF One
<1>11. q \in 0 .. One /\ (c = u => q = One)
  BY <1>8, <1>10 DEF One
<1> QED
  BY <1>7, <1>9, <1>10, <1>11, Zenon

(* A text that is one of the notes has nothing new.                          *)
LEMMA NothingNew ==
    ASSUME NEW words, NEW nearest, words \in nearest, \A n \in nearest : IsFiniteSet(n)
    PROVE  novelty_score(words, nearest) = 0
<1>1. CASE words = {}
  BY <1>1 DEF novelty_score
<1>2. CASE words # {}
  <2> DEFINE S == {Overlap(words, note) : note \in nearest}
  <2>1. novelty_score(words, nearest) = One - Max(S)
    BY <1>2 DEF novelty_score
  <2>2. S \subseteq 0 .. One
    BY <1>2, OverlapIs, Zenon
  <2>3. One \in S
    BY <1>2, OverlapIs, Zenon
  <2> HIDE DEF S
  <2>4. PICK lo \in Int, hi \in Int : lo = 0 /\ hi = One
    BY DEF One
  <2>5. S \in SUBSET (lo .. hi) /\ S # {}
    BY <2>2, <2>3, <2>4
  <2>6. Max(S) \in S /\ \A y \in S : Max(S) >= y
    BY <2>5, Largest
  <2>7. PICK m \in 0 .. One : m = Max(S)
    BY <2>2, <2>6
  <2>8. m >= One
    BY <2>3, <2>6, <2>7
  <2>9. One - m = 0
    BY <2>8 DEF One
  <2>10. novelty_score(words, nearest) = One - m
    BY <2>1, <2>7
  <2> QED
    BY <2>9, <2>10, Zenon
<1> QED
  BY <1>1, <1>2

(* The other parts of the importance are scores.                             *)
LEMMA FeltScoreIs ==
    ASSUME NEW text, IsFiniteSet(text.strong), NEW update, Updated(update)
    PROVE  emotional_salience_score(text, update) \in 0 .. One
<1>1. PICK k \in Nat : k = Cardinality(text.strong)
  BY FS_CardinalityType
<1>2. PICK j \in Int : j = (One * k) \div 3
  BY DEF One
<1>3. PICK s \in Int : s = IF update.salience # 0 THEN update.salience ELSE Within(j)
  <2>1. Within(j) \in Int
    BY ClampedIn
  <2>2. update.salience \in Int
    BY Scorings DEF Updated
  <2> QED
    BY <2>1, <2>2
<1>4. PICK c \in Int : c = update.profile.confidence
  BY Scorings DEF Updated
<1>5. PICK a \in Int : a = Abs(update.emotional.pad[2])
  <2>1. 2 \in 1 .. 3
    OBVIOUS
  <2>2. update.emotional.pad \in Pads
    BY DEF Updated
  <2>3. PICK p \in Int : p = update.emotional.pad[2]
    BY <2>1, <2>2, PadInt
  <2>4. Abs(p) \in Int
    BY DEF Abs
  <2> QED
    BY <2>3, <2>4
<1>6. PICK e \in Int : e = EmotionWeight(update.profile.dominant)
  BY DEF EmotionWeight
<1>7. PICK w \in Int : w = Percent(45, s)
  BY Parts
<1>8. PICK x \in Int : x = Percent(25, c)
  BY Parts
<1>9. PICK y \in Int : y = Percent(20, a)
  BY Parts
<1>10. PICK z \in Int : z = Percent(10, e)
  BY Parts
<1>11. emotional_salience_score(text, update) = Within(100 + w + x + y + z)
  BY <1>1, <1>2, <1>3, <1>4, <1>5, <1>6, <1>7, <1>8, <1>9, <1>10, Zenon DEF emotional_salience_score
<1>12. PICK v \in Int : v = 100 + w + x + y + z
  OBVIOUS
<1>13. Within(v) \in 0 .. One
  BY ClampedIn
<1> QED
  BY <1>11, <1>12, <1>13, Zenon

LEMMA RelevanceIs ==
    ASSUME NEW text, text.relevance \subseteq DOMAIN RelevanceOf
    PROVE  user_relevance_score(text) \in 0 .. One
<1> DEFINE S == text.relevance
           f == [d \in S |-> RelevanceOf[d]]
           h == CHOOSE h : h = [T \in SUBSET S |-> IF T = {} THEN 0
                   ELSE LET x == CHOOSE x \in T : TRUE IN RelevanceOf[x] + h[T \ {x}]]
<1>1. DOMAIN RelevanceOf = {"term", "first_person", "wish", "low"}
  BY DEF RelevanceOf
<1>2. IsFiniteSet(S)
  <2>1. IsFiniteSet({"term"}) /\ IsFiniteSet({"first_person"}) /\ IsFiniteSet({"wish"}) /\ IsFiniteSet({"low"})
    BY FS_Singleton
  <2>2. IsFiniteSet(({"term"} \cup {"first_person"}) \cup ({"wish"} \cup {"low"}))
    BY <2>1, FS_Union
  <2>3. S \subseteq ({"term"} \cup {"first_person"}) \cup ({"wish"} \cup {"low"})
    BY <1>1
  <2> QED
    BY <2>2, <2>3, FS_Subset
<1>3. \A d \in S : RelevanceOf[d] \in Int
  BY DEF RelevanceOf
<1>4. \A d \in S : f[d] \in Int
  BY <1>3
<1>5. ASSUME NEW x
      PROVE  Summing(x, f, S) <=> x = [T \in SUBSET S |-> IF T = {} THEN 0
                   ELSE RelevanceOf[Chosen(T)] + x[T \ {Chosen(T)}]]
  <2> DEFINE l(T) == IF T = {} THEN 0 ELSE f[Chosen(T)] + x[T \ {Chosen(T)}]
             r(T) == IF T = {} THEN 0 ELSE RelevanceOf[Chosen(T)] + x[T \ {Chosen(T)}]
  <2>1. ASSUME NEW T \in SUBSET S PROVE l(T) = r(T)
    <3>1. T # {} => Chosen(T) \in S
      BY DEF Chosen
    <3> QED
      BY <1>4, <3>1
  <2> HIDE DEF l, r
  <2>2. [T \in SUBSET S |-> l(T)] = [T \in SUBSET S |-> r(T)]
    BY <2>1
  <2> QED
    BY <2>2 DEF Summing, l, r
<1>6. Sums(h, f, S)
  <2>1. PICK g : Summing(g, f, S)
    <3> HIDE DEF f, S
    <3> QED
      BY <1>2, <1>4, SummingExists
  <2>2. g = [T \in SUBSET S |-> IF T = {} THEN 0
                   ELSE RelevanceOf[Chosen(T)] + g[T \ {Chosen(T)}]]
    BY <1>5, <2>1
  <2>3. \E k : k = [T \in SUBSET S |-> IF T = {} THEN 0
                   ELSE LET x == CHOOSE x \in T : TRUE IN RelevanceOf[x] + k[T \ {x}]]
    BY <2>2 DEF Chosen
  <2>4. h = [T \in SUBSET S |-> IF T = {} THEN 0
                   ELSE LET x == CHOOSE x \in T : TRUE IN RelevanceOf[x] + h[T \ {x}]]
    BY <2>3
  <2> HIDE DEF h
  <2>5. h = [T \in SUBSET S |-> IF T = {} THEN 0
                   ELSE RelevanceOf[Chosen(T)] + h[T \ {Chosen(T)}]]
    BY <2>4 DEF Chosen
  <2>6. Summing(h, f, S)
    BY <1>5, <2>5
  <2> QED
    BY <1>2, <1>4, <2>6, SummingSums
<1>7. h[S] \in Int
  <2> HIDE DEF h, f
  <2>1. S \in SUBSET S
    OBVIOUS
  <2> QED
    BY <1>6, <2>1 DEF Sums
<1>8. SumOver(S, LAMBDA r : RelevanceOf[r]) = h[S]
  BY DEF SumOver, MapThenSumSet, MapThenFoldSet
<1>9. user_relevance_score(text) = Within(h[S])
  <2>1. user_relevance_score(text) = Within(SumOver(S, LAMBDA r : RelevanceOf[r]))
    BY DEF user_relevance_score
  <2> HIDE DEF h, f
  <2> QED
    BY <1>8, <2>1
<1> HIDE DEF h, f
<1>10. Within(h[S]) \in 0 .. One
  BY <1>7, ClampedIn
<1> QED
  BY <1>9, <1>10, Zenon

(* One mention of five that count is a fifth.                                *)
LEMMA RecurrenceIs ==
    ASSUME NEW words, NEW notes \in Seq(NoteSets)
    PROVE  /\ Mentions(words, notes) \in Nat
           /\ Mentions(words, notes) < 2 => recurrence_score(words, notes) \in 0 .. 200
<1> DEFINE M == {i \in DOMAIN notes : (words \ RECURRENCE_STOPWORDS) \cap notes[i] # {}}
<1>1. PICK n \in Nat : DOMAIN notes = 1 .. n
  BY LenProperties
<1>2. IsFiniteSet(M)
  <2>1. M \subseteq 1 .. n
    BY <1>1
  <2>2. IsFiniteSet(1 .. n)
    BY FS_Interval
  <2> QED
    BY <2>1, <2>2, FS_Subset
<1>3. PICK m \in Nat : m = Mentions(words, notes)
  <2>1. Mentions(words, notes) = Cardinality(M)
    BY DEF Mentions
  <2> QED
    BY <1>2, <2>1, FS_CardinalityType
<1>4. ASSUME m < 2 PROVE recurrence_score(words, notes) \in 0 .. 200
  <2>1. PICK x \in Int : x = (1000 * m) \div 5 /\ 0 <= x /\ x <= 200
    BY <1>4
  <2>2. recurrence_score(words, notes) = Within(x)
    BY <1>3, <2>1 DEF recurrence_score, One
  <2>3. Within(x) = x
    BY <2>1, Clamps
  <2>4. x \in 0 .. 200
    BY <2>1
  <2> QED
    BY <2>2, <2>3, <2>4, Zenon
<1> QED
  BY <1>3, <1>4

LEMMA ReflectionIs ==
    ASSUME NEW reflected
    PROVE  reflection_score(reflected) \in 0 .. One
<1>1. CASE reflected = {}
  <2>1. 0 \in 0 .. One
    BY DEF One
  <2> QED
    BY <1>1, <2>1 DEF reflection_score
<1>2. CASE reflected # {}
  <2> DEFINE r == CHOOSE x \in reflected : TRUE
             R == {"low_confidence", "retrieval_ambiguity", "contradiction"}
  <2>1. IsFiniteSet(r.reasons \cap R)
    <3>1. /\ IsFiniteSet({"low_confidence"}) /\ IsFiniteSet({"retrieval_ambiguity"})
          /\ IsFiniteSet({"contradiction"})
      BY FS_Singleton
    <3>2. IsFiniteSet(({"low_confidence"} \cup {"retrieval_ambiguity"}) \cup {"contradiction"})
      BY <3>1, FS_Union
    <3>3. r.reasons \cap R \subseteq ({"low_confidence"} \cup {"retrieval_ambiguity"}) \cup {"contradiction"}
      OBVIOUS
    <3> QED
      BY <3>2, <3>3, FS_Subset
  <2>2. PICK k \in Nat : k = Cardinality(r.reasons \cap R)
    BY <2>1, FS_CardinalityType
  <2>3. PICK a \in Int, b \in Int, x \in Int :
            /\ a = IF r.should THEN 450 ELSE 0
            /\ b = IF r.should /\ r.lift >= 150 THEN 250 ELSE 0
            /\ x = a + b + 150 * k
    <3> HIDE DEF r
    <3>2. PICK a \in Int : a = IF r.should THEN 450 ELSE 0
      OBVIOUS
    <3>3. PICK b \in Int : b = IF r.should /\ r.lift >= 150 THEN 250 ELSE 0
      OBVIOUS
    <3>4. PICK x \in Int : x = a + b + 150 * k
      OBVIOUS
    <3> QED
      BY <3>2, <3>3, <3>4
  <2>6. reflection_score(reflected) = Within(x)
    BY <1>2, <2>2, <2>3 DEF reflection_score
  <2>7. Within(x) \in 0 .. One
    BY ClampedIn
  <2> HIDE DEF r, R
  <2> QED
    BY <2>6, <2>7, Zenon
<1> QED
  BY <1>1, <1>2

(* A repeated text is not kept on what it says, feels and reflected alone.   *)
LEMMA RepeatIsRecurrent ==
    ASSUME NEW text, IsFiniteSet(text.strong), text.relevance \subseteq DOMAIN RelevanceOf,
           NEW update, Updated(update), NEW reflected, NEW notes \in Seq(NoteSets),
           text.words \in ToSet(notes), decide(text, update, reflected, notes, ToSet(notes))
    PROVE  Mentions(text.words, notes) >= 2
<1>1. \A n \in ToSet(notes) : IsFiniteSet(n)
  <2>1. ASSUME NEW i \in DOMAIN notes PROVE IsFiniteSet(notes[i])
    <3>1. notes[i] \in NoteSets
      BY ElementOfSeq, LenProperties
    <3> QED
      BY <3>1 DEF NoteSets
  <2> QED
    BY <2>1 DEF ToSet
<1>2. novelty_score(text.words, ToSet(notes)) = 0
  BY <1>1, NothingNew
<1>3. PICK s \in Int : s = emotional_salience_score(text, update) /\ 0 <= s /\ s <= 1000
  <2>1. emotional_salience_score(text, update) \in 0 .. One
    BY FeltScoreIs
  <2>2. PICK y \in 0 .. One : y = emotional_salience_score(text, update)
    BY <2>1, Zenon
  <2> QED
    BY <2>2, Scorings
<1>4. PICK r \in Int : r = user_relevance_score(text) /\ 0 <= r /\ r <= 1000
  <2>1. user_relevance_score(text) \in 0 .. One
    BY RelevanceIs, Zenon
  <2>2. PICK y \in 0 .. One : y = user_relevance_score(text)
    BY <2>1, Zenon
  <2> QED
    BY <2>2, Scorings
<1>5. PICK l \in Int : l = reflection_score(reflected) /\ 0 <= l /\ l <= 1000
  <2>1. reflection_score(reflected) \in 0 .. One
    BY ReflectionIs, Zenon
  <2>2. PICK y \in 0 .. One : y = reflection_score(reflected)
    BY <2>1, Zenon
  <2> QED
    BY <2>2, Scorings
<1>6. SUFFICES ASSUME Mentions(text.words, notes) < 2 PROVE FALSE
  BY RecurrenceIs
<1>7. PICK c \in 0 .. 200 : c = recurrence_score(text.words, notes)
  BY <1>6, RecurrenceIs
<1>8. PICK o \in Int, x \in Int : o = 0 /\ x = Scaled(350, o) + Scaled(250, s) + Scaled(150, r)
                           + Scaled(150, c) + Scaled(100, l)
  <2>1. PICK o \in Int : o = 0
    OBVIOUS
  <2>2. PICK v \in Int : v = Scaled(350, o)
    BY Parts
  <2>3. PICK w \in Int : w = Scaled(250, s)
    BY Parts
  <2>4. PICK y \in Int : y = Scaled(150, r)
    BY Parts
  <2>5. PICK z \in Int : z = Scaled(150, c)
    BY Parts
  <2>6. PICK u \in Int : u = Scaled(100, l)
    BY Parts
  <2>7. PICK x \in Int : x = v + w + y + z + u
    OBVIOUS
  <2> QED
    BY <2>1, <2>2, <2>3, <2>4, <2>5, <2>6, <2>7
<1>9. x <= 530
  <2>b. 0 <= s /\ s <= 1000 /\ 0 <= r /\ r <= 1000 /\ 0 <= l /\ l <= 1000 /\ 0 <= c /\ c <= 200
    BY <1>3, <1>4, <1>5
  <2>1. PICK n \in Int : n = Scaled(350, o) /\ n = 0
    BY <1>8 DEF Scaled, One
  <2>2. PICK a \in Int : a = Scaled(250, s) /\ a <= 250
    BY <2>b DEF Scaled, One
  <2>3. PICK b \in Int : b = Scaled(150, r) /\ b <= 150
    BY <2>b DEF Scaled, One
  <2>4. PICK d \in Int : d = Scaled(150, c) /\ d <= 30
    BY <2>b DEF Scaled, One
  <2>5. PICK e \in Int : e = Scaled(100, l) /\ e <= 100
    BY <2>b DEF Scaled, One
  <2>6. x = n + a + b + d + e
    BY <1>8, <2>1, <2>2, <2>3, <2>4, <2>5
  <2>7. n = 0 /\ a <= 250 /\ b <= 150 /\ d <= 30 /\ e <= 100
    BY <2>1, <2>2, <2>3, <2>4, <2>5, Zenon
  <2> QED
    BY <2>6, <2>7
<1>10. Importance(text, update, reflected, notes, ToSet(notes)) = Within(x)
  <2>1. /\ Weights.novelty = 350 /\ Weights.emotional_salience = 250 /\ Weights.user_relevance = 150
        /\ Weights.recurrence = 150 /\ Weights.reflection = 100
    BY DEF Weights
  <2> QED
    BY <1>2, <1>3, <1>4, <1>5, <1>7, <1>8, <2>1 DEF Importance
<1>11. Within(x) = IF x < 0 THEN 0 ELSE IF x > 1000 THEN 1000 ELSE x
  BY Clamps
<1>12. Importance(text, update, reflected, notes, ToSet(notes)) >= 550
  BY DEF decide, Threshold
<1> QED
  BY <1>9, <1>10, <1>11, <1>12

LEMMA RepeatStep ==
    ASSUME IInv, Numbers, Notes, [Next]_vars
    PROVE  memory' # memory /\ request.text.words \in ToSet(memory)
              => Mentions(request.text.words, memory) >= 2
<1> SUFFICES ASSUME memory' # memory, request.text.words \in ToSet(memory)
             PROVE  Mentions(request.text.words, memory) >= 2
  OBVIOUS
<1>1. MemoryCommit
  BY DEF Next, vars, stores, StateLoad, Skip, Fails, Affect, EvidenceAcquisition, Planning,
     WorldSimulation, UncertaintyEstimation, ExecutionDecision, Reflection, Invoke, Action,
     AnswerGeneration, OutputValidation, Output, StateCommit, Computes, Done
<1>2. Admitted /\ In("MEMORY_COMMIT")
  BY <1>1 DEF MemoryCommit
<1>3. request \in Requests /\ Updated(context.update)
  <2>1. Facing(Phases \ {"AFFECT"}) /\ todo # <<>>
    BY <1>2, PhaseNames DEF In, Facing
  <2> QED
    BY <2>1 DEF IInv, Shaped, Numbers
<1>4. decide(request.text, context.update, context.reflected, memory, ToSet(memory))
  BY <1>2 DEF Admitted
<1> QED
  BY <1>3, <1>4, RequestsAssumption, RepeatIsRecurrent DEF Notes

-----------------------------------------------------------------------------
(* The theorems. *)

(* The pleasure, arousal, dominance and momentum every session has committed *)
(* are what its own texts make of them: DynamicAffectEngine is shared, but   *)
(* neither its history nor its last state is what a session's mood starts    *)
(* from. Volatility and stability do come from that history.                 *)
THEOREM KeepsMoods == Spec => []MoodIsOwn
<1>1. IInv => MoodIsOwn
  BY DEF IInv, Moods
<1> QED
  BY <1>1, Invariance, PTL

(* With a retrieval response that holds no results, no tool runs and no      *)
(* answer is generated before evidence was acquired again: whatever the      *)
(* other signals say, the gate sees the calibrated uncertainty of an empty   *)
(* response. It sees none of an acquisition without a response, and that     *)
(* one is not retried.                                                       *)
THEOREM RetriesNothing == Spec => []NothingFoundIsRetried
<1>1. IInv => NothingFoundIsRetried
  <2> SUFFICES ASSUME IInv, Acted, Responded(context.found), context.found.memories = 0
                      PROVE  context.acquisitions >= 2
    BY DEF NothingFoundIsRetried
  <2>1. todo # <<>> /\ Facing(Phases \ Opening)
    <3>1. todo # <<>>
      BY DEF IInv, Shaped, Acted, Blank
    <3>2. Head(todo) \in Phases
      BY <3>1 DEF IInv, Shaped, Rest, Path
    <3>3. ~Facing(Thinking)
      BY DEF IInv, Evidence
    <3> QED
      BY <3>1, <3>2, <3>3 DEF Facing, Thinking
  <2>2. Enough /\ context.found \in Founds /\ context.acquisitions >= context.retries + 1
    BY <2>1 DEF IInv, Evidence
  <2>3. context.retries >= 1
    BY <2>2, GapOfNothing DEF Enough
  <2> QED
    BY <2>2, <2>3 DEF IInv, Shaped, Counts
<1> QED
  BY <1>1, Invariance, PTL

(* A revision the correction loop accepted is what is executed or answered:  *)
(* the gate, asked again about the same evidence, cannot send the turn back  *)
(* to a retrieval and a plan from scratch.                                   *)
THEOREM KeepsRevision == Spec => []ReplanIsKept
<1>1. IInv => ReplanIsKept
  <2> SUFFICES ASSUME IInv, Acted, context.replans = 1 PROVE context.plan.revision = 1
    BY DEF ReplanIsKept
  <2>1. ~Facing({"PLANNING"})
    <3>1. ~Facing(Thinking)
      BY DEF IInv, Evidence
    <3> QED
      BY <3>1 DEF Facing, Thinking
  <2> QED
    BY <2>1 DEF IInv, Plans
<1> QED
  BY <1>1, Invariance, PTL

(* A stored procedure holds invocations the policy permits and whose handler *)
(* reported success, whichever of them were retried before.                  *)
THEOREM StoresVerified == Spec => []ProcedureIsVerified
<1>1. IInv => ProcedureIsVerified
  BY DEF IInv, Executions
<1> QED
  BY <1>1, Invariance, PTL

(* A plan is denied only in a session that states constraints of its own:    *)
(* whatever was retrieved, felt or planned, the risk the world model gives   *)
(* to a plan under the fixed constraints, and the policy's, stays under 0.75.*)
THEOREM DeniesForConstraints == Spec => []DenialIsFromConstraints
<1>1. Risks => DenialIsFromConstraints
  BY DEF Risks
<1> QED
  BY <1>1, NumbersKept, PTL

(* A turn that says what a stored note already says is stored again only if  *)
(* two notes mention it: however the text moves, concerns or occupies the    *)
(* system, without novelty that alone is less than the threshold.            *)
THEOREM RepeatsOnRecurrence == Spec => RepeatNeedsRecurrence
<1>1. Init => Notes
  BY NotesBegin
<1>2. IInv /\ Notes /\ [Next]_vars => Notes'
  BY NotesKept
<1>3. IInv /\ Numbers /\ Notes /\ [Next]_vars
         => [memory' # memory /\ request.text.words \in ToSet(memory)
               => Mentions(request.text.words, memory) >= 2]_vars
  BY RepeatStep
<1> QED
  BY <1>1, <1>2, <1>3, Invariance, NumbersKept, PTL DEF Spec, RepeatNeedsRecurrence
================================================================================
