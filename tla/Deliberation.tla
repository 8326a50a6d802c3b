----------------------------- MODULE Deliberation -----------------------------
(***************************************************************************)
(* The turns of several sessions through one PrimaRuntime, phase by phase, *)
(* with the values the phases compute: affect, evidence, plan, prediction, *)
(* uncertainty, gate, reflection, tools, validation and memory admission.  *)
(* The engine that walks the phases, with its retries, cancellation and    *)
(* every kind of advice, is the module Workflow; here a phase raises or    *)
(* not, and the advice is what these values lead to.                       *)
(*                                                                         *)
(* The sessions share the affect engine (its history and the last state it *)
(* computed), the repository, the policy and the tools. Turns follow one   *)
(* another: a history of the engine is what an interleaving leaves behind, *)
(* and InitialHistories holds several.                                     *)
(***************************************************************************)
EXTENDS Affect, Uncertainty, Reflection, ActionTools, MemoryImportance

CONSTANTS
    Settled,            \* each session's goal and confidence sections, which no phase changes
    Requests,           \* the turns that may arrive: session, text, task, and attached, the tools
                        \* a planner puts into the plan of it; TaskPlanner puts none
    ProfileOf(_),       \* the classifier: the profile of a text
    Founds,             \* what an acquisition of evidence may find, with or without a response
    Policy,             \* the execution policy
    Registry,           \* the registered tools
    InitialHistories,   \* histories of the affect engine to start from
    InitialMemories,    \* episodic memories to start from
    Answer,             \* the tokens of an answer
    MaxTurns            \* bound on the turns

Sessions == DOMAIN Settled

(* Turns come from sessions there are, with a list of tools and a finite     *)
(* text.                                                                     *)
ASSUME RequestsAssumption ==
    \A r \in Requests :
        /\ r.session \in Sessions
        /\ Len(r.attached) \in Nat /\ r.attached = [i \in 1 .. Len(r.attached) |-> r.attached[i]]
        /\ r.text.words \subseteq STRING /\ IsFiniteSet(r.text.words) /\ IsFiniteSet(r.text.strong)
        /\ r.text.relevance \subseteq DOMAIN RelevanceOf

(* What the estimator says of a retrieval without results; its scores. An    *)
(* acquisition without a retrieval response, because its only retrieval      *)
(* raised or the question was bypassed or unclear, has neither.              *)
ASSUME FoundsAssumption ==
    \A f \in Founds :
        /\ Responded(f) /\ f.memories = 0 => f.confidence = 0 /\ f.ambiguity = One /\ f.coverage = 0
        /\ ~Responded(f) => f.memories = 0 /\ f.ambiguity = 0
        /\ f.confidence \in Int /\ f.ambiguity \in Int

(* A state's confidences are numbers or None, which is one here.             *)
ASSUME SettledAssumption ==
    \A s \in Sessions : Settled[s].overall \in Int /\ Settled[s].explicit \in Int

(* The affect engine: three dimensions from -1 to 1, scores from 0 to 1.     *)
Pads == [1 .. 3 -> -One .. One]

ASSUME AffectAssumption ==
    /\ InitialHistories \subseteq Seq(Pads)
    /\ \A r \in Requests :
          /\ ProfileOf(r.text).pad \in Pads /\ ProfileOf(r.text).confidence \in 0 .. One
          /\ ProfileOf(r.text).emotions \in Seq(STRING \X (0 .. One))

(* Notes and answers are finite sets of tokens.                              *)
ASSUME MemoriesAssumption ==
    /\ \A m \in InitialMemories :
          m \in Seq(SUBSET STRING) /\ \A i \in DOMAIN m : IsFiniteSet(m[i])
    /\ Answer \subseteq STRING /\ IsFiniteSet(Answer)

VARIABLES
    committed,      \* each session's emotional section in the state manager
    history,        \* DynamicAffectEngine.history
    emotional,      \* DynamicAffectEngine.emotional_state
    memory,         \* the episodic notes, each the set of its tokens
    procedures,     \* the procedural notes, each the steps it was stored for
    request,        \* the request of the turn, or Absent
    todo,           \* the phases left
    context,        \* the execution context
    own,            \* history variable: each session's emotions of the turns it committed
    turns           \* the turns so far

shared == <<history, emotional>>
stores == <<committed, memory, procedures>>
vars == <<shared, stores, request, todo, context, own, turns>>

(* ----- the route ----- *)

UpToAction ==
    <<"AFFECT", "EVIDENCE_ACQUISITION", "PLANNING", "WORLD_SIMULATION", "UNCERTAINTY_ESTIMATION",
      "EXECUTION_DECISION", "REFLECTION", "ACTION">>

FromValidation == <<"OUTPUT_VALIDATION", "OUTPUT", "STATE_COMMIT", "MEMORY_COMMIT">>

(* A tool request is not answered by the model.                              *)
Route(task) ==
    UpToAction \o (IF task = "tool_request" THEN <<>> ELSE <<"ANSWER_GENERATION">>) \o FromValidation

(* Mutant: what follows a correction starts behind the plan.                 *)
JudgingOfOldPlan == <<"WORLD_SIMULATION", "UNCERTAINTY_ESTIMATION", "EXECUTION_DECISION">>

Judging == <<"PLANNING", "WORLD_SIMULATION", "UNCERTAINTY_ESTIMATION", "EXECUTION_DECISION">>

(* A result no phase has left yet, and no request.                           *)
Absent == [revision |-> None]

Blank ==
    [emotional |-> Calm, update |-> Absent, found |-> Absent, plan |-> Absent, prediction |-> Absent,
     estimated |-> Absent, decision |-> "none", reflected |-> {}, reason |-> "none", terminal |-> FALSE,
     steps |-> <<>>, status |-> "none", generation |-> "none", outcome |-> "failed",
     acquisitions |-> 0, retries |-> 0, interventions |-> 0, retrievals |-> 0, replans |-> 0]

Init ==
    /\ committed = [s \in Sessions |-> Calm]
    /\ history \in InitialHistories
    /\ emotional = Calm
    /\ memory \in InitialMemories
    /\ procedures = {}
    /\ request = Absent
    /\ todo = <<>>
    /\ context = Blank
    /\ own = [s \in Sessions |-> [pad |-> Zero, momentum |-> <<>>]]
    /\ turns = 0

(* A turn arrives and STATE_LOAD gives it a copy of the session's state.     *)
StateLoad ==
    /\ todo = <<>> /\ turns < MaxTurns
    /\ \E r \in Requests :
          /\ request' = r
          /\ todo' = Route(r.task)
          /\ context' = [Blank EXCEPT !.emotional = committed[r.session]]
    /\ turns' = turns + 1
    /\ UNCHANGED <<shared, stores, own>>

In(phase) == todo # <<>> /\ Head(todo) = phase

Withheld == {"ask_for_clarification", "abstain", "retry_retrieval"}

Skipped(phase) ==
    \/ phase = "REFLECTION" /\ context.decision # "reflect"
    \/ phase \in {"ACTION", "ANSWER_GENERATION"} /\ (context.terminal \/ context.decision \in Withheld)

Skip ==
    /\ todo # <<>> /\ Skipped(Head(todo))
    /\ todo' = Tail(todo)
    /\ UNCHANGED <<shared, stores, request, context, own, turns>>

(* A phase that leaves nothing but what it computed in the context.          *)
Computes(phase, computed) ==
    /\ In(phase)
    /\ todo' = Tail(todo)
    /\ \E c \in {computed} : context' = c
    /\ UNCHANGED <<shared, stores, request, own, turns>>

(* A phase that calls out raises on its last attempt: the execution fails.   *)
(* What it leaves in the engine's history stays there.                       *)
Fails ==
    /\ todo # <<>>
    /\ Head(todo) \in {"AFFECT", "EVIDENCE_ACQUISITION", "STATE_COMMIT", "MEMORY_COMMIT"}
    /\ todo' = <<>>
    /\ request' = Absent
    /\ context' = Blank
    /\ UNCHANGED <<shared, stores, own, turns>>

(* ----- affect ----- *)

(* Mutant: the engine starts from the last state it computed.                *)
StateSourceOfEngine == emotional

StateSource == context.emotional

(* The engine changes the emotional section in place, the shared history and *)
(* its own copy.                                                             *)
Affect ==
    /\ In("AFFECT")
    /\ \E u \in {process(ProfileOf(request.text), StateSource, history)} :
          /\ history' = u.history
          /\ emotional' = u.emotional
          /\ context' = [context EXCEPT !.emotional = u.emotional, !.update = u]
    /\ todo' = Tail(todo)
    /\ UNCHANGED <<stores, request, own, turns>>

(* ----- evidence, plan, prediction, uncertainty ----- *)

(* A retriever that raises ends the acquisition, not the phase: a first call *)
(* leaves no response, a later one that of the call before it.               *)
EvidenceAcquisition ==
    \E f \in Founds :
        Computes("EVIDENCE_ACQUISITION", [context EXCEPT !.found = f, !.acquisitions = @ + 1])

PlanningContext ==
    LET session == Settled[request.session]
        update  == context.update
    IN  [urgent |-> request.text.urgent, priority |-> session.priority, rank |-> session.rank,
         explicit |-> session.explicit, stated |-> session.stated, memories |-> context.found.memories,
         retrieval |-> Or(context.found.confidence, 0), ambiguity |-> context.found.ambiguity,
         priors |-> TRUE, severity |-> Max({0} \cup {s[2] : s \in update.signals}),
         dissonance |-> update.dissonance, profile |-> update.profile.confidence]

(* The tools of the plan: the first is that of the execution intent.         *)
Tooled(plan) ==
    IF request.attached = <<>> THEN plan ELSE [plan EXCEPT !.tool = request.attached[1].tool]

Planning ==
    Computes("PLANNING",
        [context EXCEPT !.reason = "none",
             !.plan = Tooled(IF @ # Absent /\ context.reason # "none"
                             THEN replan(PlanningContext, @, context.reason) ELSE create_plan(PlanningContext))])

WorldSimulation ==
    Computes("WORLD_SIMULATION",
        [context EXCEPT !.prediction = simulate(context.plan, Settled[request.session], Policy)])

UncertaintyEstimation ==
    Computes("UNCERTAINTY_ESTIMATION",
        [context EXCEPT !.estimated =
            estimate(CalibratedSignals(context.found, context.reflected, context.update, context.plan,
                                       Settled[request.session].overall, Policy))])

ExecutionDecision ==
    /\ In("EXECUTION_DECISION")
    /\ \E d \in {evaluate(context.estimated, context.prediction.risk, context.retries, FALSE)} :
          LET again == d = "retry_retrieval" /\ context.retries < GatePolicy.retries
          IN  /\ context' = [context EXCEPT !.decision = d, !.retries = IF again THEN @ + 1 ELSE @]
              /\ todo' = (IF again THEN <<"EVIDENCE_ACQUISITION">> \o Judging ELSE <<>>) \o Tail(todo)
    /\ UNCHANGED <<shared, stores, request, own, turns>>

(* ----- corrections ----- *)

(* CorrectionBudget. With one intervention an execution, advice that repeats *)
(* an earlier one is refused by the budget if not as a duplicate.            *)
Budget == [retrievals |-> 1, replans |-> 1, interventions |-> 1, confidence |-> 600]

Retrieving == {"revise_query", "broaden_query", "retry_transient_failure"}

(* Advice quotes the query, and is refused if it looks like an evaluation's. *)
Accepted(advice) ==
    /\ advice.trigger
    /\ ~request.text.telltale
    /\ advice.confidence >= Budget.confidence
    /\ context.interventions < Budget.interventions
    /\ advice.action \in Retrieving => context.retrievals + context.retries < Budget.retrievals
    /\ advice.action = "replan" => context.replans < Budget.replans

Consumed(c, action) ==
    [c EXCEPT !.interventions = @ + 1,
              !.retrievals = IF action \in Retrieving THEN @ + 1 ELSE @,
              !.replans = IF action = "replan" THEN @ + 1 ELSE @]

ReflectionContext ==
    LET sure  == IF Responded(context.found) THEN context.found.confidence ELSE One
        audit == 300 <= sure /\ sure < 550 /\ request.text.audit
    IN  [failure |-> "none", said |-> IF sure < 300 \/ audit THEN {"retrieval_failure"} ELSE {},
         severity |-> IF sure < 300 THEN 650 ELSE IF audit THEN 850 ELSE 150,
         retrieval |-> context.found.confidence, affect |-> context.update.profile.confidence, state |-> Settled[request.session].explicit,
         settled |-> TRUE, memories |-> context.found.memories,
         threshold |-> IF audit THEN 550 ELSE 300, audit |-> audit, reasoning |-> FALSE,
         dissonant |-> {s[2] : s \in {x \in context.update.signals :
                                       x[1] \in {"emotional_dissonance", "emotional_conflict"}}}]

(* What the workflow keeps of a reflection: its confidence, what the next    *)
(* estimate reads of it, and what the admission of the turn does.            *)
Reflected(ctx) ==
    [confidence |-> ReflectionConfidence(ctx), evidence |-> EvidenceStrength(ctx),
     relevance |-> Relevance(ctx), retrieval |-> Or(ctx.retrieval, One \div 2), state |-> StateSupport(ctx),
     should |-> ShouldReflect(ctx), lift |-> Utility(ctx), reasons |-> TriggerReasons(ctx)]

EventOf(stop) ==
    CASE stop \in {"no_new_evidence", "duplicate_query"} -> stop
      [] stop = "contradictory" -> "contradictory_evidence"
      [] OTHER -> IF context.prediction.violation >= 550 THEN "plan_constraint_violation" ELSE "low_confidence"

(* The reflection, its advice and, if that is accepted, the phases it adds.  *)
Reflection ==
    /\ In("REFLECTION") /\ ~Skipped("REFLECTION")
    /\ \E ctx \in {ReflectionContext} :
       \E advice \in {AdviceFor(EventOf(context.found.stop), ctx, <<>>)} :
       \E c \in {[context EXCEPT !.reflected = {Reflected(ctx)}]} :
          IF Accepted(advice)
          THEN /\ context' = [Consumed(c, advice.action) EXCEPT
                                 !.reason = IF advice.action = "replan" THEN Failure(ctx) ELSE @]
               /\ todo' = (IF advice.action = "replan" THEN <<>> ELSE <<"EVIDENCE_ACQUISITION">>)
                          \o Judging \o <<"REFLECTION">> \o Tail(todo)
          ELSE context' = c /\ todo' = Tail(todo)
    /\ UNCHANGED <<shared, stores, request, own, turns>>

(* ----- action, answer, validation ----- *)

(* One invocation of a plan's tools: refused, or handed to its handler.      *)
Invoke ==
    /\ In("ACTION") /\ ~Skipped("ACTION")
    /\ Len(context.steps) < Len(request.attached)
    /\ LET index      == Len(context.steps)
           invocation == request.attached[index + 1]
       IN  \E refusal \in {Refusal(invocation, index, Policy, Registry)} :
           \E did \in IF refusal = "none" THEN Behaviours ELSE {"refused"} :
              context' = [context EXCEPT !.steps = Append(@,
                  [tool |-> invocation.tool, did |-> did,
                   status |-> status_from_tool(IF refusal = "none" THEN StatusOf(did) ELSE refusal)])]
    /\ UNCHANGED <<shared, stores, request, todo, own, turns>>

Statuses ==
    IF request.attached = <<>> THEN internal_steps(context.plan.actions)
    ELSE {context.steps[i].status : i \in DOMAIN context.steps}

Action ==
    /\ In("ACTION") /\ ~Skipped("ACTION") /\ Len(context.steps) = Len(request.attached)
    /\ Computes("ACTION", [context EXCEPT !.status = aggregate_status(Statuses, context.plan.intent)])

AnswerGeneration ==
    /\ ~Skipped("ANSWER_GENERATION")
    /\ \E g \in {"answered", "failed"} : Computes("ANSWER_GENERATION", [context EXCEPT !.generation = g])

(* The first signal of the validator, as the action it proposes.             *)
Proposal ==
    CASE context.generation = "failed" -> "regenerate"
      [] context.generation # "failed" /\ context.status \in {"failed", "partial"} -> "retry_transient_failure"
      [] context.generation # "failed" /\ context.status = "blocked" -> "abstain"
      [] OTHER -> "none"

Again(action) ==
    CASE action = "regenerate" -> <<"ANSWER_GENERATION", "OUTPUT_VALIDATION">>
      [] action = "retry_transient_failure" -> <<"ACTION", "OUTPUT_VALIDATION">>
      [] OTHER -> <<>>

(* A retried action runs every invocation of the plan again.                 *)
OutputValidation ==
    /\ In("OUTPUT_VALIDATION")
    /\ LET action == Proposal
       IN  IF action # "none" /\ Accepted([trigger |-> TRUE, action |-> action, confidence |-> 900])
           THEN /\ context' = [Consumed(context, action) EXCEPT
                                  !.terminal = (action = "abstain"),
                                  !.steps = IF action = "retry_transient_failure" THEN <<>> ELSE @]
                /\ todo' = Again(action) \o Tail(todo)
           ELSE /\ todo' = Tail(todo)
                /\ UNCHANGED context
    /\ UNCHANGED <<shared, stores, request, own, turns>>

(* ----- output and commits ----- *)

Output ==
    Computes("OUTPUT", [context EXCEPT !.outcome =
        IF context.terminal \/ context.decision \in Withheld THEN "abstained"
        ELSE IF context.generation # "none" THEN context.generation ELSE "actioned"])

(* What the session felt: its own emotions moved by its own text.            *)
Felt(mine, profile) ==
    [pad |-> NextPad(profile, [Calm EXCEPT !.pad = mine.pad]), momentum |-> update_momentum(mine.momentum, profile)]

StateCommit ==
    /\ In("STATE_COMMIT")
    /\ LET s == request.session
       IN  IF context.outcome = "failed" THEN UNCHANGED <<committed, own>>
           ELSE /\ committed' = [committed EXCEPT ![s] = context.emotional]
                /\ own' = [own EXCEPT ![s] = Felt(@, context.update.profile)]
    /\ todo' = Tail(todo)
    /\ UNCHANGED <<shared, memory, procedures, request, context, turns>>

(* The embedding is taken to agree with the tokens on the nearest note.      *)
Admitted ==
    decide(request.text, context.update, context.reflected, memory, ToSet(memory))

Verified == context.status = "success" /\ context.steps # <<>>

(* The last phase of the model: the turn ends with what it stored.           *)
MemoryCommit ==
    /\ In("MEMORY_COMMIT")
    /\ LET kept == context.outcome \notin {"failed", "abstained"}
       IN  /\ memory' = IF kept /\ request.task = "conversation" /\ Admitted
                        THEN memory \o <<request.text.words, Answer>> ELSE memory
           /\ procedures' = IF kept /\ request.task = "tool_request" /\ Verified
                            THEN procedures \cup {context.steps} ELSE procedures
    /\ request' = Absent
    /\ todo' = <<>>
    /\ context' = Blank
    /\ UNCHANGED <<shared, committed, own, turns>>

Done == todo = <<>> /\ turns = MaxTurns /\ UNCHANGED vars

Next ==
    \/ StateLoad \/ Skip \/ Fails \/ Affect \/ EvidenceAcquisition \/ Planning \/ WorldSimulation
    \/ UncertaintyEstimation \/ ExecutionDecision \/ Reflection \/ Invoke \/ Action
    \/ AnswerGeneration \/ OutputValidation \/ Output \/ StateCommit \/ MemoryCommit \/ Done

Spec == Init /\ [][Next]_vars

(* ----- properties ----- *)

(* What a session commits as its pleasure, arousal, dominance and emotional  *)
(* momentum comes from the texts it committed and from no other session's,   *)
(* although one engine computes all of them and turns fail between the       *)
(* computation and the commit. Of its volatility and stability that is not   *)
(* so: the engine takes them from the history all sessions share.            *)
MoodIsOwn ==
    \A s \in Sessions :
        committed[s].pad = own[s].pad /\ committed[s].momentum = own[s].momentum

Acted == context.status # "none" \/ context.generation # "none" \/ context.steps # <<>>

(* Nothing is executed or answered on a retrieval response that holds no     *)
(* results before evidence was acquired a second time: an empty response has *)
(* no weight in the aggregate, so only its own signal can hold the turn      *)
(* back. An acquisition without any response has no such signal, the gate    *)
(* takes 0.0 for it, and the turn goes on: that is not what this says.       *)
NothingFoundIsRetried ==
    Acted /\ Responded(context.found) /\ context.found.memories = 0 => context.acquisitions >= 2

(* A plan is denied for its predicted risk only in a session that states     *)
(* constraints of its own: the fixed ones never add up to a denial.          *)
DenialIsFromConstraints ==
    context.decision = "abstain" => Settled[request.session].stated # <<>>

(* Once advice to replan is accepted, what is executed or answered is the    *)
(* revised plan: no later phase of the turn plans from scratch again.        *)
ReplanIsKept ==
    Acted /\ context.replans = 1 => context.plan.revision = 1

(* A procedure is stored only for an execution each of whose invocations was *)
(* permitted by the policy and reported as a success by its handler.         *)
ProcedureIsVerified ==
    \A steps \in procedures : \A i \in DOMAIN steps :
        /\ steps[i].did = "success"
        /\ steps[i].tool \in Policy.tools \ Policy.blocked

(* A text that repeats a stored note is stored again only when two stored    *)
(* notes at least mention it.                                                *)
RepeatNeedsRecurrence ==
    [][memory' # memory /\ request.text.words \in ToSet(memory)
          => Mentions(request.text.words, memory) >= 2]_vars
===============================================================================
