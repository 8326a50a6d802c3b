----------------------------- MODULE ActionTools ------------------------------
(* The tools a plan may name: what the execution policy, the router and the  *)
(* argument validator say of one invocation, and the status an execution     *)
(* gets from the statuses of its steps. Pure functions; the composition      *)
(* that calls them decides what a handler does.                              *)
EXTENDS Integers, Sequences, FiniteSets, SequencesExt

(* The args of an invocation are a function from argument names to values. A *)
(* value: type, number (for an int, a float or a bool), length (for a str, a *)
(* list or a dict) and plain, whether it holds nothing but plain values. A   *)
(* registry maps a name to kinds, tags and schema, a function from argument  *)
(* names to specs.                                                           *)

Kinds == {"tool_call", "external_action", "environment_operation"}

(* A request for a tool, of the kind and in the sandbox it has by default.   *)
ToolInvocation(tool, tags, args) ==
    [tool |-> tool, kind |-> "tool_call", sandboxed |-> TRUE, tags |-> tags, args |-> args]

(* ----- policy ----- *)

evaluate_invocation(policy, invocation, index) ==
    /\ invocation.tool # ""
    /\ policy.external
    /\ policy.sandbox => invocation.sandboxed
    /\ invocation.kind = "environment_operation" => policy.environment
    /\ index < policy.max_invocations
    /\ invocation.tool \in policy.tools \ policy.blocked
    /\ policy.tags # {} => invocation.tags \subseteq policy.tags

(* ----- registry and router ----- *)

Routed(registry, invocation) ==
    /\ invocation.tool \in DOMAIN registry
    /\ invocation.kind \in registry[invocation.tool].kinds

(* ----- validator ----- *)

TYPE_MAP == {"str", "int", "float", "bool", "dict", "list"}
Unlimited == -1

matches_expected_type(value, type) ==
    IF type = "float" THEN value.type \in {"int", "float"} ELSE value.type = type

(* A bool is a number to isinstance, so the limits are for it as well.       *)
InRange(spec, value) ==
    value.type \in {"int", "float", "bool"} =>
        /\ spec.min_value # Unlimited => spec.min_value <= value.number
        /\ spec.max_value # Unlimited => value.number <= spec.max_value

InLength(spec, value) ==
    value.type \in {"str", "list", "dict"} =>
        /\ value.length = 0 => spec.allow_empty
        /\ spec.min_length # Unlimited => spec.min_length <= value.length
        /\ spec.max_length # Unlimited => value.length <= spec.max_length

Fits(spec, value) ==
    /\ spec.type \in TYPE_MAP
    /\ matches_expected_type(value, spec.type)
    /\ spec.allowed # {} => value \in spec.allowed
    /\ InRange(spec, value)
    /\ InLength(spec, value)
    /\ value.plain

validate(args, schema) ==
    /\ DOMAIN args \subseteq DOMAIN schema
    /\ \A name \in DOMAIN schema :
          IF name \in DOMAIN args THEN Fits(schema[name], args[name]) ELSE ~schema[name].required

(* ----- tool executor ----- *)

(* Why an invocation is not handed to its tool, in the order of the code.    *)
(* Validation is enforced whatever policy.require_validation says.           *)
Refusal(invocation, index, policy, registry) ==
    CASE ~evaluate_invocation(policy, invocation, index) -> "blocked"
      [] OTHER ->
         CASE ~Routed(registry, invocation) -> "not_found"
           [] OTHER ->
              CASE ~(invocation.tags \subseteq registry[invocation.tool].tags) -> "blocked"
                [] OTHER ->
                   IF validate(invocation.args, registry[invocation.tool].schema)
                   THEN "none" ELSE "validation_error"

(* What a handler that is called may do, and the status the result has then: *)
(* its own, or failed when it raises, is not in time, or returns something   *)
(* that is no ToolResult.                                                    *)
Behaviours == {"success", "failed", "blocked", "raises", "late", "no_result"}

StatusOf(behaviour) == IF behaviour \in {"raises", "late", "no_result"} THEN "failed" ELSE behaviour

(* ----- action executor ----- *)

status_from_tool(status) ==
    CASE status = "success" -> "success"
      [] status \in {"blocked", "validation_error", "not_found"} -> "blocked"
      [] OTHER -> "failed"

(* Mutant: the execution is a success as soon as one of its steps is.        *)
StatusOfSome(steps, intent) ==
    IF "success" \in steps THEN "success" ELSE "blocked"

(* steps is the set of the statuses of the steps.                            *)
aggregate_status(steps, intent) ==
    CASE steps = {} -> "no_op"
      [] steps = {"success"} -> "success"
      [] "failed" \in steps -> "failed"
      [] "blocked" \in steps /\ "failed" \notin steps -> "blocked"
      [] OTHER -> IF intent = "no_op" THEN "no_op" ELSE "partial"

(* A plan without a tool has every action of it recorded as a success.       *)
internal_steps(actions) == IF actions = <<>> THEN {"no_op"} ELSE {"success"}
===============================================================================
