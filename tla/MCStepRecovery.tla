--------------------------- MODULE MCStepRecovery ---------------------------
(* Values of the constants of StepRecovery for TLC. *)
EXTENDS StepRecoveryProps, TLC

CONSTANTS r1, r2

Policy(strategy, n) == [strategy |-> strategy, maxRetries |-> n]
Plain == [provider |-> "mock", model |-> "none", prompt |-> "short", keyed |-> FALSE, url |-> FALSE]

StepDef(type, cfg, policy) ==
  [type |-> type, cfg |-> cfg, policy |-> policy, nextModel |-> "mock-small", runs |-> {r1}]

Simulated(type, policy) == StepDef(type, Plain, policy)

\* Every strategy, with no, one and two retries; and a step without a policy.
EveryStrategy == {Simulated("CUSTOM", Policy(s, n)) : s \in Strategies, n \in 0..2}
                   \union {Simulated("CUSTOM", NoPolicy)}

\* Every demo type; every provider; the two strategies for LLM_CALL.
EveryType == {Simulated(t, Policy("RETRY", 1)) : t \in SimulatedTypes}
LlmConfigs == {[Plain EXCEPT !.provider = p, !.model = "mock-flaky", !.prompt = t, !.keyed = k] :
                 p \in {"mock", "openai", "anthropic", "other"}, t \in {"empty", "long"}, k \in BOOLEAN}
EveryCall ==
  {StepDef("LLM_CALL", c, Policy(s, 2)) : c \in LlmConfigs, s \in {"SWITCH_MODEL", "REDUCE_CONTEXT"}}
    \union {StepDef("TOOL_INVOKE", [Plain EXCEPT !.url = u], Policy("FALLBACK", 1)) : u \in BOOLEAN}

\* Two deliveries of the same job at once; the step's handler never answers.
Overlapping == {[StepDef("TOOL_INVOKE", Plain, Policy("RETRY", 1)) EXCEPT !.runs = {r1, r2}]}

EveryStep == EveryStrategy \union EveryType \union EveryCall \union Overlapping

Unretried == {Simulated("CUSTOM", NoPolicy)}
=============================================================================
