---------------------------- MODULE StepHandlers ----------------------------
(***************************************************************************)
(* What the step handlers make of a call: the model and the prompt that an *)
(* LLM_CALL sends, when a handler may answer, what it may throw, and how   *)
(* classifyFailure reads that.  A message is the set of the words          *)
(* classifyFailure looks for in it.                                        *)
(***************************************************************************)
EXTENDS Naturals

SimulatedTypes == {"RESERVE_INVENTORY", "PROCESS_PAYMENT", "SEND_EMAIL", "GENERATE_INVOICE",
                   "SYNC_CRM", "NOTIFY_WEBHOOK", "CUSTOM"}
HandledTypes   == SimulatedTypes \union {"LLM_CALL", "TOOL_INVOKE"}
FailureTypes   == {"TIMEOUT", "NETWORK_ERROR", "EXTERNAL_SERVICE_FAILURE", "VALIDATION_ERROR", "UNKNOWN"}

\* "mock-small" is also the default of DEFAULT_LLM_MODEL.
Models  == {"mock-flaky", "mock-small"}
Prompts == {"empty", "short", "long", "truncated"}   \* "long": over 2000 characters
NoHint  == [model |-> "none", reduce |-> FALSE]
Hints   == [model : Models \union {"none"}, reduce : BOOLEAN]
Configs == [provider : {"mock", "openai", "anthropic", "other"},
            model    : Models \union {"none"},
            prompt   : Prompts \ {"truncated"},   \* after interpolation
            keyed    : BOOLEAN,                   \* the provider's API key is configured
            url      : BOOLEAN]                   \* of a TOOL_INVOKE

-----------------------------------------------------------------------------
(* LLM_CALL *)

ModelOf(cfg, hint) ==
  IF hint.model # "none" THEN hint.model
  ELSE IF cfg.model # "none" THEN cfg.model ELSE "mock-small"

PromptOf(cfg, hint) ==
  IF hint.reduce /\ cfg.prompt = "long" THEN "truncated" ELSE cfg.prompt

-----------------------------------------------------------------------------
(* Errors *)

Err(name, words) == [name |-> name, words |-> words]

Mentions(err, words) == err.words \intersect words # {}

ClassifyFailure(err) ==
  IF Mentions(err, {"timeout", "timed out"}) \/ err.name = "TimeoutError" THEN "TIMEOUT"
  ELSE IF Mentions(err, {"network", "econnrefused", "enotfound", "socket"}) THEN "NETWORK_ERROR"
  ELSE IF Mentions(err, {"service", "unavailable", "503", "502"}) THEN "EXTERNAL_SERVICE_FAILURE"
  ELSE IF Mentions(err, {"validation", "invalid", "required"}) THEN "VALIDATION_ERROR"
  ELSE "UNKNOWN"

Timeout     == Err("TimeoutError", {"timeout"})
Network     == Err("NetworkError", {"network"})
Unavailable == Err("ExternalServiceError", {"service", "unavailable"})
Invalid     == Err("ValidationError", {"invalid"})

\* The messages of getErrorTypesForStep.
SimulatorErrors(type) ==
  CASE type = "PROCESS_PAYMENT"   -> {Timeout, Network, Unavailable}
    [] type = "SEND_EMAIL"        -> {Err("TimeoutError", {"service", "timeout"}), Network, Unavailable}
    [] type = "RESERVE_INVENTORY" -> {Err("TimeoutError", {"service", "timeout"}), Network,
                                      Err("ValidationError", {"validation"})}
    [] type = "GENERATE_INVOICE"  -> {Err("TimeoutError", {"service", "timeout"}), Invalid}
    [] type = "SYNC_CRM"          -> {Unavailable, Network}
    [] type = "NOTIFY_WEBHOOK"    -> {Timeout, Network}
    [] OTHER                      -> {Err("Error", {})}

\* simulateStepExecution fails if the service is down, else it may.
SimulationMayPass(down) == ~down
SimulationErrors(type, down) == IF down THEN {Unavailable} ELSE SimulatorErrors(type)

\* fetch: an answer that is not 2xx, whose body may say anything; the abort of
\* the timer; no answer or one that cannot be read.  Only the first has words.
AnswerErrors ==
  {Err(name, status \union body) :
     name \in {"ExternalServiceError", "ValidationError", "RateLimitError"},
     status \in {{}, {"503"}}, body \in {{}, {"timeout"}, {"invalid"}}}
FetchErrors == AnswerErrors \union {Err("AbortError", {}), Err("TypeError", {})}

ProviderErrors(cfg) == IF cfg.keyed THEN FetchErrors ELSE {Err("Error", {})}
MockErrors(model)   == IF model = "mock-flaky" THEN {Err("RateLimitError", {})} ELSE {}

LlmErrors(cfg, hint) ==
  IF cfg.prompt = "empty" THEN {Err("Error", {"required"})}
  ELSE CASE cfg.provider = "mock"                   -> MockErrors(ModelOf(cfg, hint))
         [] cfg.provider \in {"openai", "anthropic"} -> ProviderErrors(cfg)
         [] OTHER                                   -> {Err("ValidationError", {})}

ToolErrors(cfg) == IF cfg.url THEN FetchErrors ELSE {Err("Error", {"required"})}

-----------------------------------------------------------------------------
(* StepHandler.execute *)

LlmMayAnswer(cfg) ==
  /\ cfg.prompt # "empty"
  /\ \/ cfg.provider = "mock"
     \/ cfg.provider \in {"openai", "anthropic"} /\ cfg.keyed

HandlerMayAnswer(type, cfg, down) ==
  CASE type = "LLM_CALL"    -> LlmMayAnswer(cfg)
    [] type = "TOOL_INVOKE" -> cfg.url
    [] OTHER                -> SimulationMayPass(down)

HandlerErrors(type, cfg, hint, down) ==
  CASE type = "LLM_CALL"    -> LlmErrors(cfg, hint)
    [] type = "TOOL_INVOKE" -> ToolErrors(cfg)
    [] OTHER                -> SimulationErrors(type, down)
=============================================================================
