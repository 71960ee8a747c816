--------------------------- MODULE RecoveryPolicy ---------------------------
(***************************************************************************)
(* The pure part of recovery/recovery.service.ts: which strategy answers a *)
(* failed attempt, and what a strategy can make of it.                     *)
(***************************************************************************)
EXTENDS Naturals

\* The largest maxRetries that CreateWorkflowDto admits.
MaxRetriesAllowed == 100

\* enum RecoveryStrategy
Strategies ==
  {"RETRY", "RETRY_WITH_DELAY", "FALLBACK", "SKIP", "COMPENSATE", "ESCALATE",
   "DEAD_LETTER", "SWITCH_MODEL", "REDUCE_CONTEXT", "PAUSE_FOR_HUMAN"}

\* A workflow step without a RecoveryPolicy row (policy = null in the code).
NoPolicy == [strategy |-> "NONE", maxRetries |-> 0]

Policies == [strategy : Strategies, maxRetries : 0..MaxRetriesAllowed] \union {NoPolicy}

\* The bound of the attempt loop: policy ? policy.maxRetries + 1 : 1.
MaxAttempts(policy) == policy.maxRetries + 1

SelectStrategy(policy, attempt) ==
  IF policy = NoPolicy THEN "ESCALATE"
  ELSE IF attempt > policy.maxRetries /\ policy.strategy # "FALLBACK" THEN "ESCALATE"
  ELSE policy.strategy

\* What the handler of a strategy can answer. "resolved": success, the step
\* is to be COMPLETED; "skipped": success of SKIP; "compensated": success of
\* COMPENSATE; "failed": success = false. RETRY re-executes the step in a
\* simulator that may fail, FALLBACK draws a random number. The strategies
\* that only leave a hint, and those with no handler, always answer failure.
DispatchOutcomes(strategy) ==
  CASE strategy \in {"RETRY", "RETRY_WITH_DELAY", "FALLBACK"} -> {"resolved", "failed"}
    [] strategy = "SKIP"       -> {"skipped"}
    [] strategy = "COMPENSATE" -> {"compensated"}
    [] OTHER                   -> {"failed"}
=============================================================================
