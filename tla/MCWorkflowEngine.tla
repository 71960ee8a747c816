-------------------------- MODULE MCWorkflowEngine --------------------------
(* Values of the constants of WorkflowEngine for TLC. *)
EXTENDS WorkflowEngineProps, TLC

Identity == [s \in Steps |-> s]

\* JobStep.createdAt is the same for all steps of a job, so that a load may
\* return them in any order; two steps have two orders.
AnyOrder == {o \in StepOrders : \A s \in Steps : \E k \in Steps : o[k] = s}
DeclaredOrder == {Identity}

Policy(strategy, n) == [strategy |-> strategy, maxRetries |-> n]
Step(critical, policy) == [critical |-> critical, policy |-> policy, registered |-> TRUE]
Unregistered == [critical |-> TRUE, policy |-> NoPolicy, registered |-> FALSE]

\* The seed workflow's shape: retry, then fall back.
RetryFallback == <<Step(TRUE, Policy("RETRY", 1)), Step(FALSE, Policy("FALLBACK", 1))>>
\* A saga: the second step compensates the first.
Saga == <<Step(TRUE, Policy("SWITCH_MODEL", 1)), Step(TRUE, Policy("COMPENSATE", 1))>>
\* A critical step that is skipped all the same, and one with no policy.
SkipFragile == <<Step(TRUE, Policy("SKIP", 1)), Step(TRUE, NoPolicy)>>
\* A step type with no handler after one that may fail.
Unhandled == <<Step(FALSE, NoPolicy), Unregistered>>

AllWorkflows == {RetryFallback, Saga, SkipFragile, Unhandled}

OperatorSymmetry == Permutations(Operators)

OneStepWorkflows ==
  {<<Step(TRUE, NoPolicy)>>, <<Step(TRUE, Policy("RETRY", 1))>>, <<Unregistered>>}

\* Behaviours with a crash are cut off at the third delivery or when both
\* operators are busy; those without one are not.
OneFaultAtATime ==
  \/ crashes = 0
  \/ /\ \A d \in Deliveries : d > 2 => queue[d].state = "unused"
     /\ \A o, p \in Operators : op[o].pc # "idle" /\ op[p].pc # "idle" => o = p

HandledWorkflows == {RetryFallback, Saga, SkipFragile}
=============================================================================
