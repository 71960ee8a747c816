------------------------- MODULE StepRecoveryProps -------------------------
(***************************************************************************)
(* What the recovery of a step must guarantee.                             *)
(***************************************************************************)
EXTENDS StepRecovery

\* The loop implements the contract: it tries at most MaxAttempts times,
\* answers each failed try once, and gives up only after the last.  A run that
\* has written COMPLETED but not logged it is still trying, because a
\* rejection of the log write sends it to recovery (worker 231-342).
Phase(pc) ==
  CASE pc = "idle"                   -> "waiting"
    [] pc \in {"execute", "persisted"} -> "trying"
    [] pc \in RunEnd                 -> pc
    [] OTHER                         -> "failed"

Contract == INSTANCE StepContract WITH
  limit <- MaxAttempts(def.policy),
  phase <- [r \in Runs |-> Phase(run[r].pc)],
  tries <- [r \in Runs |-> IF At(r, "idle") THEN 0 ELSE run[r].attempt]

ImplementsContract == Contract!Spec

Logged(r, n, action) == \E a \in audit : a.run = r /\ a.attempt = n /\ a.action = action

\* Attempt n of run r was seen to fail, and the loop has left it behind.
LeftBehind(r, n) ==
  /\ Logged(r, n, "FAILURE_DETECTED")
  /\ run[r].attempt > n \/ run[r].pc \in {"settled", "exhausted"}

\* Every failure the loop has left behind is on record exactly once: one
\* RecoveryAttempt row, under an incident of the step that exists, agreeing
\* with the audit log on the failure and on the recovery's success -- with
\* overlapping runs, resolved incidents and rejected calls (recovery.service
\* 55-107, 299-314).
FailuresAreAnswered ==
  \A r \in Runs, n \in 1..(MaxRetriesAllowed + 1) : LeftBehind(r, n) =>
    \E f \in filed :
      /\ f.run = r /\ f.attempt = n
      /\ f.incident \in DOMAIN incidents
      /\ f.success <=> Logged(r, n, "RECOVERY_SUCCEEDED")
      /\ \E a \in audit : /\ a.run = r /\ a.attempt = n
                        /\ a.action = "FAILURE_DETECTED" /\ a.failure = f.failure
      /\ \A g \in filed : g.run = r /\ g.attempt = n => g = f

\* The step's own handler is never called more often than the policy allows,
\* and the simulator never more often than there are retries, although every
\* retry goes through both (worker 149, 231; recovery.service 111-120, 216).
ExecutionsBounded ==
  \A r \in Runs :
    /\ executions[r].handler <= MaxAttempts(def.policy)
    /\ executions[r].simulator <= def.policy.maxRetries

\* A step that is settled has been executed, fallen back, skipped or
\* compensated with success: a run that ends "settled" leaves its success in
\* the audit log, of the try or of the recovery (worker 246-260, 303-318).
SettledForAReason ==
  \A r \in Runs : At(r, "settled") =>
    \/ Logged(r, run[r].attempt, "STEP_COMPLETED")
    \/ Logged(r, run[r].attempt, "RECOVERY_SUCCEEDED")

Begun == {r \in Runs : ~At(r, "idle")}

\* upsertIncident looks for an open incident and creates one in two calls.  A
\* delivery never opens a second incident beside its own, however often it tries
\* and whoever resolves what meanwhile: overlapping deliveries can leave one open
\* incident each, and no more (recovery.service 299-314).
OneIncidentPerDelivery == Cardinality(OpenIncidents) <= Cardinality(Begun)

\* An escalation that is in the audit log has reached every incident under which
\* its delivery had filed an earlier attempt of the step: each is flagged for
\* review, unless an operator had resolved it before -- also when overlapping
\* deliveries have left several open (recovery.service 280-314).
LoggedEscalationIsFlagged ==
  \A f \in filed, a \in audit :
    a.action = "ESCALATED" /\ f.run = a.run /\ f.attempt < a.attempt
    => incidents[f.incident].escalated \/ incidents[f.incident].resolved

\* What recovery asked for reaches the call: from the second attempt on, a step
\* whose policy switches the model calls the other one, and one whose policy
\* reduces the context sends no long prompt (worker 321-323; llm-call 83-93).
HintsReachTheCall ==
  [][ \A r \in Runs :
        executions'[r].handler # executions[r].handler /\ run[r].attempt > 1 =>
          /\ def.policy.strategy = "SWITCH_MODEL" /\ def.nextModel # "none" =>
               ModelOf(def.cfg, run[r].hint) = def.nextModel
          /\ def.policy.strategy = "REDUCE_CONTEXT" =>
               PromptOf(def.cfg, run[r].hint) # "long" ]_vars

\* A simulated step whose service was down when its delivery began is settled
\* by a fallback, by skipping or by compensation, never by executing it, in
\* the loop or in a retry (worker 115; recovery.service 217; recovery.utils 64).
DownServiceIsNotUsed ==
  \A r \in Runs : run[r].down /\ At(r, "settled") /\ def.type \in SimulatedTypes =>
    run[r].strategy \in {"FALLBACK", "SKIP", "COMPENSATE"}

\* A run that has begun comes to an end, whatever fails and whatever operators
\* do to the incidents it reads (worker 231-342).
RunsEnd == \A r \in Runs : At(r, "execute") ~> run[r].pc \in RunEnd

-----------------------------------------------------------------------------
(* What the README says, and the code does not do *)

\* "ESCALATE: Flag incident for manual review" (README 154): a step that was
\* given up with an escalation in the audit log has a flagged incident.
EscalationIsFlagged ==
  \A r \in Runs :
    At(r, "exhausted") /\ Logged(r, run[r].attempt, "ESCALATED")
    => \E i \in DOMAIN incidents : incidents[i].escalated
=============================================================================
