---------------------------- MODULE StepRecovery ----------------------------
(***************************************************************************)
(* One step of a job: the attempt loop of executeStepWithRecovery and the  *)
(* whole of RecoveryService.execute, down to the incident, the recovery    *)
(* attempts and the audit entries.  A job that two operators have retried  *)
(* is delivered twice, so several runs of the loop may overlap; operators  *)
(* resolve incidents meanwhile.                                            *)
(*                                                                         *)
(* The rows of the job and of its other steps are WorkflowEngine's; the    *)
(* compensation of those steps shows here only as the outcome of recovery. *)
(***************************************************************************)
EXTENDS RecoveryPolicy, StepHandlers, Sequences, FiniteSets

CONSTANTS
  Runs,           \* executions of the loop, one for each delivery of the job
  StepDefs,       \* the definitions the step may have; their runs bound how many of Runs there are
  MaxResolves,    \* bound: resolutions of incidents by operators
  MaxRejections   \* bound: database calls that reject

ASSUME RecoveryAssumption ==
  /\ StepDefs \subseteq [type : HandledTypes, cfg : Configs, policy : Policies,
                         nextModel : Models \union {"none"}, runs : SUBSET Runs]
  /\ MaxResolves \in Nat /\ MaxRejections \in Nat

VARIABLES
  def,         \* the step: WorkflowStep and its RecoveryPolicy; nextModel is fallbackService
  stepStatus,  \* JobStep.status
  incidents,   \* Incident rows of the step, in the order of their creation
  filed,       \* RecoveryAttempt rows
  audit,       \* AuditLog rows of the step, the actions in AuditActions
  run,         \* locals of each run
  executions,  \* how often each run had the step executed, and by whom
  resolves, rejections

vars == <<def, stepStatus, incidents, filed, audit, run, executions, resolves, rejections>>

StepStatuses == {"PENDING", "RUNNING", "COMPLETED", "FAILED", "SKIPPED"}
RunPcs == {"idle", "execute", "persisted", "caught", "record", "dispatch", "flagged", "find",
           "create", "file", "log", "answer", "settled", "exhausted", "aborted"}
RunEnd == {"settled", "exhausted", "aborted"}
AuditActions == {"STEP_COMPLETED", "FAILURE_DETECTED", "RECOVERY_SUCCEEDED",
                 "RECOVERY_FAILED", "ESCALATED"}

IdleRun == [pc |-> "idle", attempt |-> 1, strategy |-> "NONE", outcome |-> "failed",
            incident |-> 0, failure |-> "NONE", hint |-> NoHint, down |-> FALSE]

TypeOK ==
  /\ def \in StepDefs
  /\ stepStatus \in StepStatuses
  /\ incidents \in Seq([resolved : BOOLEAN, escalated : BOOLEAN])
  /\ filed \subseteq [run : Runs, attempt : Nat, incident : Nat, success : BOOLEAN,
                      failure : FailureTypes]
  /\ audit \subseteq [run : Runs, attempt : Nat, action : AuditActions,
                      failure : FailureTypes \union {"NONE"}]
  /\ run \in [Runs -> [pc : RunPcs, attempt : 1..(MaxRetriesAllowed + 1),
                       strategy : Strategies \union {"NONE"},
                       outcome : {"resolved", "skipped", "compensated", "failed"},
                       incident : 0..Len(incidents),
                       failure : FailureTypes \union {"NONE"}, hint : Hints, down : BOOLEAN]]
  /\ executions \in [Runs -> [handler : Nat, simulator : Nat]]
  /\ resolves \in 0..MaxResolves
  /\ rejections \in 0..MaxRejections

Init ==
  /\ def \in StepDefs
  /\ stepStatus = "PENDING"
  /\ incidents = <<>>
  /\ filed = {}
  /\ audit = {}
  /\ run = [r \in Runs |-> IdleRun]
  /\ executions = [r \in Runs |-> [handler |-> 0, simulator |-> 0]]
  /\ resolves = 0
  /\ rejections = 0

At(r, pc)    == run[r].pc = pc
Goto(r, pc)  == run' = [run EXCEPT ![r].pc = pc]
Entry(r, action, failure) ==
  [run |-> r, attempt |-> run[r].attempt, action |-> action, failure |-> failure]
Log(r, action) == audit' = audit \union {Entry(r, action, "NONE")}
\* Mutant of LastAttempt: one attempt too many.
OneMoreAttempt(r) == run[r].attempt > MaxAttempts(def.policy)

LastAttempt(r) == run[r].attempt >= MaxAttempts(def.policy)
OpenIncidents  == {i \in DOMAIN incidents : ~incidents[i].resolved}

-----------------------------------------------------------------------------
(* The attempt loop *)

\* asMap was read at the start of the delivery: down is the step's service.
MarkStepRunning(r) ==
  /\ At(r, "idle") /\ r \in def.runs
  /\ stepStatus' = "RUNNING"
  /\ \E down \in BOOLEAN : run' = [run EXCEPT ![r].pc = "execute", ![r].down = down]
  /\ UNCHANGED <<def, incidents, filed, audit, executions, resolves, rejections>>

Execute(r) ==
  /\ At(r, "execute")
  /\ executions' = [executions EXCEPT ![r].handler = @ + 1]

HandlerSucceeds(r) ==
  /\ Execute(r)
  /\ HandlerMayAnswer(def.type, def.cfg, run[r].down)
  /\ stepStatus' = "COMPLETED"
  /\ Goto(r, "persisted")
  /\ UNCHANGED <<def, incidents, filed, audit, resolves, rejections>>

LogCompleted(r) ==
  /\ At(r, "persisted")
  /\ Log(r, "STEP_COMPLETED")
  /\ Goto(r, "settled")
  /\ UNCHANGED <<def, stepStatus, incidents, filed, executions, resolves, rejections>>

HandlerFails(r) ==
  /\ Execute(r)
  /\ \E err \in HandlerErrors(def.type, def.cfg, run[r].hint, run[r].down) :
       run' = [run EXCEPT ![r].pc = "caught", ![r].failure = ClassifyFailure(err)]
  /\ UNCHANGED <<def, stepStatus, incidents, filed, audit, resolves, rejections>>

\* Mutant of CatchAfterPersist: the rejection is swallowed.
CatchAndSettle(r) ==
  /\ At(r, "persisted")
  /\ rejections < MaxRejections
  /\ rejections' = rejections + 1
  /\ Goto(r, "settled")
  /\ UNCHANGED <<def, stepStatus, incidents, filed, audit, executions, resolves>>

\* The STEP_COMPLETED write rejects inside the try block, with whatever words.
CatchAfterPersist(r) ==
  /\ At(r, "persisted")
  /\ rejections < MaxRejections
  /\ rejections' = rejections + 1
  /\ \E f \in FailureTypes : run' = [run EXCEPT ![r].pc = "caught", ![r].failure = f]
  /\ UNCHANGED <<def, stepStatus, incidents, filed, audit, executions, resolves>>

LogFailure(r) ==
  /\ At(r, "caught")
  /\ audit' = audit \union {Entry(r, "FAILURE_DETECTED", run[r].failure)}
  /\ Goto(r, "record")
  /\ UNCHANGED <<def, stepStatus, incidents, filed, executions, resolves, rejections>>

RecordFailure(r) ==
  /\ At(r, "record")
  /\ stepStatus' = "FAILED"
  /\ run' = [run EXCEPT ![r].pc = "dispatch",
                        ![r].strategy = SelectStrategy(def.policy, run[r].attempt)]
  /\ UNCHANGED <<def, incidents, filed, audit, executions, resolves, rejections>>

-----------------------------------------------------------------------------
(* RecoveryService.dispatch and its handlers *)

Dispatched(r, outcome) ==
  /\ At(r, "dispatch")
  /\ outcome \in DispatchOutcomes(run[r].strategy)
  /\ run' = [run EXCEPT ![r].pc = "find", ![r].outcome = outcome]

\* Mutant of HandleRetry: serviceStatuses is not passed on.
HandleRetryUp(r) ==
  /\ run[r].strategy \in {"RETRY", "RETRY_WITH_DELAY"}
  /\ \E outcome \in {"resolved", "failed"} : Dispatched(r, outcome)
  /\ executions' = [executions EXCEPT ![r].simulator = @ + 1]
  /\ UNCHANGED <<def, stepStatus, incidents, filed, audit, resolves, rejections>>

\* The retry runs the simulator, whatever the step's type.
HandleRetry(r) ==
  /\ run[r].strategy \in {"RETRY", "RETRY_WITH_DELAY"}
  /\ \/ SimulationMayPass(run[r].down) /\ Dispatched(r, "resolved")
     \/ Dispatched(r, "failed")
  /\ executions' = [executions EXCEPT ![r].simulator = @ + 1]
  /\ UNCHANGED <<def, stepStatus, incidents, filed, audit, resolves, rejections>>

HandleSkip(r) ==
  /\ Dispatched(r, "skipped")
  /\ stepStatus' = "SKIPPED"
  /\ UNCHANGED <<def, incidents, filed, audit, executions, resolves, rejections>>

\* Mutant of FlagIncidents: update of one open incident for updateMany.
FlagOldest ==
  incidents' = [i \in DOMAIN incidents |->
                  IF i \in OpenIncidents /\ \A j \in OpenIncidents : i <= j
                  THEN [incidents[i] EXCEPT !.escalated = TRUE] ELSE incidents[i]]

\* updateMany where resolved = false
FlagIncidents ==
  incidents' = [i \in DOMAIN incidents |->
                  IF i \in OpenIncidents THEN [incidents[i] EXCEPT !.escalated = TRUE]
                                         ELSE incidents[i]]

\* handleEscalate flags the open incidents ...
HandleEscalate(r) ==
  /\ At(r, "dispatch") /\ run[r].strategy = "ESCALATE"
  /\ FlagIncidents
  /\ Goto(r, "flagged")
  /\ UNCHANGED <<def, stepStatus, filed, audit, executions, resolves, rejections>>

\* ... and then logs that it did.
LogEscalation(r) ==
  /\ At(r, "flagged")
  /\ Log(r, "ESCALATED")
  /\ run' = [run EXCEPT ![r].pc = "find", ![r].outcome = "failed"]
  /\ UNCHANGED <<def, stepStatus, incidents, filed, executions, resolves, rejections>>

\* Mutant of HandleOther: only a strategy that may succeed is ever answered.
HandleNoHint(r) ==
  /\ run[r].strategy \in {"FALLBACK", "COMPENSATE"}
  /\ \E outcome \in DispatchOutcomes(run[r].strategy) : Dispatched(r, outcome)
  /\ UNCHANGED <<def, stepStatus, incidents, filed, audit, executions, resolves, rejections>>

\* FALLBACK and COMPENSATE, the strategies that leave a hint, the others.
HandleOther(r) ==
  /\ run[r].strategy \notin {"RETRY", "RETRY_WITH_DELAY", "SKIP", "ESCALATE"}
  /\ \E outcome \in DispatchOutcomes(run[r].strategy) : Dispatched(r, outcome)
  /\ UNCHANGED <<def, stepStatus, incidents, filed, audit, executions, resolves, rejections>>

\* A handler that writes rejects: execute turns that into a failure.  The audit
\* write of an escalation rejects after the incidents were flagged.
HandlerRejected(r) ==
  /\ \/ At(r, "dispatch") /\ run[r].strategy \in {"SKIP", "COMPENSATE", "ESCALATE", "PAUSE_FOR_HUMAN"}
     \/ At(r, "flagged")
  /\ rejections < MaxRejections
  /\ rejections' = rejections + 1
  /\ run' = [run EXCEPT ![r].pc = "find", ![r].outcome = "failed"]
  /\ UNCHANGED <<def, stepStatus, incidents, filed, audit, executions, resolves>>

-----------------------------------------------------------------------------
(* The rest of RecoveryService.execute *)

\* Mutant of FindIncident: every attempt opens an incident.
FindNothing(r) ==
  /\ At(r, "find")
  /\ Goto(r, "create")
  /\ UNCHANGED <<def, stepStatus, incidents, filed, audit, executions, resolves, rejections>>

\* upsertIncident reads ...
FindIncident(r) ==
  /\ At(r, "find")
  /\ \/ /\ OpenIncidents = {}
        /\ Goto(r, "create")
     \/ \E i \in OpenIncidents :
          run' = [run EXCEPT ![r].pc = "file", ![r].incident = i]
  /\ UNCHANGED <<def, stepStatus, incidents, filed, audit, executions, resolves, rejections>>

\* Mutant of CreateIncident: the row is not saved.
CreateNothing(r) ==
  /\ At(r, "create")
  /\ run' = [run EXCEPT ![r].pc = "file", ![r].incident = Len(incidents) + 1]
  /\ UNCHANGED <<def, stepStatus, incidents, filed, audit, executions, resolves, rejections>>

\* ... and creates.
CreateIncident(r) ==
  /\ At(r, "create")
  /\ incidents' = Append(incidents, [resolved |-> FALSE, escalated |-> FALSE])
  /\ run' = [run EXCEPT ![r].pc = "file", ![r].incident = Len(incidents) + 1]
  /\ UNCHANGED <<def, stepStatus, filed, audit, executions, resolves, rejections>>

Success(r) == run[r].outcome # "failed"

\* Mutant of FileAttempt: successes are not filed.
FileFailures(r) ==
  /\ At(r, "file")
  /\ filed' = IF Success(r) THEN filed
              ELSE filed \union {[run |-> r, attempt |-> run[r].attempt,
                                  incident |-> run[r].incident, success |-> FALSE,
                                  failure |-> run[r].failure]}
  /\ Goto(r, "log")
  /\ UNCHANGED <<def, stepStatus, incidents, audit, executions, resolves, rejections>>

FileAttempt(r) ==
  /\ At(r, "file")
  /\ filed' = filed \union {[run |-> r, attempt |-> run[r].attempt,
                             incident |-> run[r].incident, success |-> Success(r),
                             failure |-> run[r].failure]}
  /\ Goto(r, "log")
  /\ UNCHANGED <<def, stepStatus, incidents, audit, executions, resolves, rejections>>

LogRecovery(r) ==
  /\ At(r, "log")
  /\ Log(r, IF Success(r) THEN "RECOVERY_SUCCEEDED" ELSE "RECOVERY_FAILED")
  /\ Goto(r, "answer")
  /\ UNCHANGED <<def, stepStatus, incidents, filed, executions, resolves, rejections>>

-----------------------------------------------------------------------------
(* What the loop makes of the result *)

SettleStep(r) ==
  /\ At(r, "answer")
  /\ Success(r)
  /\ stepStatus' = IF run[r].strategy = "SKIP" THEN "SKIPPED" ELSE "COMPLETED"
  /\ Goto(r, "settled")
  /\ UNCHANGED <<def, incidents, filed, audit, executions, resolves, rejections>>

\* SWITCH_MODEL and REDUCE_CONTEXT leave a hint, which is merged into the last.
Hinted(hint, strategy) ==
  CASE strategy = "SWITCH_MODEL" /\ def.nextModel # "none" -> [hint EXCEPT !.model = def.nextModel]
    [] strategy = "REDUCE_CONTEXT"                         -> [hint EXCEPT !.reduce = TRUE]
    [] OTHER                                               -> hint

\* Mutant of NextAttempt: the hint does not outlive the attempt.
NextAttemptUnhinted(r) ==
  /\ At(r, "answer")
  /\ ~Success(r)
  /\ ~LastAttempt(r)
  /\ run' = [run EXCEPT ![r].pc = "execute", ![r].attempt = @ + 1, ![r].hint = NoHint]
  /\ UNCHANGED <<def, stepStatus, incidents, filed, audit, executions, resolves, rejections>>

\* A handler that rejected returned no hint, but none of those gives one.
NextAttempt(r) ==
  /\ At(r, "answer")
  /\ ~Success(r)
  /\ ~LastAttempt(r)
  /\ run' = [run EXCEPT ![r].pc = "execute", ![r].attempt = @ + 1,
                        ![r].hint = Hinted(@, run[r].strategy)]
  /\ UNCHANGED <<def, stepStatus, incidents, filed, audit, executions, resolves, rejections>>

\* Mutant of Exhaust: a failed recovery ends the step.
ExhaustAtOnce(r) ==
  /\ At(r, "answer")
  /\ ~Success(r)
  /\ Goto(r, "exhausted")
  /\ UNCHANGED <<def, stepStatus, incidents, filed, audit, executions, resolves, rejections>>

Exhaust(r) ==
  /\ At(r, "answer")
  /\ ~Success(r)
  /\ LastAttempt(r)
  /\ Goto(r, "exhausted")
  /\ UNCHANGED <<def, stepStatus, incidents, filed, audit, executions, resolves, rejections>>

-----------------------------------------------------------------------------
(* Operators and faults *)

\* PATCH /incidents/:id/resolve
ResolveIncident(i) ==
  /\ i \in OpenIncidents
  /\ resolves < MaxResolves
  /\ resolves' = resolves + 1
  /\ incidents' = [incidents EXCEPT ![i].resolved = TRUE]
  /\ UNCHANGED <<def, stepStatus, filed, audit, run, executions, rejections>>

\* A call outside the try blocks rejects, and with it processJob; before
\* "dispatch" is tried it is the RECOVERY_STARTED entry.
RejectedCall(r) ==
  /\ run[r].pc \in RunPcs \ (RunEnd \union {"idle", "persisted", "flagged"})
  /\ rejections < MaxRejections
  /\ rejections' = rejections + 1
  /\ Goto(r, "aborted")
  /\ UNCHANGED <<def, stepStatus, incidents, filed, audit, executions, resolves>>

-----------------------------------------------------------------------------
Loop(r) ==
  \/ HandlerSucceeds(r) \/ LogCompleted(r) \/ HandlerFails(r) \/ LogFailure(r) \/ RecordFailure(r)
  \/ SettleStep(r) \/ NextAttempt(r) \/ Exhaust(r)

Recover(r) ==
  \/ HandleRetry(r) \/ HandleSkip(r) \/ HandleEscalate(r) \/ LogEscalation(r) \/ HandleOther(r)
  \/ FindIncident(r) \/ CreateIncident(r) \/ FileAttempt(r) \/ LogRecovery(r)

Fault(r) == CatchAfterPersist(r) \/ HandlerRejected(r) \/ RejectedCall(r)

Next ==
  \/ \E r \in Runs : MarkStepRunning(r) \/ Loop(r) \/ Recover(r) \/ Fault(r)
  \/ \E i \in DOMAIN incidents : ResolveIncident(i)

Spec == Init /\ [][Next]_vars

\* A run that has started goes on: every call it awaits settles.
FairSpec == Spec /\ \A r \in Runs : WF_vars(Loop(r) \/ Recover(r))
=============================================================================
