--------------------------- MODULE WorkflowEngine ---------------------------
(***************************************************************************)
(* The job engine: the API that submits and cancels jobs, the BullMQ       *)
(* queues, the worker that carries a job through its steps, the recovery   *)
(* of a failed step as far as it changes job and step rows, and the        *)
(* operators who retry jobs from the dead-letter queue.                    *)
(*                                                                         *)
(* An action is the code between two awaits that other parties can come    *)
(* between: at most one write to the database or to a queue.  Audit rows,  *)
(* metrics and log lines are left out; that an audit write may reject, and *)
(* so end a handler early, is not (RejectedCall, EnqueueFails, CatchAfter-  *)
(* Persist).                                                               *)
(***************************************************************************)
EXTENDS RecoveryPolicy, FiniteSets

CONSTANTS
  Jobs,             \* jobs clients may submit
  NoJob,            \* not a job
  StepCount,        \* steps of a workflow
  Workflows,        \* the workflows a job may be an instance of
  LoadOrders,       \* the orders in which loadJob may return the steps
  DeliveryCount,    \* bound: Bull jobs ever added to the workflow queue
  DeadLetterCount,  \* bound: Bull jobs ever added to the dead-letter queue
  Concurrency,      \* WORKER_CONCURRENCY
  MaxStalledCount,  \* BullMQ's maxStalledCount (the code keeps the default)
  Operators,        \* operators who retry dead-lettered jobs
  Cancellers,       \* clients who cancel; bound: one cancellation each
  MaxCrashes,       \* bound: crashes of the worker process
  MaxRejections     \* bound: database or Redis calls that reject

Steps        == 1..StepCount
Deliveries   == 1..DeliveryCount
DeadLetters  == 1..DeadLetterCount
StepOrders   == [Steps -> Steps]
StepDefs     == [critical : BOOLEAN, policy : Policies, registered : BOOLEAN]

\* create refuses a workflow without steps; WORKER_CONCURRENCY falls back to 5.
ASSUME EngineAssumption ==
  /\ StepCount \in Nat \ {0}
  /\ NoJob \notin Jobs
  /\ Workflows \subseteq [Steps -> StepDefs]
  /\ LoadOrders \subseteq StepOrders
  /\ DeliveryCount \in Nat /\ DeadLetterCount \in Nat /\ Concurrency \in Nat \ {0}
  /\ MaxStalledCount \in Nat /\ MaxCrashes \in Nat /\ MaxRejections \in Nat

\* loadJob returns every step of the job once.
Complete(order) ==
  /\ \A s \in Steps : \E k \in Steps : order[k] = s
  /\ \A k, l \in Steps : order[k] = order[l] => k = l

ASSUME OrderAssumption == \A order \in LoadOrders : Complete(order)

VARIABLES
  workflow,    \* Job.workflow: the step definitions of each job
  jobStatus,   \* Job.status, "NONE" before the row exists
  stepStatus,  \* JobStep.status
  submit,      \* where POST /jobs is for each job
  queue,       \* the `workflow` BullMQ queue
  dlq,         \* the `dead-letter` BullMQ queue
  run,         \* processJob's local state for each delivery
  op,          \* DeadLetterService.retry's local state for each operator
  cancel,      \* JobsService.cancel's local state for each client
  crashes, rejections

rows   == <<jobStatus, stepStatus>>
api    == <<submit, op, cancel>>
faults == <<crashes, rejections>>
vars   == <<workflow, rows, api, queue, dlq, run, faults>>

JobStatuses  == {"PENDING", "RUNNING", "RETRYING", "COMPLETED", "FAILED", "CANCELLED"}
Terminal     == {"COMPLETED", "FAILED", "CANCELLED"}
StepStatuses == {"PENDING", "RUNNING", "COMPLETED", "FAILED", "SKIPPED", "COMPENSATED"}
SettledStep  == {"COMPLETED", "SKIPPED", "COMPENSATED"}

\* The next thing processJob does.  "idle": no process runs the delivery.
Unsettled == {"loaded", "poll", "begin", "execute", "persisted", "retrying",
              "recover", "compensate", "resolved", "skipped", "exhausted", "finalize"}
RunPcs    == Unsettled \union {"idle", "deadletter", "notify"}

IdleRun  == [pc |-> "idle", order |-> [s \in Steps |-> s], pos |-> 1, attempt |-> 1, todo |-> {}]
Unused   == [state |-> "unused", job |-> NoJob, stalls |-> 0]
NoEntry  == [state |-> "unused", job |-> NoJob]
IdleOp   == [pc |-> "idle", entry |-> 0]

BullJobs == [state  : {"unused", "waiting", "active", "completed", "failed"},
             job    : Jobs \union {NoJob},
             stalls : 0..MaxStalledCount]
Entries  == [state : {"unused", "present", "removed"}, job : Jobs \union {NoJob}]
Locals   == [pc : RunPcs, order : StepOrders, pos : Steps,
             attempt : 1..(MaxRetriesAllowed + 1), todo : SUBSET Steps]
Retries  == [pc : {"idle", "found", "fetched", "added", "removed"},
             entry : DeadLetters \union {0}]
Cancels  == [pc : {"idle", "checked", "done"}, job : Jobs \union {NoJob}]

TypeOK ==
  /\ workflow \in [Jobs -> Workflows]
  /\ jobStatus \in [Jobs -> JobStatuses \union {"NONE"}]
  /\ stepStatus \in [Jobs -> [Steps -> StepStatuses]]
  /\ submit \in [Jobs -> {"new", "created", "enqueued", "failed"}]
  /\ queue \in [Deliveries -> BullJobs]
  /\ dlq \in [DeadLetters -> Entries]
  /\ run \in [Deliveries -> Locals]
  /\ op \in [Operators -> Retries]
  /\ cancel \in [Cancellers -> Cancels]
  /\ crashes \in 0..MaxCrashes
  /\ rejections \in 0..MaxRejections

Init ==
  /\ workflow \in [Jobs -> Workflows]
  /\ jobStatus = [j \in Jobs |-> "NONE"]
  /\ stepStatus = [j \in Jobs |-> [s \in Steps |-> "PENDING"]]
  /\ submit = [j \in Jobs |-> "new"]
  /\ queue = [d \in Deliveries |-> Unused]
  /\ dlq = [e \in DeadLetters |-> NoEntry]
  /\ run = [d \in Deliveries |-> IdleRun]
  /\ op = [o \in Operators |-> IdleOp]
  /\ cancel = [c \in Cancellers |-> [pc |-> "idle", job |-> NoJob]]
  /\ crashes = 0
  /\ rejections = 0

-----------------------------------------------------------------------------
(* Helpers *)

\* BullMQ numbers its jobs in the order they are added.
NextId(table, i) ==
  /\ table[i].state = "unused"
  /\ \A k \in DOMAIN table : k < i => table[k].state # "unused"

\* add() on the workflow queue
AddDelivery(j) ==
  \E d \in Deliveries :
    /\ NextId(queue, d)
    /\ queue' = [queue EXCEPT ![d] = [state |-> "waiting", job |-> j, stalls |-> 0]]

At(d, pc)   == run[d].pc = pc
Goto(d, pc) == run' = [run EXCEPT ![d].pc = pc]
Live        == {d \in Deliveries : run[d].pc # "idle"}
JobOf(d)    == queue[d].job
StepOf(d)   == run[d].order[run[d].pos]
DefOf(d)    == workflow[JobOf(d)][StepOf(d)]
Outcomes(d) == DispatchOutcomes(SelectStrategy(DefOf(d).policy, run[d].attempt))
LastAttempt(d) == run[d].attempt >= MaxAttempts(DefOf(d).policy)

SetJob(j, status)     == jobStatus' = [jobStatus EXCEPT ![j] = status]
SetStep(j, s, status) == stepStatus' = [stepStatus EXCEPT ![j][s] = status]

\* The promise of processJob settles: BullMQ records it, the locals are gone.
EndDelivery(d, state) ==
  /\ queue' = [queue EXCEPT ![d].state = state]
  /\ run' = [run EXCEPT ![d] = IdleRun]

\* Mutant of Advance: the loop runs one step too far.
AdvancePastEnd(d) ==
  run' = [run EXCEPT ![d].pc = "poll", ![d].pos = @ + 1, ![d].attempt = 1]

\* The next round of runSteps' loop, or its end.
Advance(d) ==
  run' = [run EXCEPT ![d].pc = IF run[d].pos = StepCount THEN "finalize" ELSE "poll",
                     ![d].pos = IF run[d].pos = StepCount THEN @ ELSE @ + 1,
                     ![d].attempt = 1]

-----------------------------------------------------------------------------
(* POST /jobs *)

CreateJob(j) ==
  /\ submit[j] = "new"
  /\ submit' = [submit EXCEPT ![j] = "created"]
  /\ SetJob(j, "PENDING")
  /\ UNCHANGED <<workflow, stepStatus, op, cancel, queue, dlq, run, faults>>

EnqueueWorkflow(j) ==
  /\ submit[j] = "created"
  /\ submit' = [submit EXCEPT ![j] = "enqueued"]
  /\ AddDelivery(j)
  /\ UNCHANGED <<workflow, rows, op, cancel, dlq, run, faults>>

\* The audit write or the add rejects, or the API process dies: the row stays
\* PENDING, not enqueued.
EnqueueFails(j) ==
  /\ submit[j] = "created"
  /\ rejections < MaxRejections
  /\ rejections' = rejections + 1
  /\ submit' = [submit EXCEPT ![j] = "failed"]
  /\ UNCHANGED <<workflow, rows, op, cancel, queue, dlq, run, crashes>>

-----------------------------------------------------------------------------
(* PATCH /jobs/:id/cancel: findOne and the check, then updateStatus *)

CancelRead(c) ==
  /\ cancel[c].pc = "idle"
  /\ \E j \in Jobs :
       /\ jobStatus[j] \notin Terminal \union {"NONE"}
       /\ cancel' = [cancel EXCEPT ![c] = [pc |-> "checked", job |-> j]]
  /\ UNCHANGED <<workflow, rows, submit, op, queue, dlq, run, faults>>

CancelWrite(c) ==
  /\ cancel[c].pc = "checked"
  /\ cancel' = [cancel EXCEPT ![c].pc = "done"]
  /\ SetJob(cancel[c].job, "CANCELLED")
  /\ UNCHANGED <<workflow, stepStatus, submit, op, queue, dlq, run, faults>>

-----------------------------------------------------------------------------
(* processJob *)

CanStart(d) ==
  /\ queue[d].state = "waiting"
  /\ Cardinality(Live) < Concurrency

\* Mutant of SkipCancelled: whatever is not PENDING is taken for done.
SkipStarted(d) ==
  /\ CanStart(d)
  /\ jobStatus[JobOf(d)] # "PENDING"
  /\ EndDelivery(d, "completed")
  /\ UNCHANGED <<workflow, rows, api, dlq, faults>>

SkipCancelled(d) ==
  /\ CanStart(d)
  /\ jobStatus[JobOf(d)] = "CANCELLED"
  /\ EndDelivery(d, "completed")
  /\ UNCHANGED <<workflow, rows, api, dlq, faults>>

LoadJob(d) ==
  /\ CanStart(d)
  /\ jobStatus[JobOf(d)] # "CANCELLED"
  /\ queue' = [queue EXCEPT ![d].state = "active"]
  /\ \E order \in LoadOrders :
       run' = [run EXCEPT ![d] = [IdleRun EXCEPT !.pc = "loaded", !.order = order]]
  /\ UNCHANGED <<workflow, rows, api, dlq, faults>>

MarkStarted(d) ==
  /\ At(d, "loaded")
  /\ SetJob(JobOf(d), "RUNNING")
  /\ Goto(d, "poll")
  /\ UNCHANGED <<workflow, stepStatus, api, queue, dlq, faults>>

\* currentStatus: a CANCELLED job leaves the loop with jobFailed = false.
PollStatus(d) ==
  /\ At(d, "poll")
  /\ Goto(d, IF jobStatus[JobOf(d)] = "CANCELLED" THEN "finalize" ELSE "begin")
  /\ UNCHANGED <<workflow, rows, api, queue, dlq, faults>>

MarkStepRunning(d) ==
  /\ At(d, "begin")
  /\ SetStep(JobOf(d), StepOf(d), "RUNNING")
  /\ Goto(d, "execute")
  /\ UNCHANGED <<workflow, jobStatus, api, queue, dlq, faults>>

\* StepHandlerRegistry.resolve throws outside the try block.
HandlerMissing(d) ==
  /\ At(d, "execute")
  /\ ~DefOf(d).registered
  /\ EndDelivery(d, "failed")
  /\ UNCHANGED <<workflow, rows, api, dlq, faults>>

PersistStepSuccess(d) ==
  /\ At(d, "execute")
  /\ DefOf(d).registered
  /\ SetStep(JobOf(d), StepOf(d), "COMPLETED")
  /\ Goto(d, "persisted")
  /\ UNCHANGED <<workflow, jobStatus, api, queue, dlq, faults>>

StepSucceeds(d) ==
  /\ At(d, "persisted")
  /\ Advance(d)
  /\ UNCHANGED <<workflow, rows, api, queue, dlq, faults>>

\* The catch block up to the FAILED write.
RecordFailure(d) ==
  /\ SetStep(JobOf(d), StepOf(d), "FAILED")
  /\ Goto(d, IF LastAttempt(d) THEN "recover" ELSE "retrying")
  /\ UNCHANGED <<workflow, jobStatus, api, queue, dlq, crashes>>

AttemptFails(d) ==
  /\ At(d, "execute")
  /\ DefOf(d).registered
  /\ RecordFailure(d)
  /\ UNCHANGED rejections

\* The STEP_COMPLETED audit write rejects inside the try block.
CatchAfterPersist(d) ==
  /\ At(d, "persisted")
  /\ rejections < MaxRejections
  /\ rejections' = rejections + 1
  /\ RecordFailure(d)

MarkRetrying(d) ==
  /\ At(d, "retrying")
  /\ SetJob(JobOf(d), "RETRYING")
  /\ Goto(d, "recover")
  /\ UNCHANGED <<workflow, stepStatus, api, queue, dlq, faults>>

-----------------------------------------------------------------------------
(* RecoveryService.execute, as far as it changes step rows *)

RecoveryResolves(d) ==
  /\ At(d, "recover")
  /\ "resolved" \in Outcomes(d)
  /\ Goto(d, "resolved")
  /\ UNCHANGED <<workflow, rows, api, queue, dlq, faults>>

HandleSkip(d) ==
  /\ At(d, "recover")
  /\ "skipped" \in Outcomes(d)
  /\ SetStep(JobOf(d), StepOf(d), "SKIPPED")
  /\ Goto(d, "skipped")
  /\ UNCHANGED <<workflow, jobStatus, api, queue, dlq, faults>>

\* handleCompensate reads the COMPLETED steps once, then writes them one by one.
HandleCompensate(d) ==
  /\ At(d, "recover")
  /\ "compensated" \in Outcomes(d)
  /\ run' = [run EXCEPT ![d].pc = "compensate",
                        ![d].todo = {s \in Steps : stepStatus[JobOf(d)][s] = "COMPLETED"}]
  /\ UNCHANGED <<workflow, rows, api, queue, dlq, faults>>

CompensateStep(d) ==
  /\ At(d, "compensate")
  /\ \E s \in run[d].todo :
       /\ SetStep(JobOf(d), s, "COMPENSATED")
       /\ run' = [run EXCEPT ![d].todo = @ \ {s}]
  /\ UNCHANGED <<workflow, jobStatus, api, queue, dlq, faults>>

\* Mutant of CompensateDone: some step may be left out.
CompensateSome(d) ==
  /\ At(d, "compensate")
  /\ Goto(d, "resolved")
  /\ UNCHANGED <<workflow, rows, api, queue, dlq, faults>>

CompensateDone(d) ==
  /\ At(d, "compensate")
  /\ run[d].todo = {}
  /\ Goto(d, "resolved")
  /\ UNCHANGED <<workflow, rows, api, queue, dlq, faults>>

\* Mutant of NextAttempt: the attempts are not counted.
NextAttemptUncounted(d) ==
  run' = [run EXCEPT ![d].pc = IF LastAttempt(d) THEN "exhausted" ELSE "execute",
                     ![d].todo = {}]

\* The next round of the attempt loop, or its end.
NextAttempt(d) ==
  run' = [run EXCEPT ![d].pc = IF LastAttempt(d) THEN "exhausted" ELSE "execute",
                     ![d].attempt = IF LastAttempt(d) THEN @ ELSE @ + 1,
                     ![d].todo = {}]

RecoveryFails(d) ==
  /\ At(d, "recover")
  /\ "failed" \in Outcomes(d)
  /\ NextAttempt(d)
  /\ UNCHANGED <<workflow, rows, api, queue, dlq, faults>>

\* A handler that writes rejects: execute's own catch turns it into a failure.
RecoveryRejected(d) ==
  /\ run[d].pc \in {"recover", "compensate"}
  /\ "failed" \notin Outcomes(d)
  /\ rejections < MaxRejections
  /\ rejections' = rejections + 1
  /\ NextAttempt(d)
  /\ UNCHANGED <<workflow, rows, api, queue, dlq, crashes>>

\* Mutant of ResolveStep: the recovered step is started once more.
ResolveAndRestart(d) ==
  /\ run[d].pc \in {"resolved", "skipped"}
  /\ SetStep(JobOf(d), StepOf(d), IF At(d, "skipped") THEN "SKIPPED" ELSE "COMPLETED")
  /\ Goto(d, "begin")
  /\ UNCHANGED <<workflow, jobStatus, api, queue, dlq, faults>>

\* A successful recovery settles the step.
ResolveStep(d) ==
  /\ run[d].pc \in {"resolved", "skipped"}
  /\ SetStep(JobOf(d), StepOf(d), IF At(d, "skipped") THEN "SKIPPED" ELSE "COMPLETED")
  /\ Advance(d)
  /\ UNCHANGED <<workflow, jobStatus, api, queue, dlq, faults>>

-----------------------------------------------------------------------------
(* The end of a step, of the job and of the delivery *)

\* Mutant of SkipExhausted: the loop goes on without the SKIPPED write.
SkipSilently(d) ==
  /\ At(d, "exhausted")
  /\ ~DefOf(d).critical
  /\ Advance(d)
  /\ UNCHANGED <<workflow, rows, api, queue, dlq, faults>>

SkipExhausted(d) ==
  /\ At(d, "exhausted")
  /\ ~DefOf(d).critical
  /\ SetStep(JobOf(d), StepOf(d), "SKIPPED")
  /\ Advance(d)
  /\ UNCHANGED <<workflow, jobStatus, api, queue, dlq, faults>>

\* Mutants of FailJob: no `break'; no isCritical.
FailAndContinue(d) ==
  /\ At(d, "exhausted")
  /\ DefOf(d).critical
  /\ SetJob(JobOf(d), "FAILED")
  /\ Advance(d)
  /\ UNCHANGED <<workflow, stepStatus, api, queue, dlq, faults>>

FailUncritical(d) ==
  /\ At(d, "exhausted")
  /\ SetJob(JobOf(d), "FAILED")
  /\ Goto(d, "deadletter")
  /\ UNCHANGED <<workflow, stepStatus, api, queue, dlq, faults>>

FailJob(d) ==
  /\ At(d, "exhausted")
  /\ DefOf(d).critical
  /\ SetJob(JobOf(d), "FAILED")
  /\ Goto(d, "deadletter")
  /\ UNCHANGED <<workflow, stepStatus, api, queue, dlq, faults>>

MoveToDeadLetter(d) ==
  /\ At(d, "deadletter")
  /\ \E e \in DeadLetters :
       /\ NextId(dlq, e)
       /\ dlq' = [dlq EXCEPT ![e] = [state |-> "present", job |-> JobOf(d)]]
  /\ Goto(d, "notify")
  /\ UNCHANGED <<workflow, rows, api, queue, faults>>

\* Mutant of Finalize: update only where status = RUNNING.
FinalizeRunning(d) ==
  /\ At(d, "finalize")
  /\ jobStatus' = [jobStatus EXCEPT ![JobOf(d)] = IF @ = "RUNNING" THEN "COMPLETED" ELSE @]
  /\ Goto(d, "notify")
  /\ UNCHANGED <<workflow, stepStatus, api, queue, dlq, faults>>

Finalize(d) ==
  /\ At(d, "finalize")
  /\ SetJob(JobOf(d), "COMPLETED")
  /\ Goto(d, "notify")
  /\ UNCHANGED <<workflow, stepStatus, api, queue, dlq, faults>>

\* notifyTerminalStatus never throws from dispatch; the Bull job completes.
Notify(d) ==
  /\ At(d, "notify")
  /\ EndDelivery(d, "completed")
  /\ UNCHANGED <<workflow, rows, api, dlq, faults>>

-----------------------------------------------------------------------------
(* Faults, and what BullMQ makes of them *)

\* An awaited call outside the try blocks rejects: processJob rejects and,
\* with attempts: 1, BullMQ moves the delivery to its failed set.  Behind a
\* persisted success it takes two: STEP_COMPLETED, then the FAILURE_DETECTED
\* of the catch block.
RejectedCall(d) ==
  /\ run[d].pc \notin {"idle", "compensate"}
  /\ rejections' = rejections + (IF At(d, "persisted") THEN 2 ELSE 1)
  /\ rejections' <= MaxRejections
  /\ EndDelivery(d, "failed")
  /\ UNCHANGED <<workflow, rows, api, dlq, crashes>>

\* The worker process dies and is restarted: its deliveries stay active
\* without a process.
CrashWorker ==
  /\ Live # {}
  /\ crashes < MaxCrashes
  /\ crashes' = crashes + 1
  /\ run' = [d \in Deliveries |-> IdleRun]
  /\ UNCHANGED <<workflow, rows, api, queue, dlq, rejections>>

\* BullMQ's stalled checker.
StalledCheck(d) ==
  /\ queue[d].state = "active"
  /\ At(d, "idle")
  /\ \/ /\ queue[d].stalls < MaxStalledCount
        /\ queue' = [queue EXCEPT ![d].state = "waiting", ![d].stalls = @ + 1]
     \/ /\ queue[d].stalls >= MaxStalledCount
        /\ queue' = [queue EXCEPT ![d].state = "failed"]
  /\ UNCHANGED <<workflow, rows, api, dlq, run, faults>>

-----------------------------------------------------------------------------
(* POST /dead-letter/:bullJobId/retry *)

\* Whose entry it is AdminApi asks (FindJob): there is one tenant here.
RetryFind(o) ==
  /\ op[o].pc = "idle"
  /\ \E e \in DeadLetters :
       /\ dlq[e].state = "present"
       /\ op' = [op EXCEPT ![o] = [pc |-> "found", entry |-> e]]
  /\ UNCHANGED <<workflow, rows, submit, cancel, queue, dlq, run, faults>>

\* Mutant of RetryFetch: the entry is removed before the job is added.
RetryRemovesFirst(o) ==
  /\ op[o].pc = "found"
  /\ dlq' = [dlq EXCEPT ![op[o].entry].state = "removed"]
  /\ op' = [op EXCEPT ![o].pc = "fetched"]
  /\ UNCHANGED <<workflow, rows, submit, cancel, queue, run, faults>>

\* getJob: another operator may have removed the entry meanwhile.
RetryFetch(o) ==
  /\ op[o].pc = "found"
  /\ op' = [op EXCEPT ![o] = IF dlq[op[o].entry].state = "present"
                             THEN [@ EXCEPT !.pc = "fetched"] ELSE IdleOp]
  /\ UNCHANGED <<workflow, rows, submit, cancel, queue, dlq, run, faults>>

RetryAdd(o) ==
  /\ op[o].pc = "fetched"
  /\ AddDelivery(dlq[op[o].entry].job)
  /\ op' = [op EXCEPT ![o].pc = "added"]
  /\ UNCHANGED <<workflow, rows, submit, cancel, dlq, run, faults>>

RetryRemove(o) ==
  /\ op[o].pc = "added"
  /\ dlq' = [dlq EXCEPT ![op[o].entry].state = "removed"]
  /\ op' = [op EXCEPT ![o].pc = "removed"]
  /\ UNCHANGED <<workflow, rows, submit, cancel, queue, run, faults>>

RetryReset(o) ==
  /\ op[o].pc = "removed"
  /\ SetJob(dlq[op[o].entry].job, "PENDING")
  /\ op' = [op EXCEPT ![o] = IdleOp]
  /\ UNCHANGED <<workflow, stepStatus, submit, cancel, queue, dlq, run, faults>>

\* A call of the request rejects, or the API process dies.
RetryAborts(o) ==
  /\ op[o].pc # "idle"
  /\ op' = [op EXCEPT ![o] = IdleOp]
  /\ UNCHANGED <<workflow, rows, submit, cancel, queue, dlq, run, faults>>

-----------------------------------------------------------------------------
Submission(j) == CreateJob(j) \/ EnqueueWorkflow(j) \/ EnqueueFails(j)

Cancellation(c) == CancelRead(c) \/ CancelWrite(c)

\* The steps of the attempt loop.
Attempt(d) ==
  \/ HandlerMissing(d) \/ PersistStepSuccess(d) \/ StepSucceeds(d)
  \/ AttemptFails(d) \/ MarkRetrying(d)

Recovery(d) ==
  \/ RecoveryResolves(d) \/ HandleSkip(d) \/ HandleCompensate(d)
  \/ CompensateStep(d) \/ CompensateDone(d) \/ RecoveryFails(d) \/ ResolveStep(d)

Lifecycle(d) ==
  \/ SkipCancelled(d) \/ LoadJob(d) \/ MarkStarted(d) \/ PollStatus(d)
  \/ MarkStepRunning(d) \/ SkipExhausted(d) \/ FailJob(d) \/ MoveToDeadLetter(d)
  \/ Finalize(d) \/ Notify(d)

\* What the worker does when no call of it fails.
Work(d) == Attempt(d) \/ Recovery(d) \/ Lifecycle(d)

Fault(d) == CatchAfterPersist(d) \/ RecoveryRejected(d) \/ RejectedCall(d)

Retry(o) ==
  \/ RetryFind(o) \/ RetryFetch(o) \/ RetryAdd(o)
  \/ RetryRemove(o) \/ RetryReset(o) \/ RetryAborts(o)

Next ==
  \/ \E j \in Jobs : Submission(j)
  \/ \E c \in Cancellers : Cancellation(c)
  \/ \E d \in Deliveries : Work(d) \/ Fault(d) \/ StalledCheck(d)
  \/ CrashWorker
  \/ \E o \in Operators : Retry(o)

Spec == Init /\ [][Next]_vars

\* The worker keeps pulling and every call it awaits settles (the handlers,
\* the webhook and Redis all have timeouts), a crashed worker is restarted
\* and BullMQ keeps checking for stalled jobs, and a submission that has
\* written the row goes on to the queue.  Nobody has to submit, cancel,
\* retry, crash or fail.
FairSpec ==
  /\ Spec
  /\ \A j \in Jobs : WF_vars(EnqueueWorkflow(j) \/ EnqueueFails(j))
  /\ \A d \in Deliveries : WF_vars(Work(d)) /\ WF_vars(StalledCheck(d))
=============================================================================
