-------------------------- MODULE JobOutcomeProofs --------------------------
(***************************************************************************)
(* More proofs about the job engine: what the rows of a job say when it    *)
(* has ended, and what its webhook tells; for any number of jobs, steps,   *)
(* load orders, cancellations, crashes, rejected calls and operators.      *)
(*                                                                         *)
(* An operator who retries a dead letter makes a second delivery of the    *)
(* job.  What the deliveries of a job write is orderly as long as no two   *)
(* of them are at work at the same time, whatever crashes interrupt and    *)
(* repeat them (OInv); where two are, the properties of the rows fail, and *)
(* the theorems say so in their hypothesis.                                *)
(***************************************************************************)
EXTENDS WorkflowEngineProofs

Used(d) == queue[d].state # "unused"

Mine(d, j) == Used(d) /\ JobOf(d) = j

-----------------------------------------------------------------------------
(* What the webhook tells, with any number of operators *)

\* A job that was retried into a second delivery.
Two(j) ==
  \E d, e \in Deliveries : d # e /\ Used(d) /\ Used(e) /\ JobOf(d) = j /\ JobOf(e) = j

\* A delivery exists only of a job that was submitted, a dead letter only of
\* one that was delivered, and who re-queued one has made a second delivery.
Traced ==
  /\ \A d \in Deliveries : Used(d) => submit[JobOf(d)] = "enqueued"
  /\ \A e \in DeadLetters : dlq[e].state # "unused" =>
       \E d \in Deliveries : Used(d) /\ JobOf(d) = dlq[e].job
  /\ \A o \in Operators : op[o].pc \in {"added", "removed"} => Two(dlq[op[o].entry].job)

Told ==
  \A d \in Deliveries : run[d].pc \in {"deadletter", "notify"} =>
    jobStatus[JobOf(d)] \in Terminal \/ Two(JobOf(d))

\* Deliveries are never forgotten, nor do they change hands.
LEMMA DeliveriesStay ==
  ASSUME TypeOK, TypeOK', SlotsOK, Effect
  PROVE  /\ \A d \in Deliveries : Used(d) => Used(d)' /\ JobOf(d)' = JobOf(d)
         /\ \A j \in Jobs : Two(j) => Two(j)'
<1>1. ASSUME NEW d \in Deliveries, Used(d)
      PROVE  Used(d)' /\ JobOf(d)' = JobOf(d)
  BY <1>1 DEF Effect, Progress, Closes, Loads, Stalls, DeadLettered, Ends, Crashes, Submits, Appears,
      CancelMoves, RetryReads, RetryAdds, RetryRemoves, BecomesState, Used, JobOf
<1>2. ASSUME NEW j \in Jobs, Two(j)
      PROVE  Two(j)'
  <2>1. PICK d, e \in Deliveries : d # e /\ Used(d) /\ Used(e) /\ JobOf(d) = j /\ JobOf(e) = j
    BY <1>2 DEF Two
  <2> QED BY <1>1, <2>1 DEF Two
<1> QED BY <1>1, <1>2

\* What the worker does.
LEMMA WorkerTold ==
  ASSUME TypeOK, TypeOK', SlotsOK, Traced, Told, Effect, UNCHANGED <<submit, op>>,
         NEW d \in Deliveries,
         \/ Progress(d) \/ Closes(d) \/ Loads(d) \/ Stalls(d) \/ DeadLettered(d)
         \/ Ends(d, "exhausted", "deadletter", "FAILED") \/ Ends(d, "finalize", "notify", "COMPLETED")
  PROVE  Traced' /\ Told'
<1>1. \A x \in Deliveries : /\ Used(x) => Used(x)' /\ JobOf(x)' = JobOf(x)
                            /\ Used(x)' => Used(x)
  <2>1. \A x \in Deliveries : Used(x) => Used(x)' /\ JobOf(x)' = JobOf(x)
    BY DeliveriesStay
  <2>2. \A x \in Deliveries : queue'[x] = queue[x] \/ (x = d /\ Used(d))
    BY DEF Progress, Closes, Loads, Stalls, DeadLettered, Ends, BecomesState, SlotsOK, Used
  <2> QED BY <2>1, <2>2 DEF Used
<1>2. ASSUME NEW x \in Deliveries, run[x].pc # "idle"
      PROVE  Used(x) /\ JobOf(x) \in Jobs
  BY <1>2 DEF SlotsOK, Used, JobOf
<1>3. \A x \in Deliveries : Used(x)' => submit'[JobOf(x)'] = "enqueued"
  BY <1>1 DEF Traced
<1>4. ASSUME NEW e \in DeadLetters, dlq'[e].state # "unused"
      PROVE  \E x \in Deliveries : Used(x)' /\ JobOf(x)' = dlq'[e].job
  <2>1. CASE dlq'[e] = dlq[e]
    BY <1>1, <1>4, <2>1 DEF Traced
  <2>2. CASE dlq'[e] # dlq[e]
    <3>1. dlq'[e].job = JobOf(d) /\ run[d].pc = "deadletter"
      BY <2>2 DEF Progress, Closes, Loads, Stalls, DeadLettered, Ends
    <3> QED BY <1>1, <1>2, <3>1
  <2> QED BY <2>1, <2>2
<1>5. ASSUME NEW o \in Operators, op[o].pc \in {"added", "removed"}
      PROVE  Two(dlq[op[o].entry].job)' /\ dlq'[op[o].entry].job = dlq[op[o].entry].job
  <2>1. op[o].entry \in DeadLetters /\ dlq[op[o].entry].state # "unused" /\ dlq[op[o].entry].job \in Jobs
    BY <1>5 DEF SlotsOK
  <2>2. dlq'[op[o].entry].job = dlq[op[o].entry].job
    BY <2>1 DEF Progress, Closes, Loads, Stalls, DeadLettered, Ends
  <2> QED BY <1>5, <2>1, <2>2, DeliveriesStay DEF Traced, Two
<1>6. ASSUME NEW x \in Deliveries, run'[x].pc \in {"deadletter", "notify"}
      PROVE  jobStatus'[JobOf(x)'] \in Terminal \/ Two(JobOf(x))'
  <2>1. run[x].pc # "idle" /\ (x # d => run'[x] = run[x])
    BY <1>6 DEF Progress, Closes, Loads, Stalls, DeadLettered, Ends, MovesTo, Unsettled
  <2>2. Used(x) /\ JobOf(x)' = JobOf(x) /\ JobOf(x) \in Jobs
    BY <1>1, <1>2, <2>1
  <2>3. Two(JobOf(x)) => Two(JobOf(x))'
    <3>1. PICK j \in Jobs : j = JobOf(x)
      BY <2>2
    <3> QED BY <2>2, <3>1, DeliveriesStay DEF Two
  <2>4. CASE jobStatus'[JobOf(x)] \in Terminal
    BY <2>2, <2>4
  <2>5. CASE jobStatus'[JobOf(x)] \notin Terminal
    <3>1. CASE x = d
      BY <1>6, <2>3, <2>5, <3>1 DEF Told, Progress, Closes, Loads, Stalls, DeadLettered, Ends, MovesTo,
         Unsettled, Terminal
    <3>2. CASE x # d
      <4>1. CASE jobStatus'[JobOf(x)] = jobStatus[JobOf(x)]
        BY <1>6, <2>1, <2>3, <2>5, <3>2, <4>1 DEF Told
      <4>2. CASE jobStatus'[JobOf(x)] # jobStatus[JobOf(x)]
        <5>1. JobOf(x) = JobOf(d) /\ run[d].pc # "idle"
          BY <2>2, <2>5, <4>2 DEF Progress, Closes, Loads, Stalls, DeadLettered, Ends, Unsettled, Terminal
        <5>2. Two(JobOf(x))
          BY <1>2, <2>2, <3>2, <5>1 DEF Two
        <5> QED BY <2>3, <5>2
      <4> QED BY <4>1, <4>2
    <3> QED BY <3>1, <3>2
  <2> QED BY <2>4, <2>5
<1>7. Traced'
  BY <1>3, <1>4, <1>5 DEF Traced
<1>8. Told'
  BY <1>6 DEF Told
<1> QED BY <1>7, <1>8

\* What happens while no delivery and no entry changes, and statuses only where
\* it does not matter.
LEMMA QuietTold ==
  ASSUME TypeOK, TypeOK', SlotsOK, Traced, Told, Effect,
         UNCHANGED <<run, dlq>>,
         \A j \in Jobs : submit[j] = "enqueued" => submit'[j] = "enqueued",
         \A d \in Deliveries : Used(d)' /\ ~Used(d) => submit'[JobOf(d)'] = "enqueued",
         \A o \in Operators : op'[o].pc \in {"added", "removed"} => Two(dlq[op[o].entry].job)',
         \A j \in Jobs : jobStatus'[j] # jobStatus[j] =>
           jobStatus'[j] \in Terminal \/ Two(j) \/ submit[j] = "new"
  PROVE  Traced' /\ Told'
<1>1. \A x \in Deliveries : Used(x) => Used(x)' /\ JobOf(x)' = JobOf(x) /\ JobOf(x) \in Jobs
  BY DeliveriesStay DEF SlotsOK, Used, JobOf
<1>2. \A x \in Deliveries : Used(x)' => submit'[JobOf(x)'] = "enqueued"
  BY <1>1 DEF Traced
<1>3. \A e \in DeadLetters : dlq'[e].state # "unused" =>
        \E x \in Deliveries : Used(x)' /\ JobOf(x)' = dlq'[e].job
  BY <1>1 DEF Traced
<1>5. Traced'
  BY <1>2, <1>3 DEF Traced, Two
<1>6. ASSUME NEW x \in Deliveries, run[x].pc \in {"deadletter", "notify"}
      PROVE  jobStatus'[JobOf(x)'] \in Terminal \/ Two(JobOf(x))'
  <2>1. Used(x)
    BY <1>6 DEF SlotsOK, Used
  <2>2. PICK j \in Jobs : j = JobOf(x) /\ j = JobOf(x)'
    BY <1>1, <2>1
  <2>3. jobStatus'[j] \in Terminal \/ Two(j)
    BY <1>6, <2>1, <2>2 DEF Told, Traced
  <2>4. Two(j) => Two(j)'
    BY DeliveriesStay
  <2> QED BY <2>2, <2>3, <2>4 DEF Two
<1> QED BY <1>5, <1>6 DEF Told

\* Requests that are under way keep their second delivery.
LEMMA OpsKeepTwo ==
  ASSUME TypeOK, TypeOK', SlotsOK, Traced, Effect, UNCHANGED dlq,
         NEW o \in Operators, op[o].pc \in {"added", "removed"}, op'[o].entry = op[o].entry
  PROVE  Two(dlq[op[o].entry].job)'
<1>1. PICK j \in Jobs : j = dlq[op[o].entry].job
  BY DEF SlotsOK
<1>2. Two(j)'
  BY <1>1, DeliveriesStay DEF Traced
<1> QED BY <1>1, <1>2 DEF Two

LEMMA SubmissionTold ==
  ASSUME TypeOK, TypeOK', SlotsOK, Traced, Told, Effect, NEW j \in Jobs, Submission(j)
  PROVE  Traced' /\ Told'
<1> USE DEF rows, api, faults
<1>1. UNCHANGED <<run, dlq, op>> /\ \A i \in Jobs : submit[i] = "enqueued" => submit'[i] = "enqueued"
  BY DEF Submission, CreateJob, EnqueueWorkflow, EnqueueFails, TypeOK
<1>2. \A d \in Deliveries : Used(d)' /\ ~Used(d) => submit'[JobOf(d)'] = "enqueued"
  <2> SUFFICES ASSUME NEW d \in Deliveries, Used(d)', ~Used(d)
               PROVE  submit'[JobOf(d)'] = "enqueued"
    OBVIOUS
  <2>1. EnqueueWorkflow(j)
    BY DEF Submission, CreateJob, EnqueueFails, Used
  <2>2. JobOf(d)' = j /\ submit'[j] = "enqueued"
    BY <2>1 DEF EnqueueWorkflow, AddDelivery, Used, JobOf, TypeOK
  <2> QED BY <2>2
<1>3. \A i \in Jobs : jobStatus'[i] # jobStatus[i] => submit[i] = "new"
  BY DEF Submission, CreateJob, EnqueueWorkflow, EnqueueFails, SetJob, TypeOK
<1>4. \A o \in Operators : op'[o].pc \in {"added", "removed"} => Two(dlq[op[o].entry].job)'
  BY <1>1, OpsKeepTwo
<1> QED BY <1>1, <1>2, <1>3, <1>4, QuietTold

LEMMA CancellationTold ==
  ASSUME TypeOK, TypeOK', SlotsOK, Traced, Told, Effect, NEW c \in Cancellers, Cancellation(c)
  PROVE  Traced' /\ Told'
<1> USE DEF rows, api, faults
<1>1. UNCHANGED <<run, dlq, op, submit, queue>>
  BY DEF Cancellation, CancelRead, CancelWrite
<1>2. \A i \in Jobs : jobStatus'[i] # jobStatus[i] => jobStatus'[i] \in Terminal
  BY DEF Cancellation, CancelRead, CancelWrite, SetJob, TypeOK, Terminal
<1>3. \A o \in Operators : op'[o].pc \in {"added", "removed"} => Two(dlq[op[o].entry].job)'
  BY <1>1, OpsKeepTwo
<1>4. \A d \in Deliveries : Used(d)' => Used(d)
  BY <1>1 DEF Used
<1> QED BY <1>1, <1>2, <1>3, <1>4, QuietTold

LEMMA RetryTold ==
  ASSUME TypeOK, TypeOK', SlotsOK, Traced, Told, Effect, NEW o \in Operators, Retry(o)
  PROVE  Traced' /\ Told'
<1> USE DEF rows, api, faults
<1>0. UNCHANGED <<run, submit>> /\ \A p \in Operators \ {o} : op'[p] = op[p]
  BY DEF Retry, RetryFind, RetryFetch, RetryAdd, RetryRemove, RetryReset, RetryAborts, TypeOK
<1>1. CASE RetryAdd(o)
  <2>1. op[o].entry \in DeadLetters /\ dlq[op[o].entry].state # "unused" /\ UNCHANGED <<dlq, jobStatus>>
        /\ op[o].pc = "fetched" /\ op'[o].entry = op[o].entry
    BY <1>1 DEF RetryAdd, SlotsOK, TypeOK, Retries
  <2>2. PICK j \in Jobs : j = dlq[op[o].entry].job
    BY <2>1 DEF SlotsOK
  <2>3. PICK d \in Deliveries : /\ ~Used(d) /\ queue'[d] = [state |-> "waiting", job |-> j, stalls |-> 0]
                                /\ \A x \in Deliveries \ {d} : queue'[x] = queue[x]
    BY <1>1, <2>2 DEF RetryAdd, AddDelivery, NextId, Used, TypeOK
  <2>4. PICK e \in Deliveries : Used(e) /\ JobOf(e) = j
    BY <2>1, <2>2 DEF Traced
  <2>5. Two(j)'
    BY <2>3, <2>4 DEF Two, Used, JobOf
  <2>6. Two(dlq[op[o].entry].job)'
    BY <2>1, <2>2, <2>5 DEF Two
  <2>7. \A p \in Operators : op'[p].pc \in {"added", "removed"} => Two(dlq[op[p].entry].job)'
    <3> SUFFICES ASSUME NEW p \in Operators \ {o}, op[p].pc \in {"added", "removed"}
                 PROVE  Two(dlq[op[p].entry].job)'
      BY <1>0, <2>6
    <3> QED BY <1>0, <2>1, OpsKeepTwo
  <2>8. \A x \in Deliveries : Used(x)' /\ ~Used(x) => submit'[JobOf(x)'] = "enqueued"
    <3> SUFFICES ASSUME NEW x \in Deliveries, Used(x)', ~Used(x)
                 PROVE  submit'[JobOf(x)'] = "enqueued"
      OBVIOUS
    <3>1. x = d /\ JobOf(x)' = j
      BY <2>3 DEF Used, JobOf
    <3> QED BY <1>0, <2>4, <3>1 DEF Traced
  <2> QED BY <1>0, <2>1, <2>7, <2>8, QuietTold
<1>2. CASE RetryRemove(o)
  <2>1. /\ UNCHANGED <<queue, jobStatus>> /\ op[o].pc = "added"
        /\ op'[o].entry = op[o].entry
        /\ \A e \in DeadLetters : dlq'[e].job = dlq[e].job /\ (dlq'[e].state # "unused" => dlq[e].state # "unused")
    BY <1>2 DEF RetryRemove, TypeOK, Retries, Entries, SlotsOK
  <2>2. \A p \in Operators : op'[p].entry = op[p].entry /\
          (op'[p].pc \in {"added", "removed"} => op[p].pc \in {"added", "removed"})
    BY <1>0, <2>1
  <2>3. \A d \in Deliveries : Used(d)' = Used(d) /\ JobOf(d)' = JobOf(d)
    BY <2>1 DEF Used, JobOf
  <2>4. ASSUME NEW p \in Operators, op'[p].pc \in {"added", "removed"}
        PROVE  Two(dlq[op[p].entry].job)'
    <3>1. op[p].entry \in DeadLetters /\ Two(dlq[op[p].entry].job)
      BY <2>2, <2>4 DEF Traced, SlotsOK
    <3>2. dlq'[op'[p].entry].job = dlq[op[p].entry].job
      BY <2>1, <2>2, <3>1
    <3> QED BY <2>3, <3>1, <3>2 DEF Two
  <2>5. Traced'
    BY <1>0, <2>1, <2>3, <2>4 DEF Traced
  <2>6. Told'
    <3> SUFFICES ASSUME NEW d \in Deliveries, run[d].pc \in {"deadletter", "notify"}
                 PROVE  (jobStatus[JobOf(d)] \in Terminal \/ Two(JobOf(d)))'
      BY <1>0 DEF Told
    <3> QED BY <2>1, <2>3 DEF Told, Two
  <2> QED BY <2>5, <2>6
<1>3. CASE RetryFind(o) \/ RetryFetch(o) \/ RetryReset(o) \/ RetryAborts(o)
  <2>1. UNCHANGED <<queue, dlq>> /\ op'[o].pc \notin {"added", "removed"}
    BY <1>3 DEF RetryFind, RetryFetch, RetryReset, RetryAborts, TypeOK, Retries, IdleOp
  <2>2. \A i \in Jobs : jobStatus'[i] # jobStatus[i] => Two(i)
    BY <1>3 DEF RetryFind, RetryFetch, RetryReset, RetryAborts, SetJob, TypeOK, Traced
  <2>3. \A p \in Operators : op'[p].pc \in {"added", "removed"} => Two(dlq[op[p].entry].job)'
    <3> SUFFICES ASSUME NEW p \in Operators \ {o}, op[p].pc \in {"added", "removed"}
                 PROVE  Two(dlq[op[p].entry].job)'
      BY <1>0, <2>1
    <3> QED BY <1>0, <2>1, OpsKeepTwo
  <2>4. \A d \in Deliveries : Used(d)' => Used(d)
    BY <2>1 DEF Used
  <2> QED BY <1>0, <2>1, <2>2, <2>3, <2>4, QuietTold
<1> QED BY <1>1, <1>2, <1>3 DEF Retry

LEMMA ToldStep ==
  ASSUME IInv, IInv', Traced, Told, [Next]_vars
  PROVE  Traced' /\ Told'
<1> USE DEF IInv, rows, api, faults
<1>1. CASE UNCHANGED vars
  BY <1>1 DEF vars, Traced, Told, Two, Used, JobOf
<1>2. ASSUME NEW d \in Deliveries, Work(d) \/ Fault(d) \/ StalledCheck(d) PROVE Traced' /\ Told'
  <2>1. UNCHANGED <<submit, op>>
    BY <1>2 DEF Work, Fault, Attempt, Recovery, Lifecycle, HandlerMissing, PersistStepSuccess,
      StepSucceeds, AttemptFails, MarkRetrying, RecoveryResolves, HandleSkip, HandleCompensate,
      CompensateStep, CompensateDone, RecoveryFails, ResolveStep, MarkStarted, PollStatus,
      MarkStepRunning, SkipExhausted, FailJob, MoveToDeadLetter, Finalize, Notify,
      CatchAfterPersist, RecoveryRejected, RejectedCall, RecordFailure, StalledCheck, LoadJob, SkipCancelled
  <2>2. Effect /\ (\/ Progress(d) \/ Closes(d) \/ Loads(d) \/ Stalls(d) \/ DeadLettered(d)
                   \/ Ends(d, "exhausted", "deadletter", "FAILED")
                   \/ Ends(d, "finalize", "notify", "COMPLETED"))
    BY <1>2, ProceedsEffect, ClosesEffect, LoadsEffect, StallsEffect, FailEffect, FinalizeEffect,
       DeadLetterEffect
    DEF Effect, Work, Fault, Attempt, Recovery, Lifecycle, Proceeds
  <2> QED BY <2>1, <2>2, WorkerTold
<1>3. CASE CrashWorker
  <2>1. UNCHANGED <<submit, op, dlq, queue, jobStatus>> /\ \A d \in Deliveries : run'[d].pc = "idle"
    BY <1>3 DEF CrashWorker, IdleRun
  <2> QED BY <2>1 DEF Traced, Told, Two, Used, JobOf
<1>4. ASSUME Next PROVE Effect
  BY <1>4, NextEffect
<1> QED BY <1>1, <1>2, <1>3, <1>4, SubmissionTold, CancellationTold, RetryTold DEF Next

\* Whoever retries, cancels or crashes when: the webhook tells of an ended job,
\* or a retry has brought the job to life again (worker 114-124, 454-474).
THEOREM WebhookTellsTheEnd == Spec => []NotifiesTheEnd
<1>1. Init => Traced /\ Told
  BY DEF Init, Traced, Told, Used, Unused, NoEntry, IdleOp, IdleRun
<1>2. IInv /\ Told => NotifiesTheEnd
  BY DEF Told, Two, NotifiesTheEnd, At, JobOf
<1> QED BY <1>1, <1>2, ToldStep, Typing, PTL DEF Spec

-----------------------------------------------------------------------------
(* What the rows of one job say *)

\* A step that runSteps may leave behind.
Done(j, s) ==
  /\ stepStatus[j][s] \in SettledStep
  /\ stepStatus[j][s] = "SKIPPED" /\ workflow[j][s].critical =>
       workflow[j][s].policy.strategy = "SKIP"

\* The delivery is in the loop over the steps, ...
Walking == Unsettled \ {"loaded", "finalize"}

\* ... and the step at hand has failed.
Failing == {"retrying", "recover", "compensate", "exhausted"}

StepAt(d, k) == stepStatus[JobOf(d)][run[d].order[k]]

\* A delivery that may still write its job's rows.
AtWork(d) ==
  \/ queue[d].state = "waiting"
  \/ queue[d].state = "active" /\ run[d].pc \in Unsettled \union {"idle"}

\* No two deliveries of j are at work at the same time.
OneAtWork(j) ==
  \A d, e \in Deliveries :
    AtWork(d) /\ AtWork(e) /\ JobOf(d) = j /\ JobOf(e) = j => d = e

\* Whoever retries waits until the job's last delivery is over.
OneDeliveryAtWork == \A j \in Jobs : OneAtWork(j)

Passed(d) ==
  run[d].pc \in Walking => \A k \in Steps : k < run[d].pos => Done(JobOf(d), run[d].order[k])

AtHand(d) ==
  /\ At(d, "persisted") => stepStatus[JobOf(d)][StepOf(d)] = "COMPLETED"
  /\ run[d].pc \in Failing => stepStatus[JobOf(d)][StepOf(d)] = "FAILED"
  /\ At(d, "skipped") => DefOf(d).policy.strategy = "SKIP"

Compensating(d) ==
  /\ At(d, "compensate") =>
       run[d].todo = {s \in Steps : stepStatus[JobOf(d)][s] = "COMPLETED"}
  /\ At(d, "resolved") /\ "compensated" \in Outcomes(d) =>
       \A s \in Steps : stepStatus[JobOf(d)][s] # "COMPLETED"

\* Before the loop, behind it, and at a job that has ended.
Around(d) ==
  /\ At(d, "finalize") => Cancelled(JobOf(d)) \/ \A s \in Steps : Done(JobOf(d), s)
  /\ At(d, "loaded") => run[d].pos = 1
  /\ jobStatus[JobOf(d)] \in {"COMPLETED", "FAILED"} => run[d].pc \in {"idle", "loaded"}

DeliveryOK(d) == Passed(d) /\ AtHand(d) /\ Compensating(d) /\ Around(d)

JobOK(j) ==
  /\ jobStatus[j] = "COMPLETED" /\ ~Cancelled(j) => \A s \in Steps : Done(j, s)
  /\ jobStatus[j] = "FAILED" =>
       \E s \in Steps : stepStatus[j][s] = "FAILED" /\ workflow[j][s].critical
  /\ jobStatus[j] = "CANCELLED" => Cancelled(j)

\* In the first delivery, what lies ahead has not been touched ...
Ahead(d) ==
  run[d].pc \in Walking /\ queue[d].stalls = 0 =>
    \A k \in Steps :
      k > run[d].pos \/ (k = run[d].pos /\ run[d].pc \in {"poll", "begin"}) =>
        StepAt(d, k) = "PENDING"

\* ... and before it starts, nothing has; the end of the job is written first.
Fringe(d) ==
  /\ queue[d].stalls = 0 /\ (queue[d].state = "waiting" \/ At(d, "loaded")) =>
       /\ \A s \in Steps : stepStatus[JobOf(d)][s] = "PENDING"
       /\ jobStatus[JobOf(d)] \notin {"COMPLETED", "FAILED"}
  /\ run[d].pc \in {"deadletter", "notify"} \/ queue[d].state = "completed" =>
       jobStatus[JobOf(d)] \in Terminal

FirstOK(d) == Ahead(d) /\ Fringe(d)

\* Before a job is in the queue nothing happens to it.
NewOK(j) ==
  /\ submit[j] # "enqueued" =>
       /\ \A s \in Steps : stepStatus[j][s] = "PENDING"
       /\ jobStatus[j] \in {"NONE", "PENDING", "CANCELLED"}
  /\ submit[j] = "new" => jobStatus[j] # "PENDING"
  /\ submit[j] = "enqueued" => \E d \in Deliveries : Mine(d, j)

\* What holds of a job as long as its deliveries are at work one by one; more
\* holds when it was delivered once.
OInv(j) ==
  /\ \A d \in Deliveries : Mine(d, j) /\ AtWork(d) => DeliveryOK(d)
  /\ JobOK(j)
  /\ Two(j) \/ (NewOK(j) /\ \A d \in Deliveries : Mine(d, j) => FirstOK(d))

OrdersOK == \A d \in Deliveries : Complete(run[d].order)

-----------------------------------------------------------------------------
(* A step that concerns one delivery *)

\* Only delivery d moves, and only rows of its job are written.
Alone(d) ==
  /\ UNCHANGED <<workflow, submit, cancel>>
  /\ \A x \in Deliveries \ {d} : run'[x] = run[x] /\ queue'[x] = queue[x]
  /\ Used(d) /\ Used(d)' /\ queue'[d].job = queue[d].job
  /\ \A i \in Jobs \ {JobOf(d)} : jobStatus'[i] = jobStatus[i] /\ stepStatus'[i] = stepStatus[i]
  /\ Complete(run'[d].order)

\* What holds of a delivery and of a job holds as long as nobody touches it.
LEMMA DeliveryFrame ==
  ASSUME NEW d \in Deliveries,
         UNCHANGED <<workflow, cancel>>, run'[d] = run[d], queue'[d] = queue[d],
         jobStatus'[JobOf(d)] = jobStatus[JobOf(d)], stepStatus'[JobOf(d)] = stepStatus[JobOf(d)]
  PROVE  /\ AtWork(d)' <=> AtWork(d)
         /\ DeliveryOK(d) => DeliveryOK(d)'
         /\ FirstOK(d) => FirstOK(d)'
<1>1. JobOf(d)' = JobOf(d) /\ StepOf(d)' = StepOf(d) /\ DefOf(d)' = DefOf(d)
  BY DEF JobOf, StepOf, DefOf
<1>2. Outcomes(d)' = Outcomes(d) /\ Cancelled(JobOf(d))' = Cancelled(JobOf(d))
  BY <1>1 DEF Outcomes, Cancelled
<1>3. \A s \in Steps : Done(JobOf(d), s)' = Done(JobOf(d), s)
  BY <1>1 DEF Done
<1>4. \A k \in Steps : StepAt(d, k)' = StepAt(d, k) /\ Done(JobOf(d), run[d].order[k])' = Done(JobOf(d), run[d].order[k])
  BY <1>1 DEF Done, StepAt
<1>5. AtWork(d)' <=> AtWork(d)
  BY DEF AtWork
<1>6. ASSUME DeliveryOK(d) PROVE DeliveryOK(d)'
  BY <1>1, <1>2, <1>3, <1>4, <1>6 DEF DeliveryOK, Passed, AtHand, Compensating, Around, At
<1>7. ASSUME FirstOK(d) PROVE FirstOK(d)'
  BY <1>1, <1>4, <1>7 DEF FirstOK, Ahead, Fringe, At
<1> QED BY <1>5, <1>6, <1>7

LEMMA JobFrame ==
  ASSUME NEW j \in Jobs, UNCHANGED <<workflow, cancel>>,
         jobStatus'[j] = jobStatus[j], stepStatus'[j] = stepStatus[j]
  PROVE  JobOK(j) => JobOK(j)'
<1>1. Cancelled(j)' = Cancelled(j) /\ \A s \in Steps : Done(j, s)' = Done(j, s)
  BY DEF Cancelled, Done
<1> QED BY <1>1 DEF JobOK

\* A step that leaves job j and its deliveries alone.
LEMMA Aside ==
  ASSUME NEW j \in Jobs, OInv(j), UNCHANGED <<workflow, cancel>>,
         submit'[j] = submit[j], jobStatus'[j] = jobStatus[j], stepStatus'[j] = stepStatus[j],
         \A x \in Deliveries : Mine(x, j) => run'[x] = run[x] /\ queue'[x] = queue[x],
         \A x \in Deliveries : Mine(x, j)' => Mine(x, j)
  PROVE  OInv(j)'
<1>1. \A x \in Deliveries : Mine(x, j) => Mine(x, j)'
  BY DEF Mine, Used, JobOf
<1>2. Two(j)' <=> Two(j)
  BY <1>1 DEF Two, Mine
<1>3. JobOK(j)'
  BY JobFrame DEF OInv
<1>4. ASSUME NEW x \in Deliveries, Mine(x, j)'
      PROVE  (AtWork(x)' <=> AtWork(x)) /\ (DeliveryOK(x) => DeliveryOK(x)') /\ (FirstOK(x) => FirstOK(x)')
  <2>1. Mine(x, j) /\ JobOf(x) = j
    BY <1>4 DEF Mine
  <2> QED BY <2>1, DeliveryFrame
<1>5. NewOK(j) => NewOK(j)'
  BY <1>1 DEF NewOK
<1>6. \A x \in Deliveries : Mine(x, j)' /\ AtWork(x)' => DeliveryOK(x)'
  BY <1>4 DEF OInv
<1>7. Two(j)' \/ (NewOK(j)' /\ \A x \in Deliveries : Mine(x, j)' => FirstOK(x)')
  BY <1>2, <1>4, <1>5 DEF OInv
<1> QED BY <1>3, <1>6, <1>7 DEF OInv

\* It is enough to look at the delivery that moves and at its job, for no other
\* delivery of the job is at work -- or else no row is written.
LEMMA AloneStep ==
  ASSUME Traced, NEW j \in Jobs, OInv(j), OneAtWork(j), NEW d \in Deliveries, Alone(d), JobOf(d) = j,
         AtWork(d) \/ UNCHANGED <<jobStatus, stepStatus>>,
         AtWork(d)' => DeliveryOK(d)', JobOK(j)', ~Two(j) => FirstOK(d)'
  PROVE  OInv(j)'
<1>1. \A x \in Deliveries : (Mine(x, j)' <=> Mine(x, j)) /\ (Used(x)' <=> Used(x)) /\ JobOf(x)' = JobOf(x)
  BY DEF Alone, Mine, Used, JobOf
<1>2. Two(j)' <=> Two(j)
  BY <1>1 DEF Two, Mine
<1>3. ASSUME NEW x \in Deliveries, x # d, Mine(x, j), AtWork(x)'
      PROVE  DeliveryOK(x)'
  <2>1. AtWork(x) /\ JobOf(x) = j /\ run'[x] = run[x] /\ queue'[x] = queue[x]
    BY <1>3 DEF Alone, AtWork, Mine
  <2>2. UNCHANGED <<jobStatus, stepStatus>>
    BY <1>3, <2>1 DEF OneAtWork
  <2> QED BY <1>3, <2>1, <2>2, DeliveryFrame DEF OInv, Alone
<1>4. \A x \in Deliveries : Mine(x, j)' /\ AtWork(x)' => DeliveryOK(x)'
  BY <1>1, <1>3
<1>5. ASSUME ~Two(j) PROVE NewOK(j)' /\ \A x \in Deliveries : Mine(x, j)' => FirstOK(x)'
  <2>1. \A x \in Deliveries : Mine(x, j)' => x = d
    BY <1>1, <1>5 DEF Two, Mine, Alone
  <2>2. Mine(d, j)' /\ submit'[j] = "enqueued"
    BY <1>1 DEF Alone, Traced, Mine
  <2> QED BY <1>5, <2>1, <2>2 DEF NewOK
<1> QED BY <1>2, <1>4, <1>5 DEF OInv

-----------------------------------------------------------------------------
(* Rows after a step *)

\* One row of the job's steps is written.
LEMMA StepWritten ==
  ASSUME TypeOK, NEW j \in Jobs, NEW s \in Steps, NEW st, SetStep(j, s, st)
  PROVE  /\ stepStatus'[j][s] = st
         /\ \A t \in Steps \ {s} : stepStatus'[j][t] = stepStatus[j][t]
         /\ \A i \in Jobs \ {j} : stepStatus'[i] = stepStatus[i]
BY DEF TypeOK, SetStep


\* Every step of the worker and of the stalled checker concerns one delivery.
LEMMA WorkerIsAlone ==
  ASSUME TypeOK, SlotsOK, OrdersOK, NEW d \in Deliveries, Work(d) \/ Fault(d) \/ StalledCheck(d)
  PROVE  Alone(d)
<1> USE DEF rows, api, faults
<1>1. UNCHANGED <<workflow, submit, cancel>>
  BY DEF Work, Fault, Attempt, Recovery, Lifecycle, HandlerMissing, PersistStepSuccess,
      StepSucceeds, AttemptFails, MarkRetrying, RecoveryResolves, HandleSkip, HandleCompensate,
      CompensateStep, CompensateDone, RecoveryFails, ResolveStep, MarkStarted, PollStatus,
      MarkStepRunning, SkipExhausted, FailJob, MoveToDeadLetter, Finalize, Notify,
      CatchAfterPersist, RecoveryRejected, RejectedCall, RecordFailure, StalledCheck, LoadJob, SkipCancelled
<1>2. \/ Progress(d) \/ Closes(d) \/ Loads(d) \/ Stalls(d) \/ DeadLettered(d)
      \/ Ends(d, "exhausted", "deadletter", "FAILED")
      \/ Ends(d, "finalize", "notify", "COMPLETED")
  BY ProceedsEffect, ClosesEffect, LoadsEffect, StallsEffect, FailEffect, FinalizeEffect, DeadLetterEffect
  DEF Work, Fault, Attempt, Recovery, Lifecycle, Proceeds
<1>3. /\ \A x \in Deliveries \ {d} : run'[x] = run[x] /\ queue'[x] = queue[x]
      /\ Used(d) /\ Used(d)' /\ queue'[d].job = queue[d].job
      /\ \A i \in Jobs \ {JobOf(d)} : jobStatus'[i] = jobStatus[i]
  BY <1>2 DEF Progress, Closes, Loads, Stalls, DeadLettered, Ends, MovesTo, BecomesState, SlotsOK,
     Used, Unsettled
<1>4. \A i \in Jobs \ {JobOf(d)} : stepStatus'[i] = stepStatus[i]
  BY DEF Work, Fault, Attempt, Recovery, Lifecycle, HandlerMissing, PersistStepSuccess,
      StepSucceeds, AttemptFails, MarkRetrying, RecoveryResolves, HandleSkip, HandleCompensate,
      CompensateStep, CompensateDone, RecoveryFails, ResolveStep, MarkStarted, PollStatus,
      MarkStepRunning, SkipExhausted, FailJob, MoveToDeadLetter, Finalize, Notify,
      CatchAfterPersist, RecoveryRejected, RejectedCall, RecordFailure, StalledCheck, LoadJob, SkipCancelled,
      SetStep, TypeOK
<1>5. run'[d].order = run[d].order \/ run'[d].order = IdleRun.order \/ run'[d].order \in LoadOrders
  <2>1. ASSUME NEW pc, Goto(d, pc) PROVE run'[d].order = run[d].order
    BY <2>1, GotoLocals DEF Stays
  <2>2. ASSUME Advance(d) PROVE run'[d].order = run[d].order
    BY <2>2, AdvanceLocals
  <2>3. ASSUME NextAttempt(d) PROVE run'[d].order = run[d].order
    BY <2>3, NextAttemptLocals DEF Stays
  <2>4. ASSUME NEW st, EndDelivery(d, st) PROVE run'[d].order = IdleRun.order
    BY <2>4 DEF EndDelivery, TypeOK
  <2>5. CASE LoadJob(d)
    <3>1. PICK order \in LoadOrders : run' = [run EXCEPT ![d] = [IdleRun EXCEPT !.pc = "loaded", !.order = order]]
      BY <2>5 DEF LoadJob
    <3> QED BY <3>1 DEF TypeOK, IdleRun
  <2>6. CASE HandleCompensate(d) \/ CompensateStep(d)
    BY <2>6 DEF HandleCompensate, CompensateStep, TypeOK, Locals
  <2> QED BY <2>1, <2>2, <2>3, <2>4, <2>5, <2>6
    DEF Work, Fault, Attempt, Recovery, Lifecycle, HandlerMissing, PersistStepSuccess,
      StepSucceeds, AttemptFails, MarkRetrying, RecoveryResolves, HandleSkip,
      CompensateDone, RecoveryFails, ResolveStep, MarkStarted, PollStatus,
      MarkStepRunning, SkipExhausted, FailJob, MoveToDeadLetter, Finalize, Notify,
      CatchAfterPersist, RecoveryRejected, RejectedCall, RecordFailure, StalledCheck, SkipCancelled
<1>6. Complete(run'[d].order)
  <2>1. Complete(IdleRun.order) /\ Complete(run[d].order)
    BY DEF OrdersOK, Complete, IdleRun
  <2>2. \A order \in LoadOrders : Complete(order)
    BY OrderAssumption
  <2> QED BY <1>5, <2>1, <2>2
<1> QED BY <1>1, <1>3, <1>4, <1>6 DEF Alone

-----------------------------------------------------------------------------
(* The kinds of steps *)

\* What a delivery at work knows of its job.
LEMMA WorkFacts ==
  ASSUME TypeOK, SlotsOK, OrdersOK, NEW j \in Jobs, OInv(j), NEW d \in Deliveries, JobOf(d) = j,
         run[d].pc \in Unsettled
  PROVE  /\ Used(d) /\ Mine(d, j) /\ AtWork(d) /\ queue[d].state = "active"
         /\ run[d] \in Locals /\ Complete(run[d].order) /\ StepOf(d) \in Steps
         /\ DeliveryOK(d) /\ JobOK(j)
         /\ ~Two(j) => FirstOK(d)
<1>1. run[d].pc # "idle" /\ queue[d].state = "active"
  BY DEF Unsettled, SlotsOK
<1>2. Used(d) /\ Mine(d, j) /\ AtWork(d)
  BY <1>1 DEF Used, Mine, AtWork
<1> QED BY <1>1, <1>2, SlotFacts DEF OInv, OrdersOK, TypeOK

\* The rows of a job that has not ended say nothing yet.
LEMMA UnderWay ==
  ASSUME NEW j \in Jobs, JobOK(j), UNCHANGED cancel,
         jobStatus'[j] \notin {"COMPLETED", "FAILED"},
         jobStatus'[j] = "CANCELLED" => jobStatus[j] = "CANCELLED"
  PROVE  JobOK(j)'
BY DEF JobOK, Cancelled

\* A move within the attempts of one step.
LEMMA InnerStep ==
  ASSUME TypeOK, SlotsOK, Traced, OrdersOK, NEW j \in Jobs, OInv(j), OneAtWork(j),
         NEW d \in Deliveries, Alone(d), JobOf(d) = j, UNCHANGED queue,
         run[d].pc \in Walking, NEW pc \in Walking \ {"poll", "begin"}, Stays(d, pc),
         jobStatus'[j] \in {jobStatus[j], "RETRYING"},
         \A s \in Steps \ {StepOf(d)} :
           \/ stepStatus'[j][s] = stepStatus[j][s]
           \/ stepStatus[j][s] = "COMPLETED" /\ stepStatus'[j][s] = "COMPENSATED",
         AtHand(d)', Compensating(d)'
  PROVE  OInv(j)'
<1>0. run[d].pc \in Unsettled
  BY DEF Walking
<1>1. /\ AtWork(d) /\ queue[d].state = "active" /\ run[d] \in Locals /\ Complete(run[d].order)
      /\ StepOf(d) \in Steps /\ DeliveryOK(d) /\ JobOK(j) /\ (~Two(j) => FirstOK(d))
  BY <1>0, WorkFacts
<1>4. JobOf(d)' = j /\ StepOf(d)' = StepOf(d) /\ UNCHANGED <<workflow, cancel>>
  BY DEF JobOf, StepOf, Stays, Alone
<1>5. \A k \in Steps : run[d].order[k] \in Steps /\ (k # run[d].pos => run[d].order[k] # StepOf(d))
  BY <1>1 DEF Locals, StepOrders, Complete, StepOf
<1>6. \A s \in Steps \ {StepOf(d)} : Done(j, s) => Done(j, s)'
  BY <1>4 DEF Done, SettledStep
<1>7. run[d].pos \in Nat /\ \A k \in Steps : k \in Nat
  BY <1>1 DEF Locals, Steps
<1>8. Passed(d)'
  <2> SUFFICES ASSUME NEW k \in Steps, k < run[d].pos
               PROVE  Done(j, run[d].order[k])'
    BY <1>4 DEF Passed, Stays
  <2>1. Done(j, run[d].order[k]) /\ run[d].order[k] \in Steps \ {StepOf(d)}
    BY <1>1, <1>5, <1>7 DEF DeliveryOK, Passed
  <2> QED BY <1>6, <2>1 DEF Stays, Done
<1>9. jobStatus[j] \notin {"COMPLETED", "FAILED"}
  BY <1>1 DEF DeliveryOK, Around, Walking, Unsettled
<1>10. Around(d)'
  BY <1>4, <1>9 DEF Around, Stays, Walking, At
<1>11. ASSUME ~Two(j) PROVE FirstOK(d)'
  <2>1. Ahead(d)'
    <3> SUFFICES ASSUME NEW k \in Steps, k > run[d].pos, queue[d].stalls = 0
                 PROVE  stepStatus'[j][run[d].order[k]] = "PENDING"
      BY <1>4 DEF Ahead, Stays, StepAt
    <3>1. stepStatus[j][run[d].order[k]] = "PENDING" /\ run[d].order[k] \in Steps \ {StepOf(d)}
      BY <1>1, <1>5, <1>7, <1>11 DEF FirstOK, Ahead, StepAt
    <3> QED BY <3>1
  <2>2. Fringe(d)'
    BY <1>1 DEF Fringe, Stays, Walking, Unsettled, At
  <2> QED BY <2>1, <2>2 DEF FirstOK
<1>12. JobOK(j)'
  BY <1>1, <1>4, <1>9, UnderWay
<1> QED BY <1>1, <1>8, <1>10, <1>11, <1>12, AloneStep DEF DeliveryOK

\* The step at hand is done: on to the next one or to the end.
LEMMA AdvanceStep ==
  ASSUME TypeOK, SlotsOK, Traced, OrdersOK, NEW j \in Jobs, OInv(j), OneAtWork(j),
         NEW d \in Deliveries, Alone(d), JobOf(d) = j, UNCHANGED <<queue, jobStatus>>,
         run[d].pc \in Walking \ {"poll", "begin"}, Advance(d),
         \A s \in Steps \ {StepOf(d)} : stepStatus'[j][s] = stepStatus[j][s],
         NEW at \in Steps, at = StepOf(d), Done(j, at)'
  PROVE  OInv(j)'
<1>0. run[d].pc \in Unsettled
  BY DEF Walking
<1>1. /\ AtWork(d) /\ queue[d].state = "active" /\ run[d] \in Locals /\ Complete(run[d].order)
      /\ StepOf(d) \in Steps /\ DeliveryOK(d) /\ JobOK(j) /\ (~Two(j) => FirstOK(d))
  BY <1>0, WorkFacts
<1>4. JobOf(d)' = j /\ run'[d].order = run[d].order /\ UNCHANGED <<workflow, cancel>>
  BY AdvanceLocals DEF JobOf, Alone
<1>5. \A k \in Steps : run[d].order[k] \in Steps /\ (k # run[d].pos => run[d].order[k] # StepOf(d))
  BY <1>1 DEF Locals, StepOrders, Complete, StepOf
<1>6. \A s \in Steps \ {StepOf(d)} : Done(j, s) => Done(j, s)'
  BY <1>4 DEF Done
<1>7. run[d].pos \in 1..StepCount /\ StepCount \in Nat /\ Steps = 1..StepCount
  BY <1>1, EngineAssumption DEF Locals, Steps
<1>8. \A k \in Steps : k <= run[d].pos => Done(j, run[d].order[k])'
  <2> SUFFICES ASSUME NEW k \in Steps, k <= run[d].pos
               PROVE  Done(j, run[d].order[k])'
    OBVIOUS
  <2>1. CASE k = run[d].pos
    BY <1>4, <2>1 DEF StepOf, Done
  <2>2. CASE k # run[d].pos
    <3>1. k < run[d].pos
      BY <1>7, <2>2
    <3>2. Done(j, run[d].order[k]) /\ run[d].order[k] \in Steps \ {StepOf(d)}
      BY <1>1, <1>5, <2>2, <3>1 DEF DeliveryOK, Passed
    <3> QED BY <1>4, <1>6, <3>2 DEF Done
  <2> QED BY <2>1, <2>2
<1>9. jobStatus[j] \notin {"COMPLETED", "FAILED"}
  BY <1>1 DEF DeliveryOK, Around, Walking, Unsettled
<1>10. ASSUME run[d].pos = StepCount, run'[d].pc = "finalize"
       PROVE  DeliveryOK(d)' /\ (~Two(j) => FirstOK(d)')
  <2>1. \A s \in Steps : Done(j, s)'
    <3> SUFFICES ASSUME NEW s \in Steps PROVE Done(j, s)'
      OBVIOUS
    <3>1. PICK k \in Steps : run[d].order[k] = s
      BY <1>1 DEF Complete
    <3> QED BY <1>4, <1>7, <1>8, <1>10, <3>1 DEF Done
  <2>2. Around(d)'
    BY <1>4, <1>9, <1>10, <2>1 DEF Around, At
  <2>3. Passed(d)' /\ AtHand(d)' /\ Compensating(d)' /\ Ahead(d)' /\ Fringe(d)'
    BY <1>1, <1>10 DEF Passed, Ahead, AtHand, Compensating, Fringe, At, Walking, Failing
  <2> QED BY <2>2, <2>3 DEF DeliveryOK, FirstOK
<1>11. ASSUME run[d].pos # StepCount, run'[d].pc = "poll", run'[d].pos = run[d].pos + 1
       PROVE  DeliveryOK(d)' /\ (~Two(j) => FirstOK(d)')
  <2>1. Passed(d)'
    BY <1>4, <1>7, <1>8, <1>11 DEF Passed
  <2>2. ASSUME ~Two(j) PROVE Ahead(d)'
    <3> SUFFICES ASSUME NEW k \in Steps, k >= run[d].pos + 1, queue[d].stalls = 0
                 PROVE  stepStatus'[j][run[d].order[k]] = "PENDING"
      BY <1>4, <1>7, <1>11 DEF Ahead, StepAt
    <3>1. k > run[d].pos /\ k # run[d].pos
      BY <1>7
    <3>2. stepStatus[j][run[d].order[k]] = "PENDING"
      BY <1>1, <2>2, <3>1 DEF FirstOK, Ahead, StepAt
    <3>3. run[d].order[k] \in Steps \ {StepOf(d)}
      BY <1>5, <3>1
    <3> QED BY <3>2, <3>3
  <2>3. AtHand(d)' /\ Compensating(d)' /\ Fringe(d)'
    BY <1>1, <1>11 DEF AtHand, Compensating, Fringe, At, Failing
  <2>4. Around(d)'
    BY <1>4, <1>9, <1>11 DEF Around, At
  <2> QED BY <2>1, <2>2, <2>3, <2>4 DEF DeliveryOK, FirstOK
<1>12. DeliveryOK(d)' /\ (~Two(j) => FirstOK(d)')
  BY <1>10, <1>11, AdvanceLocals
<1>13. JobOK(j)'
  BY <1>1, <1>4, <1>9, UnderWay
<1> QED BY <1>1, <1>12, <1>13, AloneStep

\* A delivery that is over, or was never started.
LEMMA CloseStep ==
  ASSUME TypeOK, Traced, NEW j \in Jobs, OInv(j), OneAtWork(j),
         NEW d \in Deliveries, Alone(d), JobOf(d) = j, UNCHANGED rows,
         NEW st \in {"completed", "failed"}, EndDelivery(d, st),
         st = "completed" => Two(j) \/ jobStatus[j] \in Terminal
  PROVE  OInv(j)'
<1>1. queue[d] \in BullJobs
  BY DEF TypeOK
<1>2. run'[d] = IdleRun /\ IdleRun.pc = "idle" /\ queue'[d].state = st
  BY <1>1 DEF TypeOK, EndDelivery, BullJobs, IdleRun
<1>3. ~AtWork(d)'
  BY <1>2 DEF AtWork
<1>4. ASSUME ~Two(j) PROVE FirstOK(d)'
  <2>1. JobOf(d)' = j
    BY DEF Alone, JobOf
  <2> QED BY <1>2, <1>4, <2>1 DEF FirstOK, Ahead, Fringe, At, Walking, Unsettled, rows
<1>5. JobOK(j)'
  BY JobFrame DEF Alone, OInv, rows
<1> QED BY <1>3, <1>4, <1>5, AloneStep DEF rows

-----------------------------------------------------------------------------
(* Each action keeps the invariant *)

LEMMA AttemptKeeps ==
  ASSUME TypeOK, SlotsOK, Traced, OrdersOK, NEW j \in Jobs, OInv(j), OneAtWork(j),
         NEW d \in Deliveries, Alone(d), JobOf(d) = j,
         Attempt(d) \/ CatchAfterPersist(d) \/ MarkStepRunning(d)
  PROVE  OInv(j)'
<1> USE DEF rows, api, faults
<1>a. run[d].pc \in Walking /\ run[d].pc \in Unsettled /\ run[d].pc # "idle"
  BY DEF Attempt, HandlerMissing, PersistStepSuccess, StepSucceeds, AttemptFails, MarkRetrying,
     CatchAfterPersist, MarkStepRunning, At, Walking, Unsettled
<1>0. StepOf(d) \in Steps /\ DeliveryOK(d)
  BY <1>a, WorkFacts
<1>b. JobOf(d)' = j
  BY DEF Alone, JobOf
<1>1. ASSUME HandlerMissing(d) PROVE OInv(j)'
  BY <1>1, CloseStep DEF HandlerMissing
<1>2. ASSUME PersistStepSuccess(d) PROVE OInv(j)'
  <2>1. Stays(d, "persisted")
    BY <1>2, GotoLocals DEF PersistStepSuccess
  <2>2. stepStatus'[j][StepOf(d)] = "COMPLETED" /\ StepOf(d)' = StepOf(d)
    BY <1>0, <1>2, <2>1, StepWritten DEF PersistStepSuccess, StepOf, Stays
  <2>3. AtHand(d)' /\ Compensating(d)'
    BY <1>b, <2>1, <2>2 DEF AtHand, Compensating, At, Stays, Failing
  <2> QED BY <1>0, <1>a, <1>2, <2>1, <2>3, StepWritten, InnerStep DEF PersistStepSuccess, Walking, Unsettled
<1>3. ASSUME StepSucceeds(d) PROVE OInv(j)'
  <2>1. Done(j, StepOf(d))
    BY <1>0, <1>3 DEF StepSucceeds, DeliveryOK, AtHand, Done, SettledStep
  <2>2. PICK at \in Steps : at = StepOf(d)
    BY <1>0
  <2>3. Done(j, at)'
    BY <1>3, <2>1, <2>2 DEF StepSucceeds, Done
  <2> QED BY <1>0, <1>3, <2>2, <2>3, AdvanceStep DEF StepSucceeds, Walking, Unsettled, At
<1>4. ASSUME NEW pc \in {"recover", "retrying"}, Goto(d, pc), SetStep(j, StepOf(d), "FAILED"),
             UNCHANGED <<jobStatus, queue>>
      PROVE  OInv(j)'
  <2>1. Stays(d, pc)
    BY <1>4, GotoLocals
  <2>2. stepStatus'[j][StepOf(d)] = "FAILED" /\ StepOf(d)' = StepOf(d)
    BY <1>0, <1>4, <2>1, StepWritten DEF StepOf, Stays
  <2>3. AtHand(d)' /\ Compensating(d)'
    BY <1>b, <1>4, <2>1, <2>2 DEF AtHand, Compensating, At, Stays
  <2> QED BY <1>0, <1>a, <1>4, <2>1, <2>3, StepWritten, InnerStep DEF Walking, Unsettled
<1>5. ASSUME MarkRetrying(d) PROVE OInv(j)'
  <2>1. Stays(d, "recover")
    BY <1>5, GotoLocals DEF MarkRetrying
  <2>2. stepStatus'[j][StepOf(d)] = "FAILED" /\ StepOf(d)' = StepOf(d)
    BY <1>0, <1>5, <2>1 DEF MarkRetrying, DeliveryOK, AtHand, At, Failing, StepOf, Stays
  <2>3. AtHand(d)' /\ Compensating(d)'
    BY <1>b, <2>1, <2>2 DEF AtHand, Compensating, At, Stays
  <2>4. jobStatus'[j] = "RETRYING"
    BY <1>0, <1>5, SetJobEffect DEF MarkRetrying, JobStatuses
  <2> QED BY <1>0, <1>a, <1>5, <2>1, <2>3, <2>4, InnerStep DEF MarkRetrying, Walking, Unsettled
<1>6. ASSUME MarkStepRunning(d) PROVE OInv(j)'
  <2>1. Stays(d, "execute")
    BY <1>6, GotoLocals DEF MarkStepRunning
  <2>2. AtHand(d)' /\ Compensating(d)'
    BY <2>1 DEF AtHand, Compensating, At, Stays, Failing
  <2> QED BY <1>0, <1>a, <1>6, <2>1, <2>2, StepWritten, InnerStep DEF MarkStepRunning, Walking, Unsettled
<1> QED BY <1>1, <1>2, <1>3, <1>4, <1>5, <1>6
  DEF Attempt, AttemptFails, CatchAfterPersist, RecordFailure

LEMMA RecoveryKeeps ==
  ASSUME TypeOK, SlotsOK, Traced, OrdersOK, NEW j \in Jobs, OInv(j), OneAtWork(j),
         NEW d \in Deliveries, Alone(d), JobOf(d) = j,
         Recovery(d) \/ RecoveryRejected(d) \/ SkipExhausted(d)
  PROVE  OInv(j)'
<1> USE DEF rows, api, faults
<1>a. run[d].pc \in Walking \ {"poll", "begin"} /\ run[d].pc \in Unsettled
  BY DEF Recovery, RecoveryResolves, HandleSkip, HandleCompensate, CompensateStep, CompensateDone,
     RecoveryFails, ResolveStep, RecoveryRejected, SkipExhausted, At, Walking, Unsettled
<1>0. StepOf(d) \in Steps /\ DeliveryOK(d) /\ run[d] \in Locals
  BY <1>a, WorkFacts
<1>b. JobOf(d)' = j /\ workflow' = workflow
  BY DEF Alone, JobOf
<1>1. ASSUME RecoveryResolves(d) PROVE OInv(j)'
  <2>1. Stays(d, "resolved") /\ run'[d].attempt = run[d].attempt
    BY <1>1, GotoLocals DEF RecoveryResolves
  <2>2. AtHand(d)'
    BY <2>1 DEF AtHand, At, Stays, Failing
  <2>3. "compensated" \notin Outcomes(d)
    BY <1>1 DEF RecoveryResolves, Outcomes, DispatchOutcomes
  <2>4. Outcomes(d)' = Outcomes(d)
    BY <1>b, <2>1 DEF Outcomes, DefOf, StepOf, Stays
  <2>5. Compensating(d)'
    BY <2>1, <2>3, <2>4 DEF Compensating, At, Stays
  <2> QED BY <1>0, <1>a, <1>1, <2>1, <2>2, <2>5, InnerStep DEF RecoveryResolves, Walking, Unsettled
<1>2. ASSUME HandleSkip(d) PROVE OInv(j)'
  <2>1. Stays(d, "skipped")
    BY <1>2, GotoLocals DEF HandleSkip
  <2>2. DefOf(d).policy.strategy = "SKIP"
    BY <1>2 DEF HandleSkip, Outcomes, DispatchOutcomes, SelectStrategy
  <2>3. DefOf(d)' = DefOf(d)
    BY <1>b, <2>1 DEF DefOf, StepOf, Stays
  <2>4. AtHand(d)' /\ Compensating(d)'
    BY <2>1, <2>2, <2>3 DEF AtHand, Compensating, At, Stays, Failing
  <2> QED BY <1>0, <1>a, <1>2, <2>1, <2>4, StepWritten, InnerStep DEF HandleSkip, Walking, Unsettled
<1>3. ASSUME HandleCompensate(d) PROVE OInv(j)'
  <2>1. Stays(d, "compensate") /\ run'[d].todo = {s \in Steps : stepStatus[j][s] = "COMPLETED"}
    BY <1>0, <1>3 DEF HandleCompensate, TypeOK, Stays, Locals
  <2>2. StepOf(d)' = StepOf(d) /\ stepStatus' = stepStatus
    BY <1>3, <2>1 DEF HandleCompensate, StepOf, Stays
  <2>3. AtHand(d)'
    BY <1>0, <1>b, <1>3, <2>1, <2>2 DEF HandleCompensate, DeliveryOK, AtHand, At, Stays, Failing
  <2>4. Compensating(d)'
    BY <1>b, <2>1, <2>2 DEF Compensating, At, Stays
  <2> QED BY <1>0, <1>a, <1>3, <2>1, <2>3, <2>4, InnerStep DEF HandleCompensate, Walking, Unsettled
<1>4. ASSUME CompensateStep(d) PROVE OInv(j)'
  <2>1. PICK s \in run[d].todo : /\ SetStep(j, s, "COMPENSATED")
                                 /\ run' = [run EXCEPT ![d].todo = @ \ {s}]
    BY <1>4 DEF CompensateStep
  <2>2. /\ s \in Steps /\ stepStatus[j][s] = "COMPLETED" /\ s # StepOf(d)
        /\ run[d].todo = {t \in Steps : stepStatus[j][t] = "COMPLETED"}
        /\ stepStatus[j][StepOf(d)] = "FAILED"
    BY <1>0, <1>4, <2>1 DEF CompensateStep, DeliveryOK, AtHand, Compensating, At, Failing
  <2>3. Stays(d, "compensate") /\ run'[d].todo = run[d].todo \ {s}
    BY <1>0, <1>4, <2>1 DEF CompensateStep, TypeOK, Stays, Locals, At
  <2>4. /\ stepStatus'[j][s] = "COMPENSATED"
        /\ \A t \in Steps \ {s} : stepStatus'[j][t] = stepStatus[j][t]
    BY <1>0, <2>1, <2>2, StepWritten
  <2>5. StepOf(d)' = StepOf(d)
    BY <2>3 DEF StepOf, Stays
  <2>6. AtHand(d)'
    BY <1>0, <1>b, <2>2, <2>3, <2>4, <2>5 DEF AtHand, At, Stays
  <2>7. run'[d].todo = {t \in Steps : stepStatus'[j][t] = "COMPLETED"}
    BY <2>2, <2>3, <2>4
  <2>8. Compensating(d)'
    BY <1>b, <2>3, <2>7 DEF Compensating, At, Stays
  <2> QED BY <1>0, <1>a, <1>4, <2>2, <2>3, <2>4, <2>6, <2>8, InnerStep DEF CompensateStep, Walking, Unsettled
<1>5. ASSUME CompensateDone(d) PROVE OInv(j)'
  <2>1. Stays(d, "resolved")
    BY <1>5, GotoLocals DEF CompensateDone
  <2>2. \A s \in Steps : stepStatus'[j][s] # "COMPLETED"
    BY <1>0, <1>5 DEF CompensateDone, DeliveryOK, Compensating
  <2>3. AtHand(d)' /\ Compensating(d)'
    BY <1>b, <2>1, <2>2 DEF AtHand, Compensating, At, Stays, Failing
  <2> QED BY <1>0, <1>a, <1>5, <2>1, <2>3, InnerStep DEF CompensateDone, Walking, Unsettled
<1>6. ASSUME NextAttempt(d), UNCHANGED <<jobStatus, stepStatus, queue>>, run[d].pc \in {"recover", "compensate"}
      PROVE  OInv(j)'
  <2>1. PICK pc \in {"exhausted", "execute"} : Stays(d, pc)
    BY <1>6, NextAttemptLocals
  <2>2. StepOf(d)' = StepOf(d)
    BY <2>1 DEF StepOf, Stays
  <2>3. AtHand(d)' /\ Compensating(d)'
    BY <1>0, <1>b, <1>6, <2>1, <2>2 DEF DeliveryOK, AtHand, Compensating, At, Stays, Failing
  <2> QED BY <1>0, <1>a, <1>6, <2>1, <2>3, InnerStep DEF Walking, Unsettled
<1>7. ASSUME ResolveStep(d) \/ SkipExhausted(d) PROVE OInv(j)'
  <2>1. PICK at \in Steps : at = StepOf(d)
    BY <1>0
  <2>2. stepStatus'[j][at] \in {"COMPLETED", "SKIPPED"}
    BY <1>0, <1>7, <2>1, StepWritten DEF ResolveStep, SkipExhausted
  <2>3. stepStatus'[j][at] = "SKIPPED" /\ workflow[j][at].critical =>
          workflow[j][at].policy.strategy = "SKIP"
    BY <1>0, <1>7, <2>1, StepWritten
    DEF ResolveStep, SkipExhausted, DeliveryOK, AtHand, DefOf, At
  <2>4. Done(j, at)'
    BY <1>b, <2>2, <2>3 DEF Done, SettledStep
  <2> QED BY <1>0, <1>a, <1>7, <2>1, <2>4, StepWritten, AdvanceStep
    DEF ResolveStep, SkipExhausted
<1> QED BY <1>1, <1>2, <1>3, <1>4, <1>5, <1>6, <1>7 DEF Recovery, RecoveryFails, RecoveryRejected, At

\* The start of a delivery and of a round of the loop.
LEMMA StartKeeps ==
  ASSUME TypeOK, SlotsOK, Traced, OrdersOK, NEW j \in Jobs, OInv(j), OneAtWork(j),
         NEW d \in Deliveries, Alone(d), JobOf(d) = j,
         SkipCancelled(d) \/ LoadJob(d) \/ MarkStarted(d) \/ PollStatus(d)
  PROVE  OInv(j)'
<1> USE DEF rows, api, faults
<1>b. JobOf(d)' = j /\ UNCHANGED <<workflow, cancel>>
  BY DEF Alone, JobOf
<1>0. Mine(d, j) /\ AtWork(d) /\ DeliveryOK(d) /\ JobOK(j) /\ (~Two(j) => FirstOK(d))
  <2>1. AtWork(d) /\ Used(d)
    BY DEF SkipCancelled, LoadJob, CanStart, MarkStarted, PollStatus, At, SlotsOK, Used, AtWork, Unsettled
  <2> QED BY <2>1 DEF OInv, Mine
<1>1. CASE SkipCancelled(d)
  BY <1>1, CloseStep DEF SkipCancelled, Terminal
<1>2. CASE LoadJob(d)
  <2>1. /\ queue[d].state = "waiting" /\ queue'[d].state = "active" /\ queue'[d].stalls = queue[d].stalls
    <3>1. queue[d] \in BullJobs /\ queue \in [Deliveries -> BullJobs]
      BY DEF TypeOK
    <3>2. queue' = [queue EXCEPT ![d].state = "active"] /\ queue[d].state = "waiting"
      BY <1>2 DEF LoadJob, CanStart
    <3> QED BY <3>1, <3>2 DEF BullJobs
  <2>2. PICK order \in LoadOrders : run' = [run EXCEPT ![d] = [IdleRun EXCEPT !.pc = "loaded", !.order = order]]
    BY <1>2 DEF LoadJob
  <2>3. run'[d].pc = "loaded" /\ run'[d].pos = 1
    BY <2>2, IdleRunType DEF TypeOK, Locals, IdleRun
  <2>4. UNCHANGED <<jobStatus, stepStatus>>
    BY <1>2 DEF LoadJob
  <2>5. DeliveryOK(d)'
    BY <2>3 DEF DeliveryOK, Passed, AtHand, Compensating, Around, At, Walking, Failing
  <2>6. ASSUME ~Two(j) PROVE FirstOK(d)'
    BY <1>0, <1>b, <2>1, <2>3, <2>4, <2>6 DEF FirstOK, Ahead, Fringe, At, Walking
  <2>7. JobOK(j)'
    BY <1>0, <1>b, <2>4, JobFrame
  <2> QED BY <1>0, <2>5, <2>6, <2>7, AloneStep
<1>3. CASE MarkStarted(d)
  <2>1. Stays(d, "poll") /\ run[d].pos = 1 /\ run[d] \in Locals
    BY <1>0, <1>3, GotoLocals DEF MarkStarted, DeliveryOK, Around, TypeOK
  <2>2. jobStatus'[j] = "RUNNING" /\ UNCHANGED <<stepStatus, queue>>
    BY <1>3, SetJobEffect DEF MarkStarted, JobStatuses
  <2>3. queue[d].state = "active"
    BY <1>3 DEF MarkStarted, At, SlotsOK
  <2>4. DeliveryOK(d)'
    BY <1>b, <2>1, <2>2 DEF DeliveryOK, Passed, AtHand, Compensating, Around, At, Stays, Steps, Failing
  <2>5. ASSUME ~Two(j) PROVE FirstOK(d)'
    <3>1. Ahead(d)'
      <4> SUFFICES ASSUME NEW k \in Steps, queue[d].stalls = 0
                   PROVE  StepAt(d, k)' = "PENDING"
        BY <2>2 DEF Ahead
      <4>1. run[d].order[k] \in Steps
        BY <2>1 DEF Locals, StepOrders
      <4> QED BY <1>0, <1>3, <1>b, <2>1, <2>2, <2>5, <4>1 DEF MarkStarted, FirstOK, Fringe, StepAt, Stays
    <3>2. Fringe(d)'
      BY <2>1, <2>2, <2>3 DEF Fringe, At, Stays
    <3> QED BY <3>1, <3>2 DEF FirstOK
  <2>6. JobOK(j)'
    BY <1>0, <1>b, <2>2, UnderWay
  <2> QED BY <1>0, <2>4, <2>5, <2>6, AloneStep
<1>4. CASE PollStatus(d)
  <2>1. PICK pc : /\ Stays(d, pc)
                  /\ \/ pc = "begin"
                     \/ pc = "finalize" /\ jobStatus[j] = "CANCELLED"
    BY <1>4, GotoLocals DEF PollStatus
  <2>2. queue[d].state = "active" /\ UNCHANGED <<jobStatus, stepStatus, queue>>
    BY <1>4 DEF PollStatus, SlotsOK, At
  <2>3. run[d].pc = "poll" /\ run[d].pc \in Walking /\ pc \in {"begin", "finalize"}
    BY <1>4, <2>1 DEF PollStatus, At, Walking, Unsettled
  <2>4. \A k \in Steps : /\ StepAt(d, k)' = StepAt(d, k)
                         /\ Done(JobOf(d), run[d].order[k])' <=> Done(JobOf(d), run[d].order[k])
    BY <1>b, <2>1, <2>2 DEF StepAt, Done, Stays
  <2>5. Passed(d)'
    BY <1>0, <2>1, <2>3, <2>4 DEF DeliveryOK, Passed, Stays
  <2>6. AtHand(d)' /\ Compensating(d)'
    BY <2>1 DEF AtHand, Compensating, At, Stays, Failing
  <2>7. jobStatus[j] \notin {"COMPLETED", "FAILED"}
    BY <1>0, <2>3 DEF DeliveryOK, Around
  <2>8. Around(d)'
    BY <1>0, <1>b, <2>1, <2>2, <2>7 DEF Around, At, Stays, JobOK, Cancelled
  <2>9. ASSUME ~Two(j) PROVE FirstOK(d)'
    <3>1. Ahead(d)'
      BY <1>0, <2>1, <2>2, <2>3, <2>4, <2>9 DEF FirstOK, Ahead, Stays
    <3>2. Fringe(d)'
      BY <2>1, <2>2 DEF Fringe, At, Stays
    <3> QED BY <3>1, <3>2 DEF FirstOK
  <2>10. JobOK(j)'
    BY <1>0, <1>b, <2>2, JobFrame
  <2> QED BY <1>0, <2>5, <2>6, <2>8, <2>9, <2>10, AloneStep DEF DeliveryOK
<1> QED BY <1>1, <1>2, <1>3, <1>4

\* The end of a job and of a delivery.
LEMMA EndKeeps ==
  ASSUME TypeOK, SlotsOK, Traced, OrdersOK, NEW j \in Jobs, OInv(j), OneAtWork(j),
         NEW d \in Deliveries, Alone(d), JobOf(d) = j,
         FailJob(d) \/ Finalize(d) \/ MoveToDeadLetter(d) \/ Notify(d) \/ RejectedCall(d)
  PROVE  OInv(j)'
<1> USE DEF rows, api, faults
<1>a. Used(d) /\ Mine(d, j) /\ queue[d].state = "active" /\ run[d].pc # "idle"
  BY DEF FailJob, Finalize, MoveToDeadLetter, Notify, RejectedCall, At, SlotsOK, Used, Mine
<1>b. JobOf(d)' = j /\ UNCHANGED <<workflow, cancel>> /\ JobOK(j)
  BY DEF Alone, JobOf, OInv
<1>1. CASE Notify(d) \/ RejectedCall(d)
  <2>1. Notify(d) => Two(j) \/ jobStatus[j] \in Terminal
    BY <1>a DEF Notify, OInv, FirstOK, Fringe, At
  <2> QED BY <1>1, <2>1, CloseStep DEF Notify, RejectedCall
<1>2. ASSUME NEW pc \in {"deadletter", "notify"}, Goto(d, pc), UNCHANGED <<stepStatus, queue>>,
             AtWork(d) \/ UNCHANGED jobStatus, ~Two(j) => jobStatus'[j] \in Terminal, JobOK(j)'
      PROVE  OInv(j)'
  <2>1. Stays(d, pc)
    BY <1>2, GotoLocals
  <2>2. ~AtWork(d)'
    BY <1>a, <1>2, <2>1 DEF AtWork, Stays, Unsettled
  <2>3. ASSUME ~Two(j) PROVE FirstOK(d)'
    BY <1>a, <1>b, <1>2, <2>1, <2>3 DEF FirstOK, Ahead, Fringe, At, Stays, Walking, Unsettled
  <2> QED BY <1>2, <2>2, <2>3, AloneStep
<1>3. CASE FailJob(d)
  <2>1. jobStatus'[j] = "FAILED" /\ UNCHANGED stepStatus
    BY <1>3, SetJobEffect DEF FailJob, JobStatuses
  <2>2. run[d].pc \in Unsettled
    BY <1>3 DEF FailJob, At, Unsettled
  <2>3. StepOf(d) \in Steps /\ DeliveryOK(d) /\ AtWork(d)
    BY <2>2, WorkFacts
  <2>4. stepStatus[j][StepOf(d)] = "FAILED" /\ workflow[j][StepOf(d)].critical
    BY <1>3, <2>3 DEF FailJob, DeliveryOK, AtHand, At, Failing, DefOf
  <2>5. JobOK(j)'
    BY <1>b, <2>1, <2>3, <2>4 DEF JobOK
  <2> QED BY <1>2, <1>3, <2>1, <2>3, <2>5 DEF FailJob, Terminal
<1>4. CASE Finalize(d)
  <2>1. jobStatus'[j] = "COMPLETED" /\ UNCHANGED stepStatus
    BY <1>4, SetJobEffect DEF Finalize, JobStatuses
  <2>2. run[d].pc \in Unsettled
    BY <1>4 DEF Finalize, At, Unsettled
  <2>3. DeliveryOK(d) /\ AtWork(d)
    BY <2>2, WorkFacts
  <2>4. Cancelled(j)' \/ \A s \in Steps : Done(j, s)'
    BY <1>4, <1>b, <2>1, <2>3 DEF Finalize, DeliveryOK, Around, Cancelled, Done
  <2>5. JobOK(j)'
    BY <2>1, <2>4 DEF JobOK
  <2> QED BY <1>2, <1>4, <2>1, <2>3, <2>5 DEF Finalize, Terminal
<1>5. CASE MoveToDeadLetter(d)
  <2>1. ~Two(j) => jobStatus[j] \in Terminal
    BY <1>5, <1>a DEF MoveToDeadLetter, OInv, FirstOK, Fringe, At
  <2>2. JobOK(j)'
    BY <1>5, <1>b, JobFrame DEF MoveToDeadLetter
  <2> QED BY <1>2, <1>5, <2>1, <2>2 DEF MoveToDeadLetter
<1> QED BY <1>1, <1>3, <1>4, <1>5

\* BullMQ gives an orphaned delivery back or up.
LEMMA StalledKeeps ==
  ASSUME TypeOK, SlotsOK, Traced, NEW j \in Jobs, OInv(j), OneAtWork(j),
         NEW d \in Deliveries, Alone(d), JobOf(d) = j, StalledCheck(d)
  PROVE  OInv(j)'
<1>1. /\ queue[d].state = "active" /\ run[d].pc = "idle" /\ run' = run
      /\ UNCHANGED <<workflow, jobStatus, stepStatus, cancel>>
      /\ queue'[d].state = "failed" \/ (queue'[d].state = "waiting" /\ queue'[d].stalls # 0)
  BY EngineAssumption DEF StalledCheck, TypeOK, BullJobs, At, rows, api
<1>2. AtWork(d) /\ DeliveryOK(d)'
  BY <1>1 DEF AtWork, DeliveryOK, Passed, AtHand, Compensating, Around, At, Walking, Unsettled, Failing
<1>3. FirstOK(d)'
  BY <1>1 DEF FirstOK, Ahead, Fringe, At, Walking, Unsettled
<1>4. JobOK(j)'
  BY <1>1, JobFrame DEF OInv
<1> QED BY <1>2, <1>3, <1>4, AloneStep

\* A crash leaves every delivery to BullMQ.
LEMMA CrashKeeps ==
  ASSUME NEW j \in Jobs, OInv(j), CrashWorker
  PROVE  OInv(j)'
<1>1. /\ UNCHANGED <<workflow, jobStatus, stepStatus, submit, cancel, queue>>
      /\ \A d \in Deliveries : run'[d].pc = "idle"
  BY DEF CrashWorker, IdleRun, rows, api
<1>2. \A d \in Deliveries : (Mine(d, j)' <=> Mine(d, j)) /\ JobOf(d)' = JobOf(d)
  BY <1>1 DEF Mine, Used, JobOf
<1>3. Two(j)' <=> Two(j)
  BY <1>2 DEF Two, Mine
<1>4. ASSUME NEW d \in Deliveries PROVE DeliveryOK(d)' /\ (FirstOK(d) => FirstOK(d)')
  BY <1>1, <1>2
  DEF DeliveryOK, FirstOK, Passed, AtHand, Compensating, Around, Ahead, Fringe, At, Walking, Unsettled, Failing
<1>5. JobOK(j)'
  BY <1>1, JobFrame DEF OInv
<1>6. NewOK(j) => NewOK(j)'
  BY <1>1, <1>2 DEF NewOK
<1> QED BY <1>2, <1>3, <1>4, <1>5, <1>6 DEF OInv

\* A delivery that is added to a job.
LEMMA AddedKeeps ==
  ASSUME TypeOK, SlotsOK, NEW j \in Jobs, OInv(j), AddDelivery(j),
         UNCHANGED <<workflow, jobStatus, stepStatus, cancel, run>>,
         \/ Two(j)'
         \/ submit[j] # "enqueued" /\ submit'[j] = "enqueued" /\ \A x \in Deliveries : ~Mine(x, j)
  PROVE  OInv(j)'
<1>1. PICK d \in Deliveries :
        /\ ~Used(d)
        /\ queue'[d] = [state |-> "waiting", job |-> j, stalls |-> 0]
        /\ \A x \in Deliveries \ {d} : queue'[x] = queue[x]
  BY DEF AddDelivery, NextId, Used, TypeOK
<1>2. run[d].pc = "idle" /\ Mine(d, j)' /\ JobOf(d)' = j
  BY <1>1 DEF SlotsOK, Used, Mine, JobOf
<1>3. \A x \in Deliveries \ {d} : Mine(x, j)' <=> Mine(x, j)
  BY <1>1 DEF Mine, Used, JobOf
<1>4. DeliveryOK(d)'
  BY <1>2 DEF DeliveryOK, Passed, AtHand, Compensating, Around, At, Walking, Unsettled, Failing
<1>5. ASSUME NEW x \in Deliveries \ {d}, Mine(x, j), AtWork(x)' PROVE DeliveryOK(x)'
  <2>1. JobOf(x) = j
    BY <1>5 DEF Mine
  <2> QED BY <1>1, <1>5, <2>1, DeliveryFrame DEF OInv
<1>6. JobOK(j)'
  BY JobFrame DEF OInv
<1>7. ASSUME ~Two(j)' PROVE NewOK(j)' /\ \A x \in Deliveries : Mine(x, j)' => FirstOK(x)'
  <2>1. \A x \in Deliveries : Mine(x, j)' => x = d
    BY <1>2, <1>7 DEF Two, Mine
  <2>2. submit'[j] = "enqueued" /\ submit[j] # "enqueued" /\ ~Two(j)
    BY <1>7 DEF Two, Mine
  <2>3. NewOK(j)
    BY <2>2 DEF OInv
  <2>4. FirstOK(d)'
    BY <1>1, <1>2, <2>2, <2>3 DEF NewOK, FirstOK, Ahead, Fringe, At, Walking, Unsettled
  <2> QED BY <1>2, <2>1, <2>2, <2>4 DEF NewOK
<1> QED BY <1>3, <1>4, <1>5, <1>6, <1>7 DEF OInv

\* Submissions: the delivery that is added finds the job untouched.
LEMMA SubmissionKeeps ==
  ASSUME TypeOK, SlotsOK, Traced, NEW j \in Jobs, OInv(j), NEW i \in Jobs, Submission(i)
  PROVE  OInv(j)'
<1> USE DEF rows, api, faults
<1>1. /\ UNCHANGED <<workflow, stepStatus, cancel, run>>
      /\ submit[i] \in {"new", "created"} /\ submit'[i] # "new"
      /\ \A x \in Jobs \ {i} : submit'[x] = submit[x] /\ jobStatus'[x] = jobStatus[x]
  BY SetJobEffect DEF Submission, CreateJob, EnqueueWorkflow, EnqueueFails, TypeOK, JobStatuses
<1>2. \A x \in Deliveries : ~Mine(x, i)
  BY <1>1 DEF Traced, Mine
<1>3. CASE i # j
  <2>1. \A x \in Deliveries : Mine(x, j) => queue'[x] = queue[x]
    BY DEF Submission, CreateJob, EnqueueWorkflow, EnqueueFails, AddDelivery, NextId, Mine, Used, TypeOK
  <2>2. ASSUME NEW x \in Deliveries, Mine(x, j)' PROVE Mine(x, j)
    <3>1. CASE UNCHANGED queue
      BY <2>2, <3>1 DEF Mine, Used, JobOf
    <3>2. CASE AddDelivery(i)
      <4>1. queue'[x] = queue[x] \/ queue'[x].job = i
        BY <3>2 DEF AddDelivery, TypeOK
      <4> QED BY <1>3, <2>2, <4>1 DEF Mine, Used, JobOf
    <3> QED BY <3>1, <3>2 DEF Submission, CreateJob, EnqueueWorkflow, EnqueueFails
  <2> QED BY <1>1, <1>3, <2>1, <2>2, Aside
<1>4. CASE i = j /\ EnqueueWorkflow(i)
  <2>1. UNCHANGED jobStatus /\ submit[j] = "created" /\ submit'[j] = "enqueued" /\ AddDelivery(j)
    BY <1>4 DEF EnqueueWorkflow, TypeOK
  <2> QED BY <1>1, <1>2, <1>4, <2>1, AddedKeeps
<1>5. CASE i = j /\ (CreateJob(i) \/ EnqueueFails(i))
  <2>1. UNCHANGED queue /\ submit'[j] # "enqueued" /\ jobStatus'[j] \in {jobStatus[j], "PENDING"}
    BY <1>5, SetJobEffect DEF CreateJob, EnqueueFails, TypeOK, JobStatuses
  <2>2. \A x \in Deliveries : ~Mine(x, j) /\ ~Mine(x, j)'
    BY <1>2, <1>5, <2>1 DEF Mine, Used, JobOf
  <2>3. ~Two(j) /\ ~Two(j)'
    BY <2>2 DEF Two, Mine
  <2>4. JobOK(j) /\ NewOK(j)
    BY <2>3 DEF OInv
  <2>5. JobOK(j)'
    BY <1>1, <2>1, <2>4 DEF JobOK, Done, Cancelled
  <2>6. NewOK(j)'
    BY <1>1, <1>5, <2>1, <2>4 DEF NewOK
  <2> QED BY <2>2, <2>5, <2>6 DEF OInv
<1> QED BY <1>3, <1>4, <1>5 DEF Submission

\* Cancellations.
LEMMA CancellationKeeps ==
  ASSUME TypeOK, SlotsOK, NEW j \in Jobs, OInv(j), NEW c \in Cancellers, Cancellation(c)
  PROVE  OInv(j)'
<1> USE DEF rows, api, faults
<1>1. UNCHANGED <<workflow, stepStatus, submit, run, queue>>
  BY DEF Cancellation, CancelRead, CancelWrite
<1>2. \A d \in Deliveries : JobOf(d)' = JobOf(d) /\ (Mine(d, j)' <=> Mine(d, j)) /\ (AtWork(d)' <=> AtWork(d))
  BY <1>1 DEF JobOf, Mine, Used, AtWork
<1>3. /\ Cancelled(j) => Cancelled(j)'
      /\ \/ jobStatus'[j] = jobStatus[j]
         \/ jobStatus'[j] = "CANCELLED" /\ Cancelled(j)'
  <2>1. CASE CancelRead(c)
    BY <2>1 DEF CancelRead, Cancelled, TypeOK
  <2>2. CASE CancelWrite(c)
    <3>1. /\ cancel[c].pc = "checked" /\ cancel'[c].pc = "done" /\ cancel'[c].job = cancel[c].job
          /\ \A x \in Cancellers \ {c} : cancel'[x] = cancel[x]
          /\ cancel[c].job \in Jobs
      BY <2>2 DEF CancelWrite, TypeOK, Cancels, SlotsOK
    <3>2. /\ jobStatus'[cancel[c].job] = "CANCELLED"
          /\ \A i \in Jobs \ {cancel[c].job} : jobStatus'[i] = jobStatus[i]
      BY <2>2, <3>1 DEF CancelWrite, SetJob, TypeOK
    <3> QED BY <3>1, <3>2 DEF Cancelled
  <2> QED BY <2>1, <2>2 DEF Cancellation
<1>4. JobOK(j)'
  <2>1. JobOK(j) /\ \A s \in Steps : Done(j, s)' = Done(j, s)
    BY <1>1 DEF OInv, Done
  <2> QED BY <1>1, <1>3, <2>1 DEF JobOK
<1>5. ASSUME NEW d \in Deliveries, Mine(d, j)
      PROVE  (DeliveryOK(d) => DeliveryOK(d)') /\ (FirstOK(d) => FirstOK(d)')
  <2>1. JobOf(d) = j /\ JobOf(d)' = j
    BY <1>2, <1>5 DEF Mine
  <2>2. StepOf(d)' = StepOf(d) /\ DefOf(d)' = DefOf(d) /\ Outcomes(d)' = Outcomes(d)
    BY <1>1, <1>2 DEF StepOf, DefOf, Outcomes
  <2>3. \A s \in Steps : Done(j, s)' = Done(j, s)
    BY <1>1 DEF Done
  <2>4. ASSUME DeliveryOK(d) PROVE DeliveryOK(d)'
    <3>1. Passed(d)'
      BY <1>1, <1>2, <2>4 DEF DeliveryOK, Passed, Done
    <3>2. AtHand(d)' /\ Compensating(d)'
      BY <1>1, <1>2, <2>2, <2>4 DEF DeliveryOK, AtHand, Compensating, At
    <3>3. Around(d)'
      BY <1>1, <1>3, <2>1, <2>3, <2>4 DEF DeliveryOK, Around, At
    <3> QED BY <3>1, <3>2, <3>3 DEF DeliveryOK
  <2>5. ASSUME FirstOK(d) PROVE FirstOK(d)'
    BY <1>1, <1>3, <2>1, <2>5 DEF FirstOK, Ahead, Fringe, At, StepAt, Terminal
  <2> QED BY <2>4, <2>5
<1>6. Two(j)' <=> Two(j)
  BY <1>2 DEF Two, Mine
<1>7. NewOK(j) => NewOK(j)'
  BY <1>1, <1>2, <1>3 DEF NewOK
<1> QED BY <1>2, <1>4, <1>5, <1>6, <1>7 DEF OInv

\* Retries: who adds a delivery makes it the second; who resets the status has.
LEMMA RetryKeeps ==
  ASSUME TypeOK, SlotsOK, Traced, Traced', NEW j \in Jobs, OInv(j), NEW o \in Operators, Retry(o)
  PROVE  OInv(j)'
<1> USE DEF rows, api, faults
<1>0. UNCHANGED <<workflow, stepStatus, submit, cancel, run>>
  BY DEF Retry, RetryFind, RetryFetch, RetryAdd, RetryRemove, RetryReset, RetryAborts
<1>1. CASE UNCHANGED <<queue, jobStatus>>
  <2>1. \A x \in Deliveries : Mine(x, j)' => Mine(x, j)
    BY <1>1 DEF Mine, Used, JobOf
  <2> QED BY <1>0, <1>1, <2>1, Aside
<1>2. CASE RetryAdd(o)
  <2>1. PICK i \in Jobs : i = dlq[op[o].entry].job
    BY <1>2 DEF RetryAdd, SlotsOK
  <2>2. UNCHANGED jobStatus /\ AddDelivery(i)
    BY <1>2, <2>1 DEF RetryAdd
  <2>3. CASE i # j
    <3>1. \A x \in Deliveries : Mine(x, j) => queue'[x] = queue[x]
      BY <2>2 DEF AddDelivery, NextId, Mine, Used, TypeOK
    <3>2. \A x \in Deliveries : Mine(x, j)' => Mine(x, j)
      BY <2>2, <2>3 DEF AddDelivery, Mine, Used, JobOf, TypeOK
    <3> QED BY <1>0, <2>2, <3>1, <3>2, Aside
  <2>4. CASE i = j
    <3>1. op'[o].pc = "added" /\ op'[o].entry = op[o].entry /\ dlq' = dlq
      BY <1>2 DEF RetryAdd, TypeOK, Retries
    <3>2. Two(j)'
      <4>1. Two(dlq[op[o].entry].job)'
        BY <3>1 DEF Traced
      <4>2. dlq'[op'[o].entry].job = j
        BY <2>1, <2>4, <3>1
      <4> QED BY <4>1, <4>2 DEF Two
    <3> QED BY <1>0, <2>2, <2>4, <3>2, AddedKeeps
  <2> QED BY <2>3, <2>4
<1>3. CASE RetryReset(o)
  <2>1. PICK i \in Jobs : i = dlq[op[o].entry].job
    BY <1>3 DEF RetryReset, SlotsOK
  <2>2. /\ jobStatus'[i] = "PENDING" /\ UNCHANGED queue
        /\ \A x \in Jobs \ {i} : jobStatus'[x] = jobStatus[x]
    BY <1>3, <2>1, SetJobEffect DEF RetryReset, JobStatuses
  <2>3. \A x \in Deliveries : (Mine(x, j)' <=> Mine(x, j)) /\ JobOf(x)' = JobOf(x) /\ (AtWork(x)' <=> AtWork(x))
    BY <1>0, <2>2 DEF Mine, Used, JobOf, AtWork
  <2>4. CASE i # j
    BY <1>0, <2>2, <2>3, <2>4, Aside
  <2>5. CASE i = j
    <3>1. Two(j)'
      <4>1. Two(j)
        BY <1>3, <2>1, <2>5 DEF RetryReset, Traced
      <4> QED BY <2>3, <4>1 DEF Two, Mine
    <3>2. JobOK(j)'
      BY <2>2, <2>5 DEF JobOK
    <3>3. ASSUME NEW x \in Deliveries, Mine(x, j), DeliveryOK(x) PROVE DeliveryOK(x)'
      <4>1. JobOf(x) = j /\ JobOf(x)' = j
        BY <2>3, <3>3 DEF Mine
      <4>2. StepOf(x)' = StepOf(x) /\ DefOf(x)' = DefOf(x) /\ Outcomes(x)' = Outcomes(x)
        BY <1>0, <4>1 DEF StepOf, DefOf, Outcomes
      <4>3. Cancelled(j)' = Cancelled(j) /\ \A s \in Steps : Done(j, s)' = Done(j, s)
        BY <1>0 DEF Done, Cancelled
      <4>4. Passed(x)'
        BY <1>0, <3>3, <4>1 DEF DeliveryOK, Passed, Done
      <4>5. AtHand(x)' /\ Compensating(x)'
        BY <1>0, <3>3, <4>1, <4>2 DEF DeliveryOK, AtHand, Compensating, At
      <4>6. Around(x)'
        BY <1>0, <2>2, <2>5, <3>3, <4>1, <4>3 DEF DeliveryOK, Around, At
      <4> QED BY <4>4, <4>5, <4>6 DEF DeliveryOK
    <3> QED BY <2>3, <3>1, <3>2, <3>3 DEF OInv
  <2> QED BY <2>4, <2>5
<1> QED BY <1>1, <1>2, <1>3 DEF Retry, RetryFind, RetryFetch, RetryRemove, RetryAborts

-----------------------------------------------------------------------------
(* The invariant is inductive where one delivery is at work *)

LEMMA StutterKeeps ==
  ASSUME NEW j \in Jobs, OInv(j), UNCHANGED vars
  PROVE  OInv(j)'
<1>1. \A x \in Deliveries : Mine(x, j)' => Mine(x, j)
  BY DEF vars, Mine, Used, JobOf
<1> QED BY <1>1, Aside DEF vars, rows, api

LEMMA InitOutcome ==
  ASSUME Init
  PROVE  Traced /\ Told /\ OrdersOK /\ \A j \in Jobs : OInv(j) /\ ~Two(j)
<1>1. \A d \in Deliveries : ~Used(d) /\ run[d].pc = "idle" /\ Complete(run[d].order)
  BY DEF Init, Used, Unused, IdleRun, Complete
<1>2. Traced /\ Told /\ OrdersOK
  BY <1>1 DEF Init, Traced, Told, OrdersOK, NoEntry, IdleOp
<1>3. \A j \in Jobs : JobOK(j) /\ NewOK(j)
  BY DEF Init, JobOK, NewOK
<1> QED BY <1>1, <1>2, <1>3 DEF OInv, Mine, Two

\* A load order, once chosen, stays.
LEMMA OrdersStep ==
  ASSUME IInv, OrdersOK, [Next]_vars
  PROVE  OrdersOK'
<1> USE DEF IInv, rows, api, faults
<1>1. ASSUME NEW d \in Deliveries, Work(d) \/ Fault(d) \/ StalledCheck(d) PROVE OrdersOK'
  <2>1. Alone(d)
    BY <1>1, WorkerIsAlone
  <2> QED BY <2>1 DEF Alone, OrdersOK
<1>2. CASE CrashWorker
  BY <1>2 DEF CrashWorker, OrdersOK, IdleRun, Complete
<1>3. CASE UNCHANGED run
  BY <1>3 DEF OrdersOK
<1>4. ASSUME ~(\E d \in Deliveries : Work(d) \/ Fault(d) \/ StalledCheck(d)), ~CrashWorker
      PROVE  UNCHANGED run
  BY <1>4 DEF Next, vars, Submission, CreateJob, EnqueueWorkflow, EnqueueFails, Cancellation,
    CancelRead, CancelWrite, Retry, RetryFind, RetryFetch, RetryAdd, RetryRemove, RetryReset, RetryAborts
<1> QED BY <1>1, <1>2, <1>3, <1>4

LEMMA OutcomeStep ==
  ASSUME IInv, Traced, Traced', OrdersOK, [Next]_vars, NEW j \in Jobs, OInv(j), OneAtWork(j)
  PROVE  OInv(j)'
<1> USE DEF IInv
<1>1. ASSUME NEW d \in Deliveries, Work(d) \/ Fault(d) \/ StalledCheck(d) PROVE OInv(j)'
  <2>1. Alone(d)
    BY <1>1, WorkerIsAlone
  <2>2. CASE JobOf(d) = j
    BY <1>1, <2>1, <2>2, AttemptKeeps, RecoveryKeeps, StartKeeps, EndKeeps, StalledKeeps
    DEF Work, Fault, Lifecycle
  <2>3. CASE JobOf(d) # j
    <3>1. \A x \in Deliveries : Mine(x, j) => run'[x] = run[x] /\ queue'[x] = queue[x]
      BY <2>1, <2>3 DEF Alone, Mine
    <3>2. \A x \in Deliveries : Mine(x, j)' => Mine(x, j)
      BY <2>1, <2>3 DEF Alone, Mine, Used, JobOf
    <3> QED BY <2>1, <2>3, <3>1, <3>2, Aside DEF Alone
  <2> QED BY <2>2, <2>3
<1>2. CASE CrashWorker
  BY <1>2, CrashKeeps
<1>3. CASE \E i \in Jobs : Submission(i)
  BY <1>3, SubmissionKeeps
<1>4. CASE \E c \in Cancellers : Cancellation(c)
  BY <1>4, CancellationKeeps
<1>5. CASE \E o \in Operators : Retry(o)
  BY <1>5, RetryKeeps
<1>6. CASE UNCHANGED vars
  BY <1>6, StutterKeeps
<1> QED BY <1>1, <1>2, <1>3, <1>4, <1>5, <1>6 DEF Next

\* What holds of the whole, whoever retries.
Base == IInv /\ Traced /\ Told /\ OrdersOK

LEMMA BaseHolds == Spec => []Base
<1>1. Init => Traced /\ Told /\ OrdersOK
  BY InitOutcome
<1>2. IInv /\ IInv' /\ Base /\ [Next]_vars => Traced' /\ Told' /\ OrdersOK'
  BY ToldStep, OrdersStep DEF Base
<1> QED BY <1>1, <1>2, Typing, PTL DEF Spec, Base

LEMMA TwoStays ==
  ASSUME Base, Base', [Next]_vars, NEW j \in Jobs, Two(j)
  PROVE  Two(j)'
<1>1. CASE UNCHANGED vars
  BY <1>1 DEF vars, Two, Used, JobOf
<1>2. CASE Next
  BY <1>2, NextEffect, DeliveriesStay DEF Base, IInv
<1> QED BY <1>1, <1>2

\* One delivery after the other.
LEMMA OneByOne == Spec /\ []OneDeliveryAtWork => [](\A j \in Jobs : OInv(j))
<1> DEFINE All == \A j \in Jobs : OInv(j)
<1>1. Init => All
  BY InitOutcome
<1>2. Base /\ Base' /\ OneDeliveryAtWork /\ All /\ [Next]_vars => All'
  BY OutcomeStep DEF Base, OneDeliveryAtWork
<1> QED BY <1>1, <1>2, BaseHolds, PTL DEF Spec

\* A job that was delivered once.
LEMMA Once == Spec => [](\A j \in Jobs : Two(j) \/ OInv(j))
<1> DEFINE All == \A j \in Jobs : Two(j) \/ OInv(j)
<1>1. Init => All
  BY InitOutcome
<1>2. ASSUME Base, Base', [Next]_vars, NEW j \in Jobs, Two(j) \/ OInv(j)
      PROVE  Two(j)' \/ OInv(j)'
  <2>1. CASE Two(j)
    BY <1>2, <2>1, TwoStays
  <2>2. CASE ~Two(j)
    <3>1. OneAtWork(j)
      BY <2>2 DEF OneAtWork, AtWork, Two, Used
    <3> QED BY <1>2, <2>2, <3>1, OutcomeStep DEF Base
  <2> QED BY <2>1, <2>2
<1>3. Base /\ Base' /\ All /\ [Next]_vars => All'
  BY <1>2
<1> QED BY <1>1, <1>3, BaseHolds, PTL DEF Spec

LEMMA TwoIsRequeued ==
  ASSUME NEW j \in Jobs, Two(j)
  PROVE  Requeued(j)
BY DEF Two, Requeued, JobOf

-----------------------------------------------------------------------------
(* The theorems *)

\* Who does not retry makes no second delivery.
LEMMA Sole ==
  ASSUME Operators = {}
  PROVE  Spec => [](\A j \in Jobs : ~Two(j))
<1> DEFINE NoTwo == \A j \in Jobs : ~Two(j)
<1>1. Init => NoTwo
  BY InitOutcome
<1>2. ASSUME Base, NoTwo, [Next]_vars, NEW j \in Jobs, Two(j)' PROVE FALSE
  <2> USE DEF rows, api, faults
  <2>1. PICK d, e \in Deliveries : d # e /\ Mine(d, j)' /\ Mine(e, j)'
    BY <1>2 DEF Two, Mine
  <2>2. ASSUME \A x \in Deliveries : Mine(x, j)' => Mine(x, j) PROVE FALSE
    BY <1>2, <2>1, <2>2 DEF Two, Mine
  <2>3. ASSUME NEW x \in Deliveries, Work(x) \/ Fault(x) \/ StalledCheck(x) PROVE FALSE
    <3>1. Alone(x)
      BY <1>2, <2>3, WorkerIsAlone DEF Base, IInv
    <3> QED BY <2>2, <3>1 DEF Alone, Mine, Used, JobOf
  <2>4. ASSUME NEW i \in Jobs, EnqueueWorkflow(i) PROVE FALSE
    <3>1. PICK n \in Deliveries : /\ queue'[n].job = i
                                  /\ \A x \in Deliveries \ {n} : queue'[x] = queue[x]
      BY <1>2, <2>4 DEF EnqueueWorkflow, AddDelivery, Base, IInv, TypeOK
    <3>2. \A x \in Deliveries : ~Mine(x, i)
      BY <1>2, <2>4 DEF EnqueueWorkflow, Base, Traced, Mine
    <3> QED BY <2>1, <2>2, <3>1, <3>2 DEF Mine, Used, JobOf
  <2>5. CASE UNCHANGED queue
    BY <2>2, <2>5 DEF Mine, Used, JobOf
  <2>6. UNCHANGED queue \/ (\E x \in Deliveries : Work(x) \/ Fault(x) \/ StalledCheck(x))
        \/ \E i \in Jobs : EnqueueWorkflow(i)
    BY <1>2 DEF Next, vars, Submission, CreateJob, EnqueueFails, Cancellation, CancelRead, CancelWrite,
      CrashWorker
  <2> QED BY <2>3, <2>4, <2>5, <2>6
<1>3. Base /\ NoTwo /\ [Next]_vars => NoTwo'
  BY <1>2
<1> QED BY <1>1, <1>3, BaseHolds, PTL DEF Spec

\* Where nobody retries from the dead-letter queue, no two deliveries of a job
\* are at work: the hypothesis of the next theorems holds (jobs.service 53-77,
\* dead-letter.service 36-42).
THEOREM UnretriedIsSole ==
  ASSUME Operators = {}
  PROVE  Spec => []OneDeliveryAtWork
<1>1. (\A j \in Jobs : ~Two(j)) => OneDeliveryAtWork
  BY DEF OneDeliveryAtWork, OneAtWork, AtWork, Two, Used
<1> QED BY <1>1, Sole, PTL

\* A job that nobody cancelled is COMPLETED only behind settled steps, also when
\* it was retried, unless two of its deliveries ran at the same time (worker
\* 131-205, 436-452).
THEOREM CompletionIsEarned == Spec /\ []OneDeliveryAtWork => []CompletedMeansSettled
<1>1. (\A j \in Jobs : OInv(j)) => CompletedMeansSettled
  BY DEF OInv, JobOK, Done, CompletedMeansSettled
<1> QED BY <1>1, OneByOne, PTL

\* A FAILED job has a FAILED critical step, also when it was retried, unless two
\* of its deliveries ran at the same time (worker 164-177).
THEOREM CulpritIsNamed == Spec /\ []OneDeliveryAtWork => []FailedHasCulprit
<1>1. (\A j \in Jobs : OInv(j)) => FailedHasCulprit
  BY DEF OInv, JobOK, FailedHasCulprit
<1> QED BY <1>1, OneByOne, PTL

\* A compensation leaves no other step COMPLETED, also when the job was retried,
\* unless two of its deliveries ran at the same time (recovery.service 254-278).
THEOREM CompensationEnds == Spec /\ []OneDeliveryAtWork => []CompensationIsComplete
<1>1. Base /\ (\A j \in Jobs : OInv(j)) => CompensationIsComplete
  <2> SUFFICES ASSUME Base, \A j \in Jobs : OInv(j), NEW d \in Deliveries, At(d, "resolved"),
                      "compensated" \in Outcomes(d)
               PROVE  \A s \in Steps : stepStatus[JobOf(d)][s] # "COMPLETED"
    BY DEF CompensationIsComplete
  <2>1. queue[d].state = "active" /\ JobOf(d) \in Jobs /\ Mine(d, JobOf(d)) /\ AtWork(d)
    BY DEF Base, IInv, SlotsOK, At, Mine, Used, JobOf, AtWork, Unsettled
  <2>2. DeliveryOK(d)
    BY <2>1 DEF OInv
  <2> QED BY <2>2 DEF DeliveryOK, Compensating
<1> QED BY <1>1, OneByOne, BaseHolds, PTL

\* A job that is under way and that no delivery will pick up was delivered twice.
LEMMA StrandedIsTwo == Base /\ (\A j \in Jobs : Two(j) \/ OInv(j)) => \A j \in Jobs : Stranded(j) => Two(j)
<1> SUFFICES ASSUME Base, NEW j \in Jobs, OInv(j), Stranded(j), ~Two(j)
             PROVE  FALSE
  OBVIOUS
<1>1. PICK d \in Deliveries : Mine(d, j)
  BY DEF OInv, NewOK, JobOK, Stranded, Base, IInv, TypeOK
<1>2. queue[d] \in BullJobs /\ run[d] \in Locals
  BY DEF Base, IInv, TypeOK
<1>3. run[d].pc \notin {"deadletter", "notify"} /\ queue[d].state # "completed"
  BY <1>1 DEF OInv, FirstOK, Fringe, Mine, Stranded, Terminal
<1> QED BY <1>1, <1>2, <1>3 DEF Stranded, Carries, CarriesFrom, Mine, Used, JobOf, BullJobs, Locals, RunPcs

\* Only operators strand a job: one that is under way and that no delivery will
\* pick up has been re-queued from the dead-letter queue (worker 98-205,
\* jobs.service 53-77, dead-letter.service 36-55).
THEOREM OnlyRetriesStrand == Spec => [](\A j \in Jobs : Stranded(j) => Requeued(j))
<1>1. Base /\ (\A j \in Jobs : Two(j) \/ OInv(j)) => \A j \in Jobs : Stranded(j) => Requeued(j)
  BY StrandedIsTwo, TwoIsRequeued
<1> QED BY <1>1, Once, BaseHolds, PTL

\* Where nobody retries, no submitted job is forgotten (jobs.service 53-77,
\* worker 98-205).
THEOREM NoneStranded ==
  ASSUME Operators = {}
  PROVE  Spec => []NoStrandedJob
<1>1. Base /\ (\A j \in Jobs : Two(j) \/ OInv(j)) /\ (\A j \in Jobs : ~Two(j)) => NoStrandedJob
  BY StrandedIsTwo DEF NoStrandedJob
<1> QED BY <1>1, Once, Sole, BaseHolds, PTL

\* A job that has ended stays so but for a late cancellation, a redelivery or a
\* retry of this very job (worker 164-190, 436-452, dead-letter.service 36-55).
THEOREM EndIsFinal == Spec => TerminalStable
<1>1. ASSUME Base, \A j \in Jobs : Two(j) \/ OInv(j), Next, NEW j \in Jobs,
             jobStatus[j] \in {"COMPLETED", "FAILED"}, jobStatus'[j] # jobStatus[j]
      PROVE  jobStatus'[j] = "CANCELLED" \/ Redelivered(j) \/ Requeued(j)
  <2> SUFFICES ASSUME ~Two(j), OInv(j) PROVE jobStatus'[j] = "CANCELLED" \/ Redelivered(j)
    BY <1>1, TwoIsRequeued
  <2> USE <1>1 DEF Base, IInv, rows, api, faults
  <2>1. ASSUME NEW d \in Deliveries, MarkStarted(d) PROVE Redelivered(j)
    <3>1. JobOf(d) = j /\ At(d, "loaded") /\ Mine(d, j)
      BY <2>1 DEF MarkStarted, SetJob, TypeOK, SlotsOK, At, Used, Mine
    <3>2. queue[d].stalls # 0
      BY <3>1 DEF OInv, FirstOK, Fringe
    <3>3. queue[d] \in BullJobs
      BY DEF TypeOK
    <3>4. queue[d].stalls > 0
      BY <3>2, <3>3, EngineAssumption DEF BullJobs
    <3> QED BY <3>1, <3>4 DEF Redelivered, JobOf
  <2>2. ASSUME NEW d \in Deliveries, MarkRetrying(d) \/ FailJob(d) \/ Finalize(d) PROVE FALSE
    <3>1. JobOf(d) = j /\ run[d].pc \in {"retrying", "exhausted", "finalize"} /\ queue[d].state = "active"
      BY <2>2 DEF MarkRetrying, FailJob, Finalize, SetJob, TypeOK, SlotsOK, At
    <3>2. Mine(d, j) /\ AtWork(d)
      BY <3>1 DEF Mine, Used, AtWork, Unsettled
    <3> QED BY <3>1, <3>2 DEF OInv, DeliveryOK, Around
  <2>3. ASSUME NEW d \in Deliveries, Work(d) \/ Fault(d) \/ StalledCheck(d) PROVE Redelivered(j)
    BY <2>1, <2>2, <2>3
    DEF Work, Fault, Attempt, Recovery, Lifecycle, HandlerMissing, PersistStepSuccess,
      StepSucceeds, AttemptFails, RecoveryResolves, HandleSkip, HandleCompensate,
      CompensateStep, CompensateDone, RecoveryFails, ResolveStep, PollStatus, LoadJob, SkipCancelled,
      MarkStepRunning, SkipExhausted, MoveToDeadLetter, Notify, RecordFailure,
      CatchAfterPersist, RecoveryRejected, RejectedCall, StalledCheck
  <2>4. ASSUME NEW i \in Jobs, Submission(i) PROVE FALSE
    <3>1. i = j /\ submit[j] = "new"
      BY <2>4 DEF Submission, CreateJob, EnqueueWorkflow, EnqueueFails, SetJob, TypeOK
    <3> QED BY <3>1 DEF OInv, NewOK
  <2>5. ASSUME NEW c \in Cancellers, Cancellation(c) PROVE jobStatus'[j] = "CANCELLED"
    BY <2>5 DEF Cancellation, CancelRead, CancelWrite, SetJob, TypeOK
  <2>6. ASSUME NEW o \in Operators, Retry(o) PROVE FALSE
    <3>1. RetryReset(o)
      BY <2>6 DEF Retry, RetryFind, RetryFetch, RetryAdd, RetryRemove, RetryAborts
    <3>2. dlq[op[o].entry].job = j
      BY <3>1 DEF RetryReset, SetJob, TypeOK
    <3> QED BY <3>1, <3>2 DEF RetryReset, Traced
  <2>7. ~CrashWorker
    BY DEF CrashWorker
  <2> QED BY <2>3, <2>4, <2>5, <2>6, <2>7 DEF Next
<1>2. Base /\ (\A j \in Jobs : Two(j) \/ OInv(j)) /\ [Next]_vars =>
        [ \A j \in Jobs :
            jobStatus[j] \in {"COMPLETED", "FAILED"} /\ jobStatus'[j] # jobStatus[j] =>
              jobStatus'[j] = "CANCELLED" \/ Redelivered(j) \/ Requeued(j) ]_vars
  BY <1>1
<1> QED BY <1>2, Once, BaseHolds, PTL DEF Spec, TerminalStable

\* What was settled is started again only after a crash or by a retry of this
\* very job (worker 131-190).
THEOREM WorkIsDoneOnce == Spec => SettledStepsRerunOnlyAfterCrash
<1>1. ASSUME Base, \A j \in Jobs : Two(j) \/ OInv(j), Next, NEW j \in Jobs, NEW s \in Steps,
             stepStatus[j][s] \in SettledStep, stepStatus'[j][s] = "RUNNING"
      PROVE  Redelivered(j) \/ Requeued(j)
  <2> SUFFICES ASSUME ~Two(j), OInv(j) PROVE Redelivered(j)
    BY <1>1, TwoIsRequeued
  <2> USE <1>1 DEF Base, IInv, rows, api, faults
  <2>1. ASSUME NEW d \in Deliveries, MarkStepRunning(d) PROVE Redelivered(j)
    <3>1. At(d, "begin") /\ Used(d) /\ JobOf(d) \in Jobs /\ StepOf(d) \in Steps
      BY <2>1, SlotFacts DEF MarkStepRunning, At, Used
    <3>2. JobOf(d) = j /\ StepOf(d) = s /\ Mine(d, j)
      BY <2>1, <3>1, StepWritten DEF MarkStepRunning, SettledStep, Mine
    <3>3. run[d] \in Locals /\ queue[d] \in BullJobs
      BY DEF TypeOK
    <3>4. queue[d].stalls # 0
      BY <3>1, <3>2, <3>3
      DEF OInv, FirstOK, Ahead, StepAt, StepOf, SettledStep, At, Walking, Unsettled, Locals
    <3>5. queue[d].stalls > 0
      BY <3>3, <3>4, EngineAssumption DEF BullJobs
    <3> QED BY <3>1, <3>2, <3>5 DEF Redelivered, JobOf
  <2>2. ASSUME NEW d \in Deliveries, NEW i \in Jobs, NEW t \in Steps, NEW st \in StepStatuses \ {"RUNNING"},
               SetStep(i, t, st)
        PROVE  FALSE
    BY <2>2, StepWritten DEF SettledStep
  <2>3. stepStatus' # stepStatus
    BY DEF SettledStep
  <2>4. ASSUME NEW d \in Deliveries, Work(d) \/ Fault(d) PROVE Redelivered(j)
    <3>1. CASE PersistStepSuccess(d) \/ AttemptFails(d) \/ CatchAfterPersist(d) \/ HandleSkip(d)
               \/ ResolveStep(d) \/ SkipExhausted(d)
      <4>1. run[d].pc # "idle"
        BY <3>1 DEF PersistStepSuccess, AttemptFails, CatchAfterPersist, HandleSkip, ResolveStep,
          SkipExhausted, At
      <4> QED BY <2>2, <3>1, <4>1, SlotFacts
        DEF PersistStepSuccess, AttemptFails, CatchAfterPersist, RecordFailure, HandleSkip, ResolveStep,
          SkipExhausted, StepStatuses
    <3>2. CASE CompensateStep(d)
      <4>1. run[d].pc # "idle" /\ run[d] \in Locals
        BY <3>2 DEF CompensateStep, At, TypeOK
      <4> QED BY <2>2, <3>2, <4>1, SlotFacts DEF CompensateStep, StepStatuses, Locals
    <3> QED BY <2>1, <2>3, <2>4, <3>1, <3>2
      DEF Work, Fault, Attempt, Recovery, Lifecycle, HandlerMissing, StepSucceeds, MarkRetrying,
        RecoveryResolves, HandleCompensate, CompensateDone, RecoveryFails, RecoveryRejected,
        SkipCancelled, LoadJob, MarkStarted, PollStatus, FailJob, MoveToDeadLetter, Finalize, Notify,
        RejectedCall
  <2>5. UNCHANGED stepStatus \/ \E d \in Deliveries : Work(d) \/ Fault(d)
    BY DEF Next, Submission, CreateJob, EnqueueWorkflow, EnqueueFails, Cancellation, CancelRead,
      CancelWrite, StalledCheck, CrashWorker, Retry, RetryFind, RetryFetch, RetryAdd, RetryRemove,
      RetryReset, RetryAborts
  <2> QED BY <2>3, <2>4, <2>5
<1>2. Base /\ (\A j \in Jobs : Two(j) \/ OInv(j)) /\ [Next]_vars =>
        [ \A j \in Jobs, s \in Steps :
            /\ stepStatus[j][s] \in SettledStep
            /\ stepStatus'[j][s] = "RUNNING"
            => Redelivered(j) \/ Requeued(j) ]_vars
  BY <1>1
<1> QED BY <1>2, Once, BaseHolds, PTL DEF Spec, SettledStepsRerunOnlyAfterCrash
-----------------------------------------------------------------------------
(* The engine implements JobContract *)

\* A job has a status from its submission on, a delivery has nothing before it
\* is added, and who cancels has read a status.
Born ==
  /\ \A j \in Jobs : submit[j] = "new" <=> jobStatus[j] = "NONE"
  /\ \A d \in Deliveries : ~Used(d) => queue[d] = Unused
  /\ \A c \in Cancellers : cancel[c].pc # "idle" => jobStatus[cancel[c].job] # "NONE"

\* Who has a status keeps one.
LEMMA BornFrame ==
  ASSUME Born, UNCHANGED submit,
         \A j \in Jobs : jobStatus'[j] # jobStatus[j] => submit[j] # "new" /\ jobStatus'[j] # "NONE",
         \A d \in Deliveries : ~Used(d)' => queue'[d] = queue[d],
         \A c \in Cancellers : cancel'[c].pc # "idle" =>
           cancel'[c].job \in Jobs /\ jobStatus[cancel'[c].job] # "NONE"
  PROVE  Born'
<1>1. \A j \in Jobs : submit'[j] = "new" <=> jobStatus'[j] = "NONE"
  BY DEF Born
<1>2. \A d \in Deliveries : ~Used(d)' => queue'[d] = Unused
  BY DEF Born, Used
<1>3. \A c \in Cancellers : cancel'[c].pc # "idle" => jobStatus'[cancel'[c].job] # "NONE"
  BY DEF Born
<1> QED BY <1>1, <1>2, <1>3 DEF Born

LEMMA BornStep ==
  ASSUME Base, Base', Born, [Next]_vars
  PROVE  Born'
<1> USE DEF rows, api, faults
<1>1. CASE UNCHANGED vars
  BY <1>1 DEF vars, Born, Used
<1>2. ASSUME NEW d \in Deliveries, Work(d) \/ Fault(d) \/ StalledCheck(d) PROVE Born'
  <2>1. Alone(d)
    BY <1>2, WorkerIsAlone DEF Base, IInv
  <2>2. submit[JobOf(d)] = "enqueued" /\ JobOf(d) \in Jobs
    BY <2>1 DEF Alone, Base, Traced, IInv, SlotsOK, Used, JobOf
  <2>3. \/ Progress(d) \/ Closes(d) \/ Loads(d) \/ Stalls(d) \/ DeadLettered(d)
        \/ Ends(d, "exhausted", "deadletter", "FAILED")
        \/ Ends(d, "finalize", "notify", "COMPLETED")
    BY <1>2, ProceedsEffect, ClosesEffect, LoadsEffect, StallsEffect, FailEffect, FinalizeEffect,
       DeadLetterEffect
    DEF Base, IInv, Work, Fault, Attempt, Recovery, Lifecycle, Proceeds
  <2>4. \A j \in Jobs : jobStatus'[j] # jobStatus[j] => j = JobOf(d) /\ jobStatus'[j] # "NONE"
    BY <2>2, <2>3 DEF Progress, Closes, Loads, Stalls, DeadLettered, Ends
  <2>5. \A x \in Deliveries : ~Used(x)' => queue'[x] = queue[x]
    BY <2>1 DEF Alone
  <2>6. \A c \in Cancellers : cancel[c].pc # "idle" => cancel[c].job \in Jobs
    BY DEF Base, IInv, SlotsOK
  <2> QED BY <2>1, <2>2, <2>4, <2>5, <2>6, BornFrame DEF Alone, Born
<1>3. CASE CrashWorker
  BY <1>3, BornFrame DEF CrashWorker, Born, Base, IInv, SlotsOK
<1>4. ASSUME NEW j \in Jobs, CreateJob(j) PROVE Born'
  BY <1>4 DEF CreateJob, SetJob, Born, Base, IInv, TypeOK, SlotsOK, Used
<1>5. ASSUME NEW j \in Jobs, EnqueueWorkflow(j) PROVE Born'
  <2>1. /\ UNCHANGED <<jobStatus, cancel>> /\ submit[j] = "created"
        /\ submit' = [submit EXCEPT ![j] = "enqueued"]
    BY <1>5 DEF EnqueueWorkflow
  <2>2. \A d \in Deliveries : ~Used(d)' => queue'[d] = queue[d]
    BY <1>5 DEF EnqueueWorkflow, AddDelivery, Used, Base, IInv, TypeOK
  <2> QED BY <2>1, <2>2 DEF Born, Used, Base, IInv, TypeOK
<1>6. ASSUME NEW j \in Jobs, EnqueueFails(j) PROVE Born'
  BY <1>6 DEF EnqueueFails, Born, Used, Base, IInv, TypeOK
<1>7. ASSUME NEW c \in Cancellers, CancelRead(c) PROVE Born'
  <2>1. PICK j \in Jobs : /\ jobStatus[j] \notin Terminal \union {"NONE"}
                          /\ cancel' = [cancel EXCEPT ![c] = [pc |-> "checked", job |-> j]]
    BY <1>7 DEF CancelRead
  <2>2. \A x \in Cancellers : cancel'[x] = cancel[x] \/ cancel'[x].job = j
    BY <2>1 DEF Base, IInv, TypeOK
  <2> QED BY <1>7, <2>1, <2>2, BornFrame DEF CancelRead, Born, Base, IInv, SlotsOK
<1>8. ASSUME NEW c \in Cancellers, CancelWrite(c) PROVE Born'
  <2>1. cancel[c].job \in Jobs /\ submit[cancel[c].job] # "new"
    BY <1>8 DEF CancelWrite, Born, Base, IInv, SlotsOK
  <2>2. \A j \in Jobs : jobStatus'[j] # jobStatus[j] => j = cancel[c].job /\ jobStatus'[j] = "CANCELLED"
    BY <1>8, <2>1 DEF CancelWrite, SetJob, Base, IInv, TypeOK
  <2>3. \A x \in Cancellers : cancel'[x].job = cancel[x].job /\
                              (cancel'[x].pc # "idle" => cancel[x].pc # "idle")
    BY <1>8 DEF CancelWrite, Base, IInv, TypeOK, Cancels
  <2> QED BY <1>8, <2>1, <2>2, <2>3, BornFrame DEF CancelWrite, Born, Base, IInv, SlotsOK
<1>9. ASSUME NEW o \in Operators, RetryAdd(o) PROVE Born'
  <2>1. UNCHANGED <<jobStatus, cancel, submit>>
    BY <1>9 DEF RetryAdd
  <2>2. \A d \in Deliveries : ~Used(d)' => queue'[d] = queue[d]
    BY <1>9 DEF RetryAdd, AddDelivery, Used, Base, IInv, TypeOK
  <2> QED BY <2>1, <2>2, BornFrame DEF Born, Base, IInv, SlotsOK
<1>10. ASSUME NEW o \in Operators, RetryReset(o) PROVE Born'
  <2>1. PICK j \in Jobs : j = dlq[op[o].entry].job /\ submit[j] = "enqueued"
    BY <1>10 DEF RetryReset, Base, IInv, SlotsOK, Traced, Two
  <2>2. \A i \in Jobs : jobStatus'[i] # jobStatus[i] => i = j /\ jobStatus'[i] = "PENDING"
    BY <1>10, <2>1 DEF RetryReset, SetJob, Base, IInv, TypeOK
  <2> QED BY <1>10, <2>1, <2>2, BornFrame DEF RetryReset, Born, Base, IInv, SlotsOK
<1>11. ASSUME NEW o \in Operators, RetryFind(o) \/ RetryFetch(o) \/ RetryRemove(o) \/ RetryAborts(o)
       PROVE  Born'
  BY <1>11, BornFrame DEF RetryFind, RetryFetch, RetryRemove, RetryAborts, Born, Base, IInv, SlotsOK
<1> QED BY <1>1, <1>2, <1>3, <1>4, <1>5, <1>6, <1>7, <1>8, <1>9, <1>10, <1>11
  DEF Next, Submission, Cancellation, Retry

\* One delivery moves: one ticket turns, ...
LEMMA TicketTurns ==
  ASSUME NEW d \in Deliveries, NEW to, TicketState(d)' = to, queue'[d].job = queue[d].job,
         \A x \in Deliveries \ {d} : run'[x] = run[x] /\ queue'[x] = queue[x]
  PROVE  TicketStates' = [TicketStates EXCEPT ![d] = to] /\ TicketJobs' = TicketJobs
<1>1. \A x \in Deliveries \ {d} : TicketState(x)' = TicketState(x)
  BY DEF TicketState, At
<1> QED BY <1>1 DEF TicketStates, TicketJobs

\* ... or the delivery is where it was.
LEMMA TicketStays ==
  ASSUME NEW d \in Deliveries, TicketState(d)' = TicketState(d), queue'[d].job = queue[d].job,
         \A x \in Deliveries \ {d} : run'[x] = run[x] /\ queue'[x] = queue[x]
  PROVE  UNCHANGED <<TicketStates, TicketJobs>>
<1>1. \A x \in Deliveries \ {d} : TicketState(x)' = TicketState(x)
  BY DEF TicketState, At
<1> QED BY <1>1 DEF TicketStates, TicketJobs

LEMMA StallsStay ==
  ASSUME \A x \in Deliveries : queue'[x].stalls = queue[x].stalls
  PROVE  Repeated' = Repeated
BY DEF Repeated

LEMMA LettersStay ==
  ASSUME UNCHANGED <<dlq, op>>
  PROVE  UNCHANGED <<LetterStates, LetterJobs>>
BY DEF LetterStates, LetterState, Answered, LetterJobs

\* The place of a delivery in the contract.
LEMMA TicketFacts ==
  ASSUME NEW d \in Deliveries
  PROVE  /\ TicketStates[d] = TicketState(d) /\ TicketJobs[d] = JobOf(d)
         /\ queue[d].state = "waiting" => TicketState(d) = "open"
         /\ queue[d].state = "unused" => TicketState(d) = "unissued"
         /\ queue[d].state = "active" =>
              /\ At(d, "deadletter") => TicketState(d) = "owing"
              /\ At(d, "notify") => TicketState(d) = "ending"
              /\ run[d].pc \notin {"deadletter", "notify"} => TicketState(d) = "open"
BY DEF TicketStates, TicketJobs, TicketState, JobOf, At

LEMMA TicketFactsNext ==
  ASSUME NEW d \in Deliveries
  PROVE  /\ queue'[d].state = "waiting" => TicketState(d)' = "open"
         /\ queue'[d].state = "completed" => TicketState(d)' = "closed"
         /\ queue'[d].state = "failed" => TicketState(d)' = "kept"
         /\ queue'[d].state = "active" =>
              /\ run'[d].pc = "deadletter" => TicketState(d)' = "owing"
              /\ run'[d].pc = "notify" => TicketState(d)' = "ending"
              /\ run'[d].pc \notin {"deadletter", "notify"} => TicketState(d)' = "open"
BY DEF TicketState, At

\* What EndIsFinal says of a step.
EndStands ==
  \A j \in Jobs :
    jobStatus[j] \in {"COMPLETED", "FAILED"} /\ jobStatus'[j] # jobStatus[j] =>
      jobStatus'[j] = "CANCELLED" \/ Redelivered(j) \/ Requeued(j)

LEMMA ComesAgain ==
  ASSUME Born, NEW j \in Jobs
  PROVE  /\ Requeued(j) => Contract!Twice(j)
         /\ Two(j) => Contract!Twice(j)
         /\ Redelivered(j) => Contract!Again(j)
<1>1. ASSUME NEW d \in Deliveries, queue[d].job = j PROVE Contract!Issued(d, j)
  <2>1. Used(d)
    BY <1>1, EngineAssumption DEF Born, Unused
  <2> QED BY <1>1, <2>1 DEF Contract!Issued, TicketStates, TicketState, TicketJobs, Used
<1>2. Requeued(j) => Contract!Twice(j)
  BY <1>1 DEF Requeued, Contract!Twice
<1>3. Redelivered(j) => Contract!Again(j)
  BY <1>1 DEF Redelivered, Contract!Again, Repeated
<1> QED BY <1>2, <1>3, TwoIsRequeued

\* The worker writes a status.
LEMMA Telling ==
  ASSUME Base, Base', Born, EndStands, NEW d \in Deliveries, NEW st \in JobStatuses \ {"CANCELLED"},
         TicketState(d) = "open", JobOf(d) \in Jobs, jobStatus'[JobOf(d)] = st,
         \A j \in Jobs \ {JobOf(d)} : jobStatus'[j] = jobStatus[j],
         UNCHANGED <<queue, dlq, op>>
  PROVE  Contract!Tells(d, st)
<1>1. jobStatus' = [jobStatus EXCEPT ![JobOf(d)] = st]
  BY DEF Base, IInv, TypeOK
<1>2. UNCHANGED <<TicketJobs, Repeated, LetterStates, LetterJobs>>
  BY StallsStay, LettersStay DEF TicketJobs
<1>3. jobStatus[JobOf(d)] \in {"COMPLETED", "FAILED"} =>
        st = jobStatus[JobOf(d)] \/ Contract!Twice(JobOf(d)) \/ Contract!Again(JobOf(d))
  BY ComesAgain DEF EndStands
<1> QED BY <1>1, <1>2, <1>3, TicketFacts DEF Contract!Tells, Contract!Writes, Contract!letters

\* What the worker and the stalled checker do.
LEMMA WorkerContract ==
  ASSUME Base, Base', Born, EndStands, NEW d \in Deliveries, Work(d) \/ Fault(d) \/ StalledCheck(d)
  PROVE  [Contract!Next]_(Contract!contract)
<1> USE DEF rows, api, faults
<1>0. /\ TypeOK /\ SlotsOK /\ run[d] \in Locals /\ queue[d] \in BullJobs
      /\ run[d].pc # "idle" => queue[d].state = "active" /\ JobOf(d) \in Jobs
  BY SlotFacts DEF Base, IInv, TypeOK
<1>1. CASE Progress(d)
  <2>1. /\ run[d].pc \in Unsettled /\ run'[d].pc \in Unsettled /\ queue[d].state = "active"
        /\ UNCHANGED <<queue, dlq, op>> /\ \A x \in Deliveries \ {d} : run'[x] = run[x]
    BY <1>0, <1>1 DEF Progress, MovesTo, Unsettled
  <2>2. TicketState(d) = "open" /\ TicketState(d)' = "open"
    BY <2>1, TicketFacts, TicketFactsNext DEF Unsettled
  <2>3. UNCHANGED <<TicketStates, TicketJobs, Repeated, LetterStates, LetterJobs>>
    BY <2>1, <2>2, TicketStays, StallsStay, LettersStay
  <2>4. CASE jobStatus'[JobOf(d)] = jobStatus[JobOf(d)]
    <3>1. jobStatus' = jobStatus
      BY <1>1, <2>4 DEF Progress, Base, IInv, TypeOK
    <3> QED BY <2>3, <3>1 DEF Contract!contract, Contract!tickets, Contract!letters
  <2>5. CASE jobStatus'[JobOf(d)] # jobStatus[JobOf(d)]
    <3>1. JobOf(d) \in Jobs /\ jobStatus'[JobOf(d)] \in {"RUNNING", "RETRYING"}
          /\ \A j \in Jobs \ {JobOf(d)} : jobStatus'[j] = jobStatus[j]
      BY <1>0, <1>1, <2>1, <2>5 DEF Progress, Unsettled
    <3>2. Contract!Tells(d, jobStatus'[JobOf(d)])
      BY <2>1, <2>2, <3>1, Telling DEF JobStatuses
    <3>3. Contract!Work(d)
      BY <2>3, <3>1, <3>2 DEF Contract!Work
    <3> QED BY <3>3 DEF Contract!Next
  <2> QED BY <2>4, <2>5
<1>2. CASE Ends(d, "exhausted", "deadletter", "FAILED") \/ Ends(d, "finalize", "notify", "COMPLETED")
  <2>1. /\ run[d].pc \in {"exhausted", "finalize"} /\ queue[d].state = "active"
        /\ UNCHANGED <<queue, dlq, op>> /\ \A x \in Deliveries \ {d} : run'[x] = run[x]
        /\ \A j \in Jobs \ {JobOf(d)} : jobStatus'[j] = jobStatus[j]
    BY <1>0, <1>2 DEF Ends, MovesTo
  <2>2. TicketState(d) = "open" /\ JobOf(d) \in Jobs
    BY <1>0, <2>1, TicketFacts
  <2>3. CASE Ends(d, "exhausted", "deadletter", "FAILED")
    <3>1. run'[d].pc = "deadletter" /\ jobStatus'[JobOf(d)] = "FAILED"
      BY <2>3 DEF Ends, MovesTo
    <3>2. TicketStates' = [TicketStates EXCEPT ![d] = "owing"]
      BY <2>1, <3>1, TicketFactsNext, TicketTurns
    <3>3. Contract!GiveUp(d)
      BY <2>1, <2>2, <3>1, <3>2, Telling, TicketFacts DEF Contract!GiveUp, Contract!Turns, JobStatuses
    <3> QED BY <3>3 DEF Contract!Next
  <2>4. CASE Ends(d, "finalize", "notify", "COMPLETED")
    <3>1. run'[d].pc = "notify" /\ jobStatus'[JobOf(d)] = "COMPLETED"
      BY <2>4 DEF Ends, MovesTo
    <3>2. TicketStates' = [TicketStates EXCEPT ![d] = "ending"]
      BY <2>1, <3>1, TicketFactsNext, TicketTurns
    <3>3. Contract!Complete(d)
      BY <2>1, <2>2, <3>1, <3>2, Telling, TicketFacts DEF Contract!Complete, Contract!Turns, JobStatuses
    <3> QED BY <3>3 DEF Contract!Next
  <2> QED BY <1>2, <2>3, <2>4
<1>3. CASE MoveToDeadLetter(d)
  <2>1. PICK e \in DeadLetters :
          /\ dlq[e].state = "unused"
          /\ dlq' = [dlq EXCEPT ![e] = [state |-> "present", job |-> JobOf(d)]]
    BY <1>3 DEF MoveToDeadLetter, NextId
  <2>2. /\ run[d].pc = "deadletter" /\ run'[d].pc = "notify" /\ queue[d].state = "active"
        /\ UNCHANGED <<queue, jobStatus, op>> /\ \A x \in Deliveries \ {d} : run'[x] = run[x]
    BY <1>0, <1>3, GotoLocals DEF MoveToDeadLetter, At, Stays
  <2>3. TicketState(d) = "owing" /\ TicketStates' = [TicketStates EXCEPT ![d] = "ending"]
        /\ TicketJobs' = TicketJobs /\ Repeated' = Repeated
    BY <2>2, TicketFacts, TicketFactsNext, TicketTurns, StallsStay DEF At
  <2>4. ~Answered(e)
    BY <1>0, <2>1 DEF Answered, SlotsOK
  <2>5. LetterStates' = [LetterStates EXCEPT ![e] = "there"] /\ LetterStates[e] = "unwritten"
    <3>1. dlq'[e].state = "present" /\ \A x \in DeadLetters \ {e} : dlq'[x] = dlq[x]
      BY <1>0, <2>1 DEF TypeOK
    <3>2. \A x \in DeadLetters : Answered(x)' = Answered(x)
      BY <2>2 DEF Answered
    <3>3. LetterState(e) = "unwritten" /\ LetterState(e)' = "there"
      BY <2>1, <2>4, <3>1, <3>2 DEF LetterState
    <3>4. \A x \in DeadLetters \ {e} : LetterState(x)' = LetterState(x)
      BY <3>1, <3>2 DEF LetterState
    <3> QED BY <3>3, <3>4 DEF LetterStates
  <2>6. LetterJobs' = [LetterJobs EXCEPT ![e] = JobOf(d)]
    BY <1>0, <2>1 DEF LetterJobs, TypeOK
  <2>7. Contract!WriteLetter(d, e)
    BY <2>2, <2>3, <2>5, <2>6, TicketFacts DEF Contract!WriteLetter, Contract!Turns
  <2> QED BY <2>7 DEF Contract!Next
<1>4. CASE HandlerMissing(d) \/ RejectedCall(d) \/ Notify(d) \/ SkipCancelled(d)
  <2>1. PICK st \in {"completed", "failed"} : EndDelivery(d, st)
    BY <1>4 DEF HandlerMissing, RejectedCall, Notify, SkipCancelled
  <2>2. UNCHANGED <<jobStatus, dlq, op>>
    BY <1>4 DEF HandlerMissing, RejectedCall, Notify, SkipCancelled
  <2>3. /\ queue'[d].state = st /\ queue'[d].job = queue[d].job
        /\ \A x \in Deliveries \ {d} : run'[x] = run[x] /\ queue'[x] = queue[x]
        /\ \A x \in Deliveries : queue'[x].stalls = queue[x].stalls
    BY <1>0, <2>1 DEF EndDelivery, TypeOK, BullJobs
  <2>4. UNCHANGED <<TicketJobs, Repeated, LetterStates, LetterJobs>>
    BY <2>2, <2>3, StallsStay, LettersStay DEF TicketJobs
  <2>5. \/ st = "failed" /\ TicketState(d) \in {"open", "owing", "ending"}
        \/ st = "completed" /\ TicketState(d) = "ending"
        \/ st = "completed" /\ TicketState(d) = "open" /\ jobStatus[JobOf(d)] = "CANCELLED"
    <3>1. CASE HandlerMissing(d) \/ RejectedCall(d)
      <4>1. EndDelivery(d, "failed") /\ queue[d].state = "active"
        BY <1>0, <3>1 DEF HandlerMissing, RejectedCall, At
      <4>2. queue'[d].state = "failed"
        BY <1>0, <4>1 DEF EndDelivery, TypeOK, BullJobs
      <4> QED BY <2>3, <4>1, <4>2, TicketFacts DEF At
    <3>2. CASE Notify(d) \/ SkipCancelled(d)
      <4>1. EndDelivery(d, "completed")
        BY <3>2 DEF Notify, SkipCancelled
      <4>2. queue'[d].state = "completed"
        BY <1>0, <4>1 DEF EndDelivery, TypeOK, BullJobs
      <4>3. \/ TicketState(d) = "ending"
            \/ TicketState(d) = "open" /\ jobStatus[JobOf(d)] = "CANCELLED"
        BY <1>0, <3>2, TicketFacts DEF Notify, SkipCancelled, CanStart, At
      <4> QED BY <2>3, <4>2, <4>3
    <3> QED BY <1>4, <3>1, <3>2
  <2>6. TicketStates' = [TicketStates EXCEPT ![d] = IF st = "failed" THEN "kept" ELSE "closed"]
    BY <2>3, TicketFactsNext, TicketTurns
  <2>7. Contract!GiveBack(d)
    BY <2>2, <2>4, <2>5, <2>6, TicketFacts DEF Contract!GiveBack, Contract!Turns, Contract!letters
  <2> QED BY <2>7 DEF Contract!Next
<1>5. CASE LoadJob(d)
  <2>1. /\ queue[d].state = "waiting" /\ queue' = [queue EXCEPT ![d].state = "active"]
        /\ UNCHANGED <<jobStatus, dlq, op>>
    BY <1>5 DEF LoadJob, CanStart
  <2>2. /\ queue'[d].state = "active" /\ queue'[d].job = queue[d].job
        /\ \A x \in Deliveries : queue'[x].stalls = queue[x].stalls
        /\ \A x \in Deliveries \ {d} : queue'[x] = queue[x]
    BY <1>0, <2>1 DEF TypeOK, BullJobs
  <2>3. run'[d].pc = "loaded" /\ \A x \in Deliveries \ {d} : run'[x] = run[x]
    BY <1>0, <1>5, LoadsEffect DEF Loads, MovesTo
  <2>4. TicketState(d)' = TicketState(d)
    BY <2>1, <2>2, <2>3, TicketFacts, TicketFactsNext
  <2>5. UNCHANGED <<TicketStates, TicketJobs, Repeated, LetterStates, LetterJobs>>
    BY <2>1, <2>2, <2>3, <2>4, TicketStays, StallsStay, LettersStay
  <2> QED BY <2>1, <2>5 DEF Contract!contract, Contract!tickets, Contract!letters
<1>6. CASE StalledCheck(d)
  <2>1. queue[d].state = "active" /\ run[d].pc = "idle" /\ UNCHANGED <<run, jobStatus, dlq, op>>
    BY <1>6 DEF StalledCheck, At
  <2>2. TicketState(d) = "open"
    BY <2>1, TicketFacts
  <2>3. UNCHANGED <<LetterStates, LetterJobs>>
    BY <2>1, LettersStay
  <2>4. CASE queue' = [queue EXCEPT ![d].state = "failed"]
    <3>1. /\ queue'[d].state = "failed" /\ queue'[d].job = queue[d].job
          /\ \A x \in Deliveries : queue'[x].stalls = queue[x].stalls
          /\ \A x \in Deliveries \ {d} : queue'[x] = queue[x]
      BY <1>0, <2>4 DEF TypeOK, BullJobs
    <3>2. /\ TicketStates' = [TicketStates EXCEPT ![d] = "kept"]
          /\ UNCHANGED <<TicketJobs, Repeated>>
      BY <2>1, <3>1, TicketFactsNext, TicketTurns, StallsStay
    <3>3. Contract!GiveBack(d)
      BY <2>1, <2>2, <2>3, <3>2, TicketFacts DEF Contract!GiveBack, Contract!Turns, Contract!letters
    <3> QED BY <3>3 DEF Contract!Next
  <2>5. CASE queue' = [queue EXCEPT ![d].state = "waiting", ![d].stalls = @ + 1]
    <3>1. /\ queue'[d].state = "waiting" /\ queue'[d].job = queue[d].job
          /\ queue'[d].stalls = queue[d].stalls + 1 /\ queue[d].stalls \in Nat
          /\ \A x \in Deliveries \ {d} : queue'[x] = queue[x]
      BY <1>0, <2>5, EngineAssumption DEF TypeOK, BullJobs
    <3>2. UNCHANGED <<TicketStates, TicketJobs>>
      BY <2>1, <2>2, <3>1, TicketFactsNext, TicketStays
    <3>3. Repeated' = Repeated \union {d}
      BY <3>1 DEF Repeated
    <3>4. Contract!TakeUpAgain(d)
      BY <2>1, <2>2, <2>3, <3>2, <3>3, TicketFacts DEF Contract!TakeUpAgain, Contract!letters
    <3> QED BY <3>4 DEF Contract!Next
  <2> QED BY <1>6, <2>4, <2>5 DEF StalledCheck
<1> QED BY <1>0, <1>1, <1>2, <1>3, <1>4, <1>5, <1>6, ProceedsEffect, FailEffect, FinalizeEffect
  DEF Work, Fault, Attempt, Recovery, Lifecycle, Proceeds

\* A crash.
LEMMA CrashContract ==
  ASSUME Base, CrashWorker
  PROVE  Contract!Interrupt
<1>1. UNCHANGED <<queue, jobStatus, dlq, op>> /\ \A d \in Deliveries : run'[d].pc = "idle"
  BY DEF CrashWorker, rows, api, IdleRun
<1>2. UNCHANGED <<TicketJobs, Repeated, LetterStates, LetterJobs>>
  BY <1>1, StallsStay, LettersStay DEF TicketJobs
<1>3. ASSUME NEW d \in Deliveries
      PROVE  TicketState(d)' = IF TicketStates[d] \in {"owing", "ending"} THEN "open" ELSE TicketStates[d]
  <2>1. queue[d].state \in {"unused", "waiting", "active", "completed", "failed"}
    BY DEF Base, IInv, TypeOK, BullJobs
  <2>2. CASE queue[d].state = "active"
    <3>1. TicketState(d)' = "open"
      BY <1>1, <2>2, TicketFactsNext
    <3>2. CASE run[d].pc \in {"deadletter", "notify"}
      BY <2>2, <3>1, <3>2, TicketFacts DEF At
    <3>3. CASE run[d].pc \notin {"deadletter", "notify"}
      BY <2>2, <3>1, <3>3, TicketFacts
    <3> QED BY <3>2, <3>3
  <2>3. CASE queue[d].state # "active"
    <3>1. TicketState(d)' = TicketState(d) /\ TicketState(d) \notin {"owing", "ending"}
      BY <1>1, <2>1, <2>3 DEF TicketState
    <3> QED BY <3>1, TicketFacts
  <2> QED BY <2>2, <2>3
<1>4. TicketStates' = [d \in Deliveries |->
        IF TicketStates[d] \in {"owing", "ending"} THEN "open" ELSE TicketStates[d]]
  BY <1>3 DEF TicketStates
<1> QED BY <1>1, <1>2, <1>4 DEF Contract!Interrupt, Contract!letters

\* An add to the queue issues a ticket.
LEMMA AddIssues ==
  ASSUME Base, Born, NEW j, AddDelivery(j), UNCHANGED <<run, jobStatus>>
  PROVE  \E d \in Deliveries : Contract!Issues(d, j)
<1>1. PICK d \in Deliveries :
        /\ queue[d].state = "unused"
        /\ queue' = [queue EXCEPT ![d] = [state |-> "waiting", job |-> j, stalls |-> 0]]
  BY DEF AddDelivery, NextId
<1>2. /\ queue'[d] = [state |-> "waiting", job |-> j, stalls |-> 0]
      /\ \A x \in Deliveries \ {d} : queue'[x] = queue[x]
  BY <1>1 DEF Base, IInv, TypeOK
<1>3. queue[d].stalls = 0
  BY <1>1 DEF Born, Used, Unused
<1>4. Repeated' = Repeated
  BY <1>2, <1>3 DEF Repeated
<1>5. TicketState(d)' = "open" /\ TicketState(d) = "unissued"
  BY <1>1, <1>2, TicketFacts, TicketFactsNext
<1>6. \A x \in Deliveries \ {d} : TicketState(x)' = TicketState(x)
  BY <1>2 DEF TicketState, At
<1>7. TicketStates' = [TicketStates EXCEPT ![d] = "open"]
  BY <1>5, <1>6 DEF TicketStates
<1>8. TicketJobs' = [TicketJobs EXCEPT ![d] = j]
  <2>1. queue'[d].job = j
    BY <1>2
  <2> QED BY <1>2, <2>1 DEF TicketJobs
<1> QED BY <1>4, <1>5, <1>7, <1>8, TicketFacts DEF Contract!Issues, Contract!Turns

\* POST /jobs and a cancellation.
LEMMA ClientContract ==
  ASSUME Base, Born, \/ \E j \in Jobs : Submission(j)
                     \/ \E c \in Cancellers : Cancellation(c)
  PROVE  [Contract!Next]_(Contract!contract)
<1> USE DEF rows, api, faults
<1>1. ASSUME UNCHANGED <<queue, run, dlq, op>>
      PROVE  UNCHANGED <<TicketStates, TicketJobs, Repeated, LetterStates, LetterJobs>>
  BY <1>1, LettersStay DEF TicketStates, TicketState, TicketJobs, Repeated, At
<1>2. ASSUME NEW j \in Jobs, CreateJob(j) PROVE Contract!Submit(j)
  <2>1. UNCHANGED <<queue, run, dlq, op>> /\ SetJob(j, "PENDING") /\ jobStatus[j] = "NONE"
    BY <1>2 DEF CreateJob, Born
  <2> QED BY <1>1, <2>1 DEF Contract!Submit, Contract!Writes, SetJob, Contract!tickets, Contract!letters
<1>3. ASSUME NEW j \in Jobs, EnqueueWorkflow(j) PROVE \E d \in Deliveries : Contract!Issue(d, j)
  <2>1. submit[j] = "created" /\ AddDelivery(j) /\ UNCHANGED <<run, jobStatus, dlq, op>>
    BY <1>3 DEF EnqueueWorkflow
  <2>2. PICK d \in Deliveries : Contract!Issues(d, j)
    BY <2>1, AddIssues
  <2>3. ~\E x \in Deliveries : Contract!Issued(x, j)
    <3> SUFFICES ASSUME NEW x \in Deliveries, Contract!Issued(x, j) PROVE FALSE
      OBVIOUS
    <3>1. Used(x) /\ JobOf(x) = j
      BY TicketFacts DEF Contract!Issued, Used
    <3> QED BY <2>1, <3>1 DEF Base, Traced
  <2>4. jobStatus[j] # "NONE"
    BY <2>1 DEF Born
  <2> QED BY <2>1, <2>2, <2>3, <2>4, LettersStay DEF Contract!Issue, Contract!letters
<1>4. ASSUME NEW c \in Cancellers, CancelWrite(c) PROVE \E j \in Jobs : Contract!Cancel(j)
  <2>1. PICK j \in Jobs : j = cancel[c].job
    BY <1>4 DEF CancelWrite, Base, IInv, SlotsOK
  <2>2. UNCHANGED <<queue, run, dlq, op>> /\ SetJob(j, "CANCELLED") /\ jobStatus[j] # "NONE"
    BY <1>4, <2>1 DEF CancelWrite, Born
  <2> QED BY <1>1, <2>2 DEF Contract!Cancel, Contract!Writes, SetJob, Contract!tickets, Contract!letters
<1>5. ASSUME NEW j \in Jobs, EnqueueFails(j) PROVE UNCHANGED Contract!contract
  BY <1>1, <1>5 DEF EnqueueFails, Contract!contract, Contract!tickets, Contract!letters
<1>6. ASSUME NEW c \in Cancellers, CancelRead(c) PROVE UNCHANGED Contract!contract
  BY <1>1, <1>6 DEF CancelRead, Contract!contract, Contract!tickets, Contract!letters
<1> QED BY <1>2, <1>3, <1>4, <1>5, <1>6 DEF Submission, Cancellation, Contract!Next

\* An operator's retry.
LEMMA RetryContract ==
  ASSUME Base, Born, NEW o \in Operators, Retry(o)
  PROVE  [Contract!Next]_(Contract!contract)
<1> USE DEF rows, api, faults
<1>0. /\ op \in [Operators -> Retries] /\ dlq \in [DeadLetters -> Entries]
      /\ op[o].pc # "idle" => op[o].entry \in DeadLetters /\ dlq[op[o].entry].state # "unused"
                              /\ dlq[op[o].entry].job \in Jobs
  BY DEF Base, IInv, TypeOK, SlotsOK
<1>1. ASSUME UNCHANGED <<queue, run>> PROVE UNCHANGED <<TicketStates, TicketJobs, Repeated>>
  BY <1>1 DEF TicketStates, TicketState, TicketJobs, Repeated, At
<1>2. CASE RetryFind(o) \/ RetryFetch(o)
  <2>1. /\ UNCHANGED <<queue, run, dlq, jobStatus>> /\ op[o].pc \in {"idle", "found"}
        /\ op'[o].pc # "added" /\ \A p \in Operators \ {o} : op'[p] = op[p]
    BY <1>0, <1>2 DEF RetryFind, RetryFetch, IdleOp, Retries
  <2>2. \A e \in DeadLetters : Answered(e)' = Answered(e)
    BY <2>1 DEF Answered
  <2>3. UNCHANGED <<LetterStates, LetterJobs>>
    BY <2>1, <2>2 DEF LetterStates, LetterState, LetterJobs
  <2> QED BY <1>1, <2>1, <2>3 DEF Contract!contract, Contract!tickets, Contract!letters
<1>3. CASE RetryAdd(o)
  <2>1. PICK e \in DeadLetters : e = op[o].entry /\ dlq[e].state # "unused"
    BY <1>0, <1>3 DEF RetryAdd
  <2>2. /\ AddDelivery(dlq[e].job) /\ UNCHANGED <<run, dlq, jobStatus>> /\ op[o].pc = "fetched"
        /\ op'[o].pc = "added" /\ op'[o].entry = e /\ \A p \in Operators \ {o} : op'[p] = op[p]
    BY <1>0, <1>3, <2>1 DEF RetryAdd, Retries
  <2>3. PICK d \in Deliveries : Contract!Issues(d, dlq[e].job)
    BY <2>2, AddIssues
  <2>4. Answered(e)' /\ \A x \in DeadLetters \ {e} : Answered(x)' = Answered(x)
    BY <2>1, <2>2 DEF Answered
  <2>5. /\ LetterState(e)' = IF LetterState(e) = "there" THEN "answered" ELSE LetterState(e)
        /\ LetterState(e) # "unwritten"
        /\ \A x \in DeadLetters \ {e} : LetterState(x)' = LetterState(x)
    <3>1. dlq[e].state \in {"present", "removed"}
      BY <1>0, <2>1 DEF Entries
    <3>2. ASSUME dlq[e].state = "removed" PROVE LetterState(e) = "gone" /\ LetterState(e)' = "gone"
      BY <2>2, <3>2 DEF LetterState
    <3>3. ASSUME dlq[e].state = "present"
          PROVE  LetterState(e) \in {"there", "answered"} /\ LetterState(e)' = "answered"
      BY <2>2, <2>4, <3>3 DEF LetterState
    <3>4. \A x \in DeadLetters \ {e} : LetterState(x)' = LetterState(x)
      BY <2>2, <2>4 DEF LetterState
    <3> QED BY <3>1, <3>2, <3>3, <3>4
  <2>6. /\ LetterStates' = [LetterStates EXCEPT ![e] = IF @ = "there" THEN "answered" ELSE @]
        /\ LetterStates[e] # "unwritten"
    BY <2>5 DEF LetterStates
  <2>7. LetterJobs' = LetterJobs /\ LetterJobs[e] = dlq[e].job
    BY <2>2 DEF LetterJobs
  <2>8. Contract!Reissue(d, e)
    BY <2>2, <2>3, <2>6, <2>7 DEF Contract!Reissue
  <2> QED BY <2>8 DEF Contract!Next
<1>4. CASE RetryRemove(o)
  <2>1. PICK e \in DeadLetters : e = op[o].entry /\ dlq[e].state # "unused"
    BY <1>0, <1>4 DEF RetryRemove
  <2>2. /\ dlq' = [dlq EXCEPT ![e].state = "removed"] /\ UNCHANGED <<queue, run, jobStatus>>
        /\ op[o].pc = "added" /\ op'[o].pc = "removed" /\ \A p \in Operators \ {o} : op'[p] = op[p]
    BY <1>0, <1>4, <2>1 DEF RetryRemove, Retries
  <2>3. /\ dlq'[e].state = "removed" /\ dlq'[e].job = dlq[e].job
        /\ \A x \in DeadLetters \ {e} : dlq'[x] = dlq[x]
    BY <1>0, <2>2 DEF Entries
  <2>4. Answered(e) /\ \A x \in DeadLetters \ {e} : Answered(x)' = Answered(x)
    BY <2>1, <2>2 DEF Answered
  <2>5. LetterState(e)' = "gone" /\ LetterState(e) \in {"answered", "gone"}
    BY <1>0, <2>1, <2>3, <2>4 DEF LetterState
  <2>6. \A x \in DeadLetters \ {e} : LetterState(x)' = LetterState(x)
    BY <2>3, <2>4 DEF LetterState
  <2>7. LetterStates' = [LetterStates EXCEPT ![e] = "gone"] /\ LetterStates[e] \in {"answered", "gone"}
    BY <2>5, <2>6 DEF LetterStates
  <2>8. LetterJobs' = LetterJobs
    BY <2>3 DEF LetterJobs
  <2>9. CASE LetterStates[e] = "answered"
    <3>1. Contract!Settle(e, "gone")
      BY <1>1, <2>2, <2>7, <2>8, <2>9 DEF Contract!Settle, Contract!tickets
    <3> QED BY <3>1 DEF Contract!Next
  <2>10. CASE LetterStates[e] = "gone"
    <3>1. LetterStates' = LetterStates
      BY <2>7, <2>10 DEF LetterStates
    <3> QED BY <1>1, <2>2, <2>8, <3>1 DEF Contract!contract, Contract!tickets, Contract!letters
  <2> QED BY <2>7, <2>9, <2>10
<1>5. CASE RetryReset(o)
  <2>1. PICK j \in Jobs : j = dlq[op[o].entry].job
    BY <1>0, <1>5 DEF RetryReset
  <2>2. /\ UNCHANGED <<queue, run, dlq>> /\ SetJob(j, "PENDING") /\ op[o].pc = "removed"
        /\ op'[o].pc = "idle" /\ \A p \in Operators \ {o} : op'[p] = op[p]
    BY <1>0, <1>5, <2>1 DEF RetryReset, IdleOp
  <2>3. Contract!Twice(j)
    BY <2>1, <2>2, ComesAgain DEF Base, Traced
  <2>4. \A e \in DeadLetters : Answered(e)' = Answered(e)
    BY <2>2 DEF Answered
  <2>5. UNCHANGED <<LetterStates, LetterJobs>>
    BY <2>2, <2>4 DEF LetterStates, LetterState, LetterJobs
  <2>6. Contract!Reset(j)
    BY <1>1, <2>2, <2>3, <2>5 DEF Contract!Reset, Contract!Writes, SetJob, Contract!tickets, Contract!letters
  <2> QED BY <2>6 DEF Contract!Next
<1>6. CASE RetryAborts(o)
  <2>1. PICK e \in DeadLetters : e = op[o].entry /\ dlq[e].state # "unused"
    BY <1>0, <1>6 DEF RetryAborts
  <2>2. /\ UNCHANGED <<queue, run, dlq, jobStatus>>
        /\ op'[o].pc = "idle" /\ \A p \in Operators \ {o} : op'[p] = op[p]
    BY <1>0, <1>6 DEF RetryAborts, IdleOp
  <2>3. \A x \in DeadLetters \ {e} : Answered(x)' = Answered(x)
    BY <2>1, <2>2 DEF Answered
  <2>4. \A x \in DeadLetters \ {e} : LetterState(x)' = LetterState(x)
    BY <2>2, <2>3 DEF LetterState
  <2>5. LetterJobs' = LetterJobs
    BY <2>2 DEF LetterJobs
  <2>6. CASE LetterState(e)' = LetterState(e)
    <3>1. LetterStates' = LetterStates
      BY <2>4, <2>6 DEF LetterStates
    <3> QED BY <1>1, <2>2, <2>5, <3>1 DEF Contract!contract, Contract!tickets, Contract!letters
  <2>7. CASE LetterState(e)' # LetterState(e)
    <3>1. Answered(e)' => Answered(e)
      BY <2>2 DEF Answered
    <3>2. LetterState(e) = "answered" /\ LetterState(e)' = "there"
      BY <2>2, <2>7, <3>1 DEF LetterState
    <3>3. LetterStates' = [LetterStates EXCEPT ![e] = "there"] /\ LetterStates[e] = "answered"
      BY <2>4, <3>2 DEF LetterStates
    <3>4. Contract!Settle(e, "there")
      BY <1>1, <2>2, <2>5, <3>3 DEF Contract!Settle, Contract!tickets
    <3> QED BY <3>4 DEF Contract!Next
  <2> QED BY <2>6, <2>7
<1> QED BY <1>2, <1>3, <1>4, <1>5, <1>6 DEF Retry

\* Seen from outside, the engine is the contract's tickets and letters: for every
\* workflow, and whatever crashes, rejected calls, cancellations and operators do
\* in whatever order, no step does more to a job than JobContract allows (worker
\* 98-205, queue.service 53-90, dead-letter.service 36-55, jobs.service 53-99).
THEOREM EngineKeepsTheContract == Spec => ImplementsJobContract
<1>1. Init => Born /\ Contract!Init
  <2> SUFFICES ASSUME Init PROVE Born /\ Contract!Init
    OBVIOUS
  <2>1. Born
    BY DEF Init, Born, Used, Unused
  <2>2. TicketStates = [d \in Deliveries |-> "unissued"] /\ TicketJobs = [d \in Deliveries |-> NoJob]
    BY DEF Init, TicketStates, TicketState, TicketJobs, Unused
  <2>3. Repeated = {}
    BY DEF Init, Repeated, Unused
  <2>4. LetterStates = [e \in DeadLetters |-> "unwritten"] /\ LetterJobs = [e \in DeadLetters |-> NoJob]
    BY DEF Init, LetterStates, LetterState, LetterJobs, NoEntry
  <2> QED BY <2>1, <2>2, <2>3, <2>4 DEF Init, Contract!Init
<1>2. Base /\ Base' /\ Born /\ [Next]_vars => Born'
  BY BornStep
<1>3. Base /\ Base' /\ Born /\ [Next]_vars /\ [EndStands]_vars => [Contract!Next]_(Contract!contract)
  <2> SUFFICES ASSUME Base, Base', Born, [Next]_vars, [EndStands]_vars
               PROVE  [Contract!Next]_(Contract!contract)
    OBVIOUS
  <2>1. CASE UNCHANGED vars
    BY <2>1 DEF vars, rows, api, Contract!contract, Contract!tickets, Contract!letters, TicketStates,
      TicketState, TicketJobs, Repeated, LetterStates, LetterState, Answered, LetterJobs, At
  <2>2. CASE Next /\ EndStands
    <3>1. CASE CrashWorker
      BY <3>1, CrashContract DEF Contract!Next
    <3> QED BY <2>2, <3>1, WorkerContract, ClientContract, RetryContract DEF Next
  <2> QED BY <2>1, <2>2
<1>4. TerminalStable <=> [][EndStands]_vars
  BY DEF TerminalStable, EndStands
<1> QED BY <1>1, <1>2, <1>3, <1>4, BaseHolds, EndIsFinal, PTL DEF Spec, ImplementsJobContract, Contract!Spec

\* The two promises that follow from the contract are kept by each of its steps.
LEMMA PromisesStep ==
  ASSUME TypeOK, [Contract!Next]_(Contract!contract), Contract!Held, Contract!Recoverable
  PROVE  Contract!Held' /\ Contract!Recoverable'
<1> DEFINE Promised == Contract!Held' /\ Contract!Recoverable'
<1>0. /\ DOMAIN jobStatus = Jobs /\ DOMAIN TicketStates = Deliveries /\ DOMAIN TicketJobs = Deliveries
      /\ DOMAIN LetterStates = DeadLetters /\ DOMAIN LetterJobs = DeadLetters
  BY DEF TypeOK, TicketStates, TicketJobs, LetterStates, LetterJobs
<1> USE DEF Contract!Held, Contract!Recoverable, Contract!tickets, Contract!letters
<1>1. ASSUME NEW d \in Deliveries, NEW st, Contract!Tells(d, st), st \in {"RUNNING", "RETRYING"},
             UNCHANGED TicketStates
      PROVE  Promised
  BY <1>0, <1>1 DEF Contract!Tells, Contract!Writes
<1>2. ASSUME NEW d \in Deliveries, Contract!Complete(d) \/ Contract!GiveUp(d) PROVE Promised
  BY <1>0, <1>2 DEF Contract!Complete, Contract!GiveUp, Contract!Tells, Contract!Writes, Contract!Turns
<1>3. ASSUME NEW d \in Deliveries, Contract!GiveBack(d) PROVE Promised
  BY <1>0, <1>3 DEF Contract!GiveBack, Contract!Turns
<1>4. ASSUME NEW d \in Deliveries, Contract!TakeUpAgain(d) PROVE Promised
  BY <1>4 DEF Contract!TakeUpAgain
<1>5. ASSUME NEW d \in Deliveries, NEW e \in DeadLetters, Contract!WriteLetter(d, e) PROVE Promised
  BY <1>0, <1>5 DEF Contract!WriteLetter, Contract!Turns
<1>6. ASSUME NEW d \in Deliveries, NEW e \in DeadLetters, Contract!Reissue(d, e) PROVE Promised
  BY <1>0, <1>6 DEF Contract!Reissue, Contract!Issues, Contract!Turns
<1>7. ASSUME NEW d \in Deliveries, NEW j \in Jobs, Contract!Issue(d, j) PROVE Promised
  BY <1>0, <1>7 DEF Contract!Issue, Contract!Issues, Contract!Turns
<1>8. ASSUME NEW j \in Jobs, Contract!Submit(j) \/ Contract!Cancel(j) \/ Contract!Reset(j) PROVE Promised
  BY <1>0, <1>8 DEF Contract!Submit, Contract!Cancel, Contract!Reset, Contract!Writes
<1>9. ASSUME NEW e \in DeadLetters, NEW to, Contract!Settle(e, to) PROVE Promised
  BY <1>0, <1>9 DEF Contract!Settle
<1>10. CASE Contract!Interrupt
  BY <1>0, <1>10 DEF Contract!Interrupt
<1>11. CASE UNCHANGED Contract!contract
  BY <1>11 DEF Contract!contract
<1> QED BY <1>1, <1>2, <1>3, <1>4, <1>5, <1>6, <1>7, <1>8, <1>9, <1>10, <1>11
  DEF Contract!Next, Contract!Work

\* So the engine keeps its two promises to a client: a job in progress has a
\* delivery that was not given back, and a job given up has a dead-letter entry
\* nobody has answered, or a delivery that is open or failed: whatever crashes,
\* rejected calls and retries happen, it can be found again (worker 126-205,
\* dead-letter.service 36-55).
THEOREM EngineKeepsItsPromises == Spec => [](Contract!Held /\ Contract!Recoverable)
<1>1. Init => Contract!Held /\ Contract!Recoverable
  BY DEF Init, Contract!Held, Contract!Recoverable
<1>2. Base => TypeOK
  BY DEF Base, IInv
<1>3. TypeOK /\ [Contract!Next]_(Contract!contract) /\ Contract!Held /\ Contract!Recoverable
        => Contract!Held' /\ Contract!Recoverable'
  BY PromisesStep
<1> QED BY <1>1, <1>2, <1>3, BaseHolds, EngineKeepsTheContract, PTL
  DEF Spec, ImplementsJobContract, Contract!Spec
=============================================================================
