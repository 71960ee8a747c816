------------------------ MODULE WorkflowEngineProps ------------------------
(***************************************************************************)
(* What the job engine must guarantee.                                     *)
(***************************************************************************)
EXTENDS WorkflowEngine

\* A delivery that still answers for job j: it waits, it is kept in BullMQ's
\* failed set, or it is active and has not written the job's end (an active
\* delivery with pc "idle" was orphaned by a crash).
CarriesFrom(d, j, pcs) ==
  /\ queue[d].job = j
  /\ \/ queue[d].state \in {"waiting", "failed"}
     \/ queue[d].state = "active" /\ run[d].pc \in pcs

Carries(d, j) == CarriesFrom(d, j, Unsettled \union {"idle"})

\* BullMQ keeps a delivery in its failed set, where nobody looks, only for one of
\* the three reasons the code leaves to it: an awaited call rejected, the worker
\* died more often than BullMQ forgives, or a step's type has no handler.
Excused(d) ==
  queue[d].state = "failed" =>
    \/ rejections > 0
    \/ crashes > MaxStalledCount
    \/ \E s \in Steps : ~workflow[JobOf(d)][s].registered

\* A job shown as RUNNING or RETRYING always has a delivery that answers for
\* it, and it is not the failed set without one of the faults above: whatever
\* cancellations, crashes, rejected calls, concurrent operators and second
\* deliveries do, none of them leaves a job in progress that nobody works on and
\* no queue remembers (worker 98-205, 212-213, 408-419, 441).
RunningHasCarrier ==
  \A j \in Jobs : jobStatus[j] \in {"RUNNING", "RETRYING"} =>
    \E d \in Deliveries : Carries(d, j) /\ Excused(d)

\* A dead-letter entry of j that no operator is about to remove.
Reviewable(e, j) ==
  /\ dlq[e].state = "present" /\ dlq[e].job = j
  /\ \A o \in Operators : op[o].pc = "added" => op[o].entry # e

\* A FAILED job can be found again: it is in the dead-letter queue, or on its
\* way there, or on its way to another try, or, after one of the faults above,
\* its delivery is in the failed set -- also while two operators retry the same
\* entry, one of them dies half way, or the worker dies between its two writes
\* (worker 167-177, README 32).  Redis is assumed to keep the entries it has.
FailedJobIsRecoverable ==
  \A j \in Jobs : jobStatus[j] = "FAILED" =>
    \/ \E e \in DeadLetters : Reviewable(e, j)
    \/ \E d \in Deliveries :
         CarriesFrom(d, j, Unsettled \union {"idle", "deadletter"}) /\ Excused(d)

\* A job that was submitted and has not ended, and that no delivery carries.
Stranded(j) ==
  /\ jobStatus[j] \in {"PENDING", "RUNNING", "RETRYING"}
  /\ submit[j] \notin {"created", "failed"}
  /\ ~\E d \in Deliveries : Carries(d, j)

\* A job whose row exists and that has not ended is carried by a delivery, or
\* its submission has yet to reach the queue or has failed to: an operator's
\* "Job re-queued for processing" (dead-letter.service 44-55) is not followed
\* by a PENDING job that no delivery will ever pick up.
NoStrandedJob == \A j \in Jobs : ~Stranded(j)

\* Some client's cancellation of j has been written.
Cancelled(j) == \E c \in Cancellers : cancel[c].pc = "done" /\ cancel[c].job = j

\* A job that nobody cancelled is COMPLETED only when every one of its steps
\* was completed, skipped or compensated, and a critical one is skipped only
\* because its policy says SKIP: no crash, redelivery, order of the steps or
\* recovery lets runSteps reach finalize past an open step (worker 131-205,
\* 436-452, recovery 246-252).
CompletedMeansSettled ==
  \A j \in Jobs : jobStatus[j] = "COMPLETED" /\ ~Cancelled(j) =>
    \A s \in Steps :
      /\ stepStatus[j][s] \in SettledStep
      /\ stepStatus[j][s] = "SKIPPED" /\ workflow[j][s].critical =>
           workflow[j][s].policy.strategy = "SKIP"

\* The webhook, whose payload reads the status once more, tells of a job that has
\* ended, whatever was cancelled meanwhile; only when another delivery of the
\* job was retried into being may it show one that is under way (worker 114-124,
\* 454-474).
NotifiesTheEnd ==
  \A d \in Deliveries : At(d, "notify") =>
    \/ jobStatus[JobOf(d)] \in Terminal
    \/ \E e \in Deliveries \ {d} : queue[e].job = JobOf(d)

\* A FAILED job names its culprit: a critical step is FAILED, also when the
\* job was delivered again after a crash, and a compensation came between
\* (worker 164-177).
FailedHasCulprit ==
  \A j \in Jobs : jobStatus[j] = "FAILED" =>
    \E s \in Steps : stepStatus[j][s] = "FAILED" /\ workflow[j][s].critical

\* When a compensation is over, nothing but the step that failed is left as it
\* was: every step that had been COMPLETED is COMPENSATED before the job goes
\* on, although the steps are read once and written one by one
\* (recovery.service 254-278).
CompensationIsComplete ==
  \A d \in Deliveries :
    At(d, "resolved") /\ "compensated" \in Outcomes(d) =>
      \A s \in Steps \ {StepOf(d)} : stepStatus[JobOf(d)][s] # "COMPLETED"

-----------------------------------------------------------------------------
(* Action properties *)

\* BullMQ has delivered the job again after a crash.
Redelivered(j) == \E d \in Deliveries : queue[d].job = j /\ queue[d].stalls > 0

\* An operator has made a second delivery of the job.
Requeued(j) == \E d, e \in Deliveries : d # e /\ queue[d].job = j /\ queue[e].job = j

\* Work that was done is done again only after a crash or when an operator has
\* re-queued the job: no retry, recovery or cancellation of a job that was
\* delivered once starts a settled step a second time (worker 131-190).
SettledStepsRerunOnlyAfterCrash ==
  [][ \A j \in Jobs, s \in Steps :
        /\ stepStatus[j][s] \in SettledStep
        /\ stepStatus'[j][s] = "RUNNING"
        => Redelivered(j) \/ Requeued(j) ]_vars

\* A COMPLETED or FAILED job stays so, unless a cancellation that was checked
\* before overtakes it, a crash has the job delivered again or an operator has
\* re-queued it; what operators do to one job never moves another (worker
\* 164-190, 436-452; jobs.service 94-99; dead-letter.service 36-55).
TerminalStable ==
  [][ \A j \in Jobs :
        jobStatus[j] \in {"COMPLETED", "FAILED"} /\ jobStatus'[j] # jobStatus[j] =>
          jobStatus'[j] = "CANCELLED" \/ Redelivered(j) \/ Requeued(j) ]_vars

-----------------------------------------------------------------------------
(* The engine implements JobContract *)

\* A delivery is a ticket; an active one is open until the job's end is written.
TicketState(d) ==
  CASE queue[d].state = "unused"    -> "unissued"
    [] queue[d].state = "completed" -> "closed"
    [] queue[d].state = "failed"    -> "kept"
    [] queue[d].state = "active" /\ At(d, "deadletter") -> "owing"
    [] queue[d].state = "active" /\ At(d, "notify")     -> "ending"
    [] OTHER -> "open"

\* A dead-letter entry is a letter; an operator has answered it who has added the
\* delivery and is about to remove the entry.
Answered(e) == \E o \in Operators : op[o].pc = "added" /\ op[o].entry = e

LetterState(e) ==
  CASE dlq[e].state = "unused"  -> "unwritten"
    [] dlq[e].state = "removed" -> "gone"
    [] OTHER -> IF Answered(e) THEN "answered" ELSE "there"

TicketStates == [d \in Deliveries |-> TicketState(d)]
TicketJobs   == [d \in Deliveries |-> queue[d].job]
Repeated     == {d \in Deliveries : queue[d].stalls > 0}
LetterStates == [e \in DeadLetters |-> LetterState(e)]
LetterJobs   == [e \in DeadLetters |-> dlq[e].job]

Contract == INSTANCE JobContract WITH
  Tickets <- Deliveries, Letters <- DeadLetters, status <- jobStatus,
  ticket <- TicketStates, job <- TicketJobs, repeated <- Repeated,
  letter <- LetterStates, subject <- LetterJobs

\* Whatever the worker, BullMQ, clients, operators, crashes and rejected calls do,
\* seen from outside it is what a job's tickets and letters allow (worker 98-205,
\* queue.service 53-90, dead-letter.service 36-55, jobs.service 53-99).
ImplementsJobContract == Contract!Spec

-----------------------------------------------------------------------------
(* Liveness, under FairSpec *)

\* Whatever crashes, rejected calls, cancellations and other jobs do, the
\* worker gets every delivery off its hands (worker 98-124).
EveryDeliveryEnds ==
  \A d \in Deliveries :
    queue[d].state \in {"waiting", "active"} ~> queue[d].state \in {"completed", "failed"}

\* A submitted job comes to rest: for good, it is in a terminal status, or the
\* submission has failed, or its delivery is in the failed set (worker
\* 98-205, jobs.service 53-77).
SubmittedJobSettles ==
  \A j \in Jobs :
    submit[j] = "created" ~>
      [](\/ jobStatus[j] \in Terminal
         \/ submit[j] = "failed"
         \/ \E d \in Deliveries : queue[d].job = j /\ queue[d].state = "failed")

-----------------------------------------------------------------------------
(* What the comments and the README say, and the code does not do *)

\* "it polls Job.status between steps to honour cancellation requests issued
\* via the API" (worker 47-48): a job whose cancellation was answered with
\* success does not end COMPLETED.
CancelledIsHonoured ==
  \A j \in Jobs : Cancelled(j) => jobStatus[j] # "COMPLETED"
=============================================================================
