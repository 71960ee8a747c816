----------------------- MODULE WorkflowEngineProofs -----------------------
(***************************************************************************)
(* Proofs about the job engine for every number of jobs, steps, workflows, *)
(* deliveries, operators, clients, crashes and rejected calls.             *)
(*                                                                         *)
(* The argument: type correctness and the consistency of the slots         *)
(* (SlotsOK) are inductive together.  Seen from the two safety invariants, *)
(* the worker's actions fall into a few kinds of effect (Progress, and one *)
(* kind for each write that ends a job or a delivery); each action is      *)
(* shown once to have its effect, and the invariants are then proved from  *)
(* the effects alone.                                                      *)
(***************************************************************************)
EXTENDS WorkflowEngineProps, TLAPS

\* A running delivery is active in BullMQ; slots in use belong to a job; a
\* request in flight refers to something that exists.
SlotsOK ==
  /\ \A d \in Deliveries : run[d].pc # "idle" => queue[d].state = "active"
  /\ \A d \in Deliveries : queue[d].state # "unused" => queue[d].job \in Jobs
  /\ \A e \in DeadLetters : dlq[e].state # "unused" => dlq[e].job \in Jobs
  /\ \A o \in Operators : op[o].pc # "idle" =>
       op[o].entry \in DeadLetters /\ dlq[op[o].entry].state # "unused"
  /\ \A c \in Cancellers : cancel[c].pc # "idle" => cancel[c].job \in Jobs

IInv == TypeOK /\ SlotsOK

-----------------------------------------------------------------------------
(* Effects *)

\* Only the locals of delivery d change, and its next pc is one of pcs.
MovesTo(d, pcs) ==
  /\ run' \in [Deliveries -> Locals]
  /\ run'[d].pc \in pcs
  /\ \A x \in Deliveries \ {d} : run'[x] = run[x]

\* Only the Bull job of delivery d changes: its state becomes st.
BecomesState(d, st) ==
  /\ queue' \in [Deliveries -> BullJobs]
  /\ queue'[d].state = st
  /\ queue'[d].job = queue[d].job
  /\ \A x \in Deliveries \ {d} : queue'[x] = queue[x]

\* A delivery of job j appears in an unused slot.
Appears(j) ==
  /\ queue' \in [Deliveries -> BullJobs]
  /\ \E d \in Deliveries :
       /\ queue[d].state = "unused"
       /\ queue'[d].state = "waiting" /\ queue'[d].job = j
       /\ \A x \in Deliveries \ {d} : queue'[x] = queue[x]

\* The worker goes on with a delivery before its job's end is written.
Progress(d) ==
  /\ run[d].pc \in Unsettled
  /\ MovesTo(d, Unsettled)
  /\ UNCHANGED <<queue, dlq, op, cancel>>
  /\ \A j \in Jobs :
       jobStatus'[j] # jobStatus[j] => j = JobOf(d) /\ jobStatus'[j] \in {"RUNNING", "RETRYING"}

\* The end of job JobOf(d) is written.
Ends(d, from, to, status) ==
  /\ run[d].pc = from
  /\ MovesTo(d, {to})
  /\ UNCHANGED <<queue, dlq, op, cancel>>
  /\ jobStatus'[JobOf(d)] = status
  /\ \A j \in Jobs \ {JobOf(d)} : jobStatus'[j] = jobStatus[j]

DeadLettered(d) ==
  /\ run[d].pc = "deadletter"
  /\ MovesTo(d, {"notify"})
  /\ UNCHANGED <<queue, jobStatus, op, cancel>>
  /\ \E e \in DeadLetters :
       /\ dlq[e].state = "unused"
       /\ dlq'[e].state = "present" /\ dlq'[e].job = JobOf(d)
       /\ \A x \in DeadLetters \ {e} : dlq'[x] = dlq[x]

\* A delivery is over: by an error, after the last notification, or unstarted
\* because its job was cancelled.
Closes(d) ==
  /\ MovesTo(d, {"idle"})
  /\ UNCHANGED <<jobStatus, dlq, op, cancel>>
  /\ \/ BecomesState(d, "failed") /\ run[d].pc # "idle"
     \/ BecomesState(d, "completed") /\ run[d].pc = "notify"
     \/ BecomesState(d, "completed") /\ queue[d].state = "waiting" /\ jobStatus[JobOf(d)] = "CANCELLED"

Loads(d) ==
  /\ queue[d].state = "waiting"
  /\ MovesTo(d, {"loaded"})
  /\ BecomesState(d, "active")
  /\ UNCHANGED <<jobStatus, dlq, op, cancel>>

Stalls(d) ==
  /\ queue[d].state = "active" /\ run[d].pc = "idle"
  /\ BecomesState(d, "waiting") \/ BecomesState(d, "failed")
  /\ UNCHANGED <<run, jobStatus, dlq, op, cancel>>

Crashes ==
  /\ \A d \in Deliveries : run'[d].pc = "idle"
  /\ UNCHANGED <<queue, jobStatus, dlq, op, cancel>>

Submits(j) ==
  /\ UNCHANGED <<run, dlq, op, cancel>>
  /\ Appears(j) \/ UNCHANGED queue
  /\ \A i \in Jobs : jobStatus'[i] # jobStatus[i] => jobStatus'[i] = "PENDING"

CancelMoves ==
  /\ UNCHANGED <<queue, run, dlq, op>>
  /\ \A i \in Jobs : jobStatus'[i] # jobStatus[i] => jobStatus'[i] = "CANCELLED"
  /\ \A x \in Cancellers : cancel'[x].pc # "idle" => cancel'[x].job \in Jobs

\* An operator's request reads, gives up or resets the status ...
RetryReads(o) ==
  /\ UNCHANGED <<queue, run, dlq, cancel>>
  /\ \A i \in Jobs : jobStatus'[i] # jobStatus[i] => jobStatus'[i] = "PENDING"
  /\ op'[o].pc # "added"
  /\ op'[o].pc # "idle" => op'[o].entry \in DeadLetters /\ dlq[op'[o].entry].state # "unused"
  /\ \A x \in Operators \ {o} : op'[x] = op[x]

\* ... adds a delivery of the entry's job ...
RetryAdds(o) ==
  /\ op[o].pc = "fetched"
  /\ Appears(dlq[op[o].entry].job)
  /\ UNCHANGED <<run, jobStatus, dlq, cancel>>
  /\ op'[o].pc = "added" /\ op'[o].entry = op[o].entry
  /\ \A x \in Operators \ {o} : op'[x] = op[x]

\* ... and removes the entry.
RetryRemoves(o) ==
  /\ op[o].pc = "added"
  /\ UNCHANGED <<queue, run, jobStatus, cancel>>
  /\ dlq'[op[o].entry].state = "removed" /\ dlq'[op[o].entry].job = dlq[op[o].entry].job
  /\ \A e \in DeadLetters \ {op[o].entry} : dlq'[e] = dlq[e]
  /\ op'[o].pc = "removed" /\ op'[o].entry = op[o].entry
  /\ \A x \in Operators \ {o} : op'[x] = op[x]

-----------------------------------------------------------------------------
(* The types the helpers preserve, and the effects they have *)

\* The locals of a delivery that no process runs.
LEMMA IdleRunType == IdleRun \in Locals /\ IdleRun.pc = "idle"
<1>1. 1 \in 1..(MaxRetriesAllowed + 1)
  BY DEF MaxRetriesAllowed
<1>2. QED
  BY <1>1, EngineAssumption DEF IdleRun, Locals, RunPcs, StepOrders, Steps

\* Moving a delivery on to another pc.
LEMMA GotoEffect ==
  ASSUME TypeOK, NEW d \in Deliveries, NEW pc \in RunPcs, Goto(d, pc)
  PROVE  MovesTo(d, {pc})
<1>1. run[d] \in Locals /\ [run[d] EXCEPT !.pc = pc] \in Locals
  BY DEF TypeOK, Locals
<1>2. QED
  BY <1>1 DEF TypeOK, Goto, MovesTo, Locals

\* A delivery that ends gives up its locals.
LEMMA EndEffect ==
  ASSUME TypeOK, NEW d \in Deliveries, NEW st \in {"completed", "failed"}, EndDelivery(d, st)
  PROVE  MovesTo(d, {"idle"}) /\ BecomesState(d, st)
<1>1. queue[d] \in BullJobs /\ [queue[d] EXCEPT !.state = st] \in BullJobs
  BY DEF TypeOK, BullJobs
<1>2. queue' = [queue EXCEPT ![d] = [queue[d] EXCEPT !.state = st]]
  BY DEF EndDelivery
<1>3. BecomesState(d, st)
  BY <1>1, <1>2 DEF TypeOK, BecomesState, BullJobs
<1>4. MovesTo(d, {"idle"})
  BY IdleRunType DEF TypeOK, EndDelivery, MovesTo
<1>5. QED
  BY <1>3, <1>4

\* A running delivery belongs to a job, is at one of its steps, and has an
\* attempt left unless it is at the last.
LEMMA SlotFacts ==
  ASSUME TypeOK, SlotsOK, NEW d \in Deliveries, run[d].pc # "idle"
  PROVE  /\ queue[d].state = "active"
         /\ JobOf(d) \in Jobs /\ StepOf(d) \in Steps
         /\ LastAttempt(d) \/ run[d].attempt + 1 \in 1..(MaxRetriesAllowed + 1)
<1>1. queue[d].state = "active" /\ JobOf(d) \in Jobs
  BY DEF SlotsOK, JobOf
<1>2. run[d] \in Locals
  BY DEF TypeOK
<1>3. StepOf(d) \in Steps
  BY <1>2 DEF Locals, StepOrders, StepOf
<1>4. DefOf(d) \in StepDefs
  BY <1>1, <1>3, EngineAssumption DEF TypeOK, DefOf
<1>5. DefOf(d).policy.maxRetries \in 0..MaxRetriesAllowed
  BY <1>4 DEF StepDefs, Policies, NoPolicy, MaxRetriesAllowed
<1>6. LastAttempt(d) \/ run[d].attempt + 1 \in 1..(MaxRetriesAllowed + 1)
  BY <1>2, <1>5 DEF Locals, LastAttempt, MaxAttempts, MaxRetriesAllowed
<1>7. QED
  BY <1>1, <1>3, <1>6

\* The next step, or the end of the loop over the steps.
LEMMA AdvanceEffect ==
  ASSUME TypeOK, NEW d \in Deliveries, Advance(d)
  PROVE  MovesTo(d, Unsettled)
<1>1. run[d] \in Locals /\ 1 \in 1..(MaxRetriesAllowed + 1)
  BY DEF TypeOK, MaxRetriesAllowed
<1>2. CASE run[d].pos = StepCount
  <2> DEFINE r == [run[d] EXCEPT !.pc = "finalize", !.attempt = 1]
  <2>1. r \in Locals /\ r.pc \in Unsettled
    BY <1>1 DEF Locals, RunPcs, Unsettled
  <2>2. run' = [run EXCEPT ![d] = r]
    BY <1>1, <1>2 DEF Advance, TypeOK, Locals
  <2> HIDE DEF r
  <2>3. QED
    BY <2>1, <2>2 DEF TypeOK, MovesTo
<1>3. CASE run[d].pos # StepCount
  <2> DEFINE r == [run[d] EXCEPT !.pc = "poll", !.pos = run[d].pos + 1, !.attempt = 1]
  <2>1. run[d].pos + 1 \in Steps
    BY <1>1, <1>3, EngineAssumption DEF Locals, Steps
  <2>2. r \in Locals /\ r.pc \in Unsettled
    BY <1>1, <2>1 DEF Locals, RunPcs, Unsettled
  <2>3. run' = [run EXCEPT ![d] = r]
    BY <1>3 DEF Advance, TypeOK
  <2> HIDE DEF r
  <2>4. QED
    BY <2>2, <2>3 DEF TypeOK, MovesTo
<1>4. QED
  BY <1>2, <1>3

\* The next attempt, or the end of the attempt loop.
LEMMA NextAttemptEffect ==
  ASSUME TypeOK, SlotsOK, NEW d \in Deliveries, run[d].pc # "idle", NextAttempt(d)
  PROVE  MovesTo(d, Unsettled)
<1>1. run[d] \in Locals
  BY DEF TypeOK
<1>2. CASE LastAttempt(d)
  <2> DEFINE r == [run[d] EXCEPT !.pc = "exhausted", !.todo = {}]
  <2>1. r \in Locals /\ r.pc \in Unsettled
    BY <1>1 DEF Locals, RunPcs, Unsettled
  <2>2. run' = [run EXCEPT ![d] = r]
    BY <1>1, <1>2 DEF NextAttempt, TypeOK, Locals
  <2> HIDE DEF r
  <2>3. QED
    BY <2>1, <2>2 DEF TypeOK, MovesTo
<1>3. CASE ~LastAttempt(d)
  <2> DEFINE r == [run[d] EXCEPT !.pc = "execute", !.attempt = run[d].attempt + 1, !.todo = {}]
  <2>1. run[d].attempt + 1 \in 1..(MaxRetriesAllowed + 1)
    BY <1>3, SlotFacts
  <2>2. r \in Locals /\ r.pc \in Unsettled
    BY <1>1, <2>1 DEF Locals, RunPcs, Unsettled
  <2>3. run' = [run EXCEPT ![d] = r]
    BY <1>3 DEF NextAttempt, TypeOK
  <2> HIDE DEF r
  <2>4. QED
    BY <2>2, <2>3 DEF TypeOK, MovesTo
<1>4. QED
  BY <1>2, <1>3

\* A write of one job status.
LEMMA SetJobEffect ==
  ASSUME TypeOK, NEW j \in Jobs, NEW st \in JobStatuses, SetJob(j, st)
  PROVE  /\ jobStatus' \in [Jobs -> JobStatuses \union {"NONE"}]
         /\ jobStatus'[j] = st
         /\ \A i \in Jobs \ {j} : jobStatus'[i] = jobStatus[i]
BY DEF TypeOK, SetJob

\* A write of one step status.
LEMMA SetStepType ==
  ASSUME TypeOK, NEW j \in Jobs, NEW s \in Steps, NEW st \in StepStatuses, SetStep(j, s, st)
  PROVE  stepStatus' \in [Jobs -> [Steps -> StepStatuses]]
BY DEF TypeOK, SetStep

\* An add to the workflow queue takes an unused id.
LEMMA AddEffect ==
  ASSUME TypeOK, NEW j \in Jobs, AddDelivery(j)
  PROVE  Appears(j)
BY EngineAssumption DEF TypeOK, AddDelivery, Appears, BullJobs, NextId

-----------------------------------------------------------------------------
(* Each of the worker's actions has its effect, and keeps the types *)

\* The actions that go on with a delivery.
Proceeds(d) ==
  \/ MarkStarted(d) \/ PollStatus(d) \/ MarkStepRunning(d) \/ PersistStepSuccess(d)
  \/ StepSucceeds(d) \/ AttemptFails(d) \/ CatchAfterPersist(d) \/ MarkRetrying(d)
  \/ RecoveryResolves(d) \/ HandleSkip(d) \/ HandleCompensate(d) \/ CompensateStep(d)
  \/ CompensateDone(d) \/ RecoveryFails(d) \/ RecoveryRejected(d) \/ ResolveStep(d)
  \/ SkipExhausted(d)

\* The actions that move a delivery on without ending the job.
LEMMA ProceedsEffect ==
  ASSUME TypeOK, SlotsOK, NEW d \in Deliveries, Proceeds(d)
  PROVE  TypeOK' /\ Progress(d)
<1> USE DEF rows, api, faults, At
<1>0. run[d].pc # "idle"
  BY DEF Proceeds, MarkStarted, PollStatus, MarkStepRunning, PersistStepSuccess, StepSucceeds,
         AttemptFails, CatchAfterPersist, MarkRetrying, RecoveryResolves, HandleSkip,
         HandleCompensate, CompensateStep, CompensateDone, RecoveryFails, RecoveryRejected,
         ResolveStep, SkipExhausted
<1>1. ASSUME PollStatus(d) PROVE TypeOK' /\ Progress(d)
  BY <1>0, <1>1, GotoEffect
  DEF PollStatus, TypeOK, Progress, MovesTo, RunPcs, Unsettled, JobStatuses, StepStatuses
<1>2. ASSUME StepSucceeds(d) PROVE TypeOK' /\ Progress(d)
  BY <1>0, <1>2, AdvanceEffect
  DEF StepSucceeds, TypeOK, Progress, MovesTo, RunPcs, Unsettled, JobStatuses, StepStatuses
<1>3. ASSUME RecoveryResolves(d) PROVE TypeOK' /\ Progress(d)
  BY <1>0, <1>3, GotoEffect
  DEF RecoveryResolves, TypeOK, Progress, MovesTo, RunPcs, Unsettled, JobStatuses, StepStatuses
<1>4. ASSUME CompensateDone(d) PROVE TypeOK' /\ Progress(d)
  BY <1>0, <1>4, GotoEffect
  DEF CompensateDone, TypeOK, Progress, MovesTo, RunPcs, Unsettled, JobStatuses, StepStatuses
<1>5. ASSUME RecoveryFails(d) PROVE TypeOK' /\ Progress(d)
  BY <1>0, <1>5, NextAttemptEffect
  DEF RecoveryFails, TypeOK, Progress, MovesTo, RunPcs, Unsettled, JobStatuses, StepStatuses
<1>6. ASSUME RecoveryRejected(d) PROVE TypeOK' /\ Progress(d)
  BY <1>0, <1>6, NextAttemptEffect, EngineAssumption
  DEF RecoveryRejected, TypeOK, Progress, MovesTo, RunPcs, Unsettled, JobStatuses, StepStatuses
<1>7. ASSUME MarkStarted(d) PROVE TypeOK' /\ Progress(d)
  BY <1>0, <1>7, GotoEffect, SetJobEffect, SlotFacts
  DEF MarkStarted, TypeOK, Progress, MovesTo, RunPcs, Unsettled, JobStatuses, StepStatuses
<1>8. ASSUME MarkRetrying(d) PROVE TypeOK' /\ Progress(d)
  BY <1>0, <1>8, GotoEffect, SetJobEffect, SlotFacts
  DEF MarkRetrying, TypeOK, Progress, MovesTo, RunPcs, Unsettled, JobStatuses, StepStatuses
<1>9. ASSUME MarkStepRunning(d) PROVE TypeOK' /\ Progress(d)
  BY <1>0, <1>9, GotoEffect, SetStepType, SlotFacts
  DEF MarkStepRunning, TypeOK, Progress, MovesTo, RunPcs, Unsettled, JobStatuses, StepStatuses
<1>10. ASSUME PersistStepSuccess(d) PROVE TypeOK' /\ Progress(d)
  BY <1>0, <1>10, GotoEffect, SetStepType, SlotFacts
  DEF PersistStepSuccess, TypeOK, Progress, MovesTo, RunPcs, Unsettled, JobStatuses, StepStatuses
<1>11. ASSUME AttemptFails(d) PROVE TypeOK' /\ Progress(d)
  BY <1>0, <1>11, GotoEffect, SetStepType, SlotFacts
  DEF AttemptFails, RecordFailure, TypeOK, Progress, MovesTo, RunPcs, Unsettled, JobStatuses, StepStatuses
<1>12. ASSUME CatchAfterPersist(d) PROVE TypeOK' /\ Progress(d)
  <2>1. rejections' \in 0..MaxRejections
    BY <1>12, EngineAssumption DEF CatchAfterPersist, TypeOK
  <2>2. MovesTo(d, Unsettled) /\ stepStatus' \in [Jobs -> [Steps -> StepStatuses]]
    BY <1>0, <1>12, GotoEffect, SetStepType, SlotFacts
    DEF CatchAfterPersist, RecordFailure, MovesTo, RunPcs, Unsettled, StepStatuses
  <2>3. QED
    BY <1>12, <2>1, <2>2
    DEF CatchAfterPersist, RecordFailure, TypeOK, Progress, MovesTo, Unsettled
<1>13. ASSUME HandleSkip(d) PROVE TypeOK' /\ Progress(d)
  BY <1>0, <1>13, GotoEffect, SetStepType, SlotFacts
  DEF HandleSkip, TypeOK, Progress, MovesTo, RunPcs, Unsettled, JobStatuses, StepStatuses
<1>14. ASSUME ResolveStep(d) PROVE TypeOK' /\ Progress(d)
  BY <1>0, <1>14, AdvanceEffect, SetStepType, SlotFacts
  DEF ResolveStep, TypeOK, Progress, MovesTo, RunPcs, Unsettled, JobStatuses, StepStatuses
<1>15. ASSUME SkipExhausted(d) PROVE TypeOK' /\ Progress(d)
  BY <1>0, <1>15, AdvanceEffect, SetStepType, SlotFacts
  DEF SkipExhausted, TypeOK, Progress, MovesTo, RunPcs, Unsettled, JobStatuses, StepStatuses
<1>16. ASSUME HandleCompensate(d) PROVE TypeOK' /\ Progress(d)
  <2> DEFINE r == [run[d] EXCEPT !.pc = "compensate", !.todo = {s \in Steps : stepStatus[JobOf(d)][s] = "COMPLETED"}]
  <2>1. r \in Locals /\ r.pc = "compensate"
    BY DEF TypeOK, Locals, RunPcs, Unsettled
  <2>2. run' = [run EXCEPT ![d] = r]
    BY <1>16 DEF HandleCompensate, TypeOK
  <2> HIDE DEF r
  <2>3. QED
    BY <1>0, <1>16, <2>1, <2>2 DEF HandleCompensate, TypeOK, Progress, MovesTo, Unsettled
<1>17. ASSUME CompensateStep(d) PROVE TypeOK' /\ Progress(d)
  <2>1. PICK s \in run[d].todo :
          /\ SetStep(JobOf(d), s, "COMPENSATED")
          /\ run' = [run EXCEPT ![d].todo = @ \ {s}]
    BY <1>17 DEF CompensateStep
  <2> DEFINE r == [run[d] EXCEPT !.todo = @ \ {s}]
  <2>2. r \in Locals /\ r.pc = "compensate" /\ s \in Steps
    BY <1>17 DEF CompensateStep, TypeOK, Locals
  <2>3. run' = [run EXCEPT ![d] = r]
    BY <2>1 DEF TypeOK
  <2>4. stepStatus' \in [Jobs -> [Steps -> StepStatuses]]
    BY <1>0, <2>1, <2>2, SetStepType, SlotFacts DEF StepStatuses
  <2> HIDE DEF r
  <2>5. QED
    BY <1>0, <1>17, <2>2, <2>3, <2>4 DEF CompensateStep, TypeOK, Progress, MovesTo, Unsettled
<1>18. QED
  BY Proceeds(d), <1>1, <1>2, <1>3, <1>4, <1>5, <1>6, <1>7, <1>8, <1>9, <1>10, <1>11, <1>12, <1>13, <1>14, <1>15, <1>16, <1>17 DEF Proceeds

\* SkipCancelled, HandlerMissing, Notify and RejectedCall end a delivery.
LEMMA ClosesEffect ==
  ASSUME TypeOK, SlotsOK, NEW d \in Deliveries,
         HandlerMissing(d) \/ RejectedCall(d) \/ Notify(d) \/ SkipCancelled(d)
  PROVE  TypeOK' /\ Closes(d)
<1> USE DEF rows, api, faults, At
<1>1. ASSUME HandlerMissing(d) PROVE TypeOK' /\ Closes(d)
  BY <1>1, EndEffect DEF HandlerMissing, TypeOK, MovesTo, BecomesState, Closes
<1>2. ASSUME RejectedCall(d) PROVE TypeOK' /\ Closes(d)
  BY <1>2, EndEffect, EngineAssumption DEF RejectedCall, TypeOK, MovesTo, BecomesState, Closes
<1>3. ASSUME Notify(d) PROVE TypeOK' /\ Closes(d)
  BY <1>3, EndEffect DEF Notify, TypeOK, MovesTo, BecomesState, Closes
<1>4. ASSUME SkipCancelled(d) PROVE TypeOK' /\ Closes(d)
  BY <1>4, EndEffect DEF SkipCancelled, CanStart, TypeOK, MovesTo, BecomesState, Closes
<1>5. QED
  BY <1>1, <1>2, <1>3, <1>4

\* LoadJob makes a waiting delivery active.
LEMMA LoadsEffect ==
  ASSUME TypeOK, SlotsOK, NEW d \in Deliveries, LoadJob(d)
  PROVE  TypeOK' /\ Loads(d)
<1>1. PICK order \in LoadOrders :
        run' = [run EXCEPT ![d] = [IdleRun EXCEPT !.pc = "loaded", !.order = order]]
  BY DEF LoadJob
<1> DEFINE r == [IdleRun EXCEPT !.pc = "loaded", !.order = order]
<1>2. r \in Locals /\ r.pc = "loaded"
  BY IdleRunType, EngineAssumption DEF Locals, RunPcs, Unsettled, IdleRun
<1> HIDE DEF r
<1>3. MovesTo(d, {"loaded"})
  BY <1>1, <1>2 DEF TypeOK, MovesTo, r
<1>4. queue[d] \in BullJobs /\ [queue[d] EXCEPT !.state = "active"] \in BullJobs
  BY DEF TypeOK, BullJobs
<1>5. BecomesState(d, "active")
  BY <1>4 DEF TypeOK, LoadJob, BecomesState, BullJobs
<1>6. QED
  BY <1>3, <1>5 DEF LoadJob, CanStart, TypeOK, MovesTo, BecomesState, Loads, rows, api, faults

\* StalledCheck gives an orphaned delivery back, or fails it.
LEMMA StallsEffect ==
  ASSUME TypeOK, SlotsOK, NEW d \in Deliveries, StalledCheck(d)
  PROVE  TypeOK' /\ Stalls(d)
<1>1. queue[d] \in BullJobs
  BY DEF TypeOK
<1>2. CASE queue[d].stalls < MaxStalledCount
  <2> DEFINE b == [queue[d] EXCEPT !.state = "waiting", !.stalls = queue[d].stalls + 1]
  <2>1. queue[d].stalls + 1 \in 0..MaxStalledCount /\ ~(queue[d].stalls >= MaxStalledCount)
    BY <1>1, <1>2, EngineAssumption DEF BullJobs
  <2>2. b \in BullJobs /\ b.state = "waiting" /\ b.job = queue[d].job
    BY <1>1, <2>1 DEF BullJobs
  <2>3. queue' = [queue EXCEPT ![d].state = "waiting", ![d].stalls = @ + 1]
    BY <2>1 DEF StalledCheck
  <2>4. queue' = [queue EXCEPT ![d] = b]
    BY <2>3 DEF TypeOK
  <2> HIDE DEF b
  <2>5. QED
    BY <2>2, <2>4 DEF StalledCheck, TypeOK, BecomesState, Stalls, At, rows, api, faults
<1>3. CASE ~(queue[d].stalls < MaxStalledCount)
  <2> DEFINE b == [queue[d] EXCEPT !.state = "failed"]
  <2>1. b \in BullJobs /\ b.state = "failed" /\ b.job = queue[d].job
    BY <1>1 DEF BullJobs
  <2>2. queue' = [queue EXCEPT ![d] = b]
    BY <1>1, <1>3, EngineAssumption DEF StalledCheck, BullJobs
  <2> HIDE DEF b
  <2>3. QED
    BY <2>1, <2>2 DEF StalledCheck, TypeOK, BecomesState, Stalls, At, rows, api, faults
<1>4. QED
  BY <1>2, <1>3

\* CrashWorker resets all locals.
LEMMA CrashesEffect ==
  ASSUME TypeOK, CrashWorker
  PROVE  TypeOK' /\ Crashes
BY IdleRunType, EngineAssumption DEF CrashWorker, TypeOK, Crashes, rows, api, faults

\* FailJob keeps its delivery on the way to the dead-letter queue.
LEMMA FailEffect ==
  ASSUME TypeOK, SlotsOK, NEW d \in Deliveries, FailJob(d)
  PROVE  TypeOK' /\ Ends(d, "exhausted", "deadletter", "FAILED")
BY GotoEffect, SetJobEffect, SlotFacts
DEF FailJob, TypeOK, MovesTo, Ends, RunPcs, JobStatuses, At, rows, api, faults

\* Finalize writes COMPLETED.
LEMMA FinalizeEffect ==
  ASSUME TypeOK, SlotsOK, NEW d \in Deliveries, Finalize(d)
  PROVE  TypeOK' /\ Ends(d, "finalize", "notify", "COMPLETED")
BY GotoEffect, SetJobEffect, SlotFacts
DEF Finalize, TypeOK, MovesTo, Ends, RunPcs, JobStatuses, At, rows, api, faults

\* MoveToDeadLetter adds an entry under an id no operator can have picked.
LEMMA DeadLetterEffect ==
  ASSUME TypeOK, SlotsOK, NEW d \in Deliveries, MoveToDeadLetter(d)
  PROVE  TypeOK' /\ DeadLettered(d)
<1>1. PICK e \in DeadLetters :
        /\ dlq[e].state = "unused"
        /\ dlq' = [dlq EXCEPT ![e] = [state |-> "present", job |-> JobOf(d)]]
  BY DEF MoveToDeadLetter, NextId
<1>2. JobOf(d) \in Jobs
  BY SlotFacts DEF MoveToDeadLetter, At
<1>3. [state |-> "present", job |-> JobOf(d)] \in Entries
  BY <1>2 DEF Entries
<1>4. MovesTo(d, {"notify"})
  BY GotoEffect DEF MoveToDeadLetter, RunPcs
<1>5. QED
  BY <1>1, <1>3, <1>4 DEF MoveToDeadLetter, TypeOK, MovesTo, DeadLettered, At, rows, api, faults

\* The three actions of POST /jobs.
LEMMA SubmitsEffect ==
  ASSUME TypeOK, SlotsOK, NEW j \in Jobs, Submission(j)
  PROVE  TypeOK' /\ Submits(j)
<1>1. ASSUME CreateJob(j) PROVE TypeOK' /\ Submits(j)
  BY <1>1, SetJobEffect DEF CreateJob, TypeOK, Submits, JobStatuses, faults
<1>2. ASSUME EnqueueWorkflow(j) PROVE TypeOK' /\ Submits(j)
  BY <1>2, AddEffect DEF EnqueueWorkflow, TypeOK, Submits, Appears, rows, faults
<1>3. ASSUME EnqueueFails(j) PROVE TypeOK' /\ Submits(j)
  BY <1>3, EngineAssumption DEF EnqueueFails, TypeOK, Submits, rows
<1>4. QED
  BY <1>1, <1>2, <1>3 DEF Submission

\* The two actions of a cancellation.
LEMMA CancelEffect ==
  ASSUME TypeOK, SlotsOK, NEW c \in Cancellers, Cancellation(c)
  PROVE  TypeOK' /\ CancelMoves
<1>1. ASSUME CancelRead(c) PROVE TypeOK' /\ CancelMoves
  BY <1>1 DEF CancelRead, TypeOK, SlotsOK, Cancels, CancelMoves, rows, faults
<1>2. ASSUME CancelWrite(c) PROVE TypeOK' /\ CancelMoves
  <2>1. cancel[c].job \in Jobs
    BY <1>2 DEF CancelWrite, SlotsOK
  <2>2. QED
    BY <1>2, <2>1, SetJobEffect
    DEF CancelWrite, TypeOK, SlotsOK, Cancels, CancelMoves, JobStatuses, faults
<1>3. QED
  BY <1>1, <1>2 DEF Cancellation

\* The six actions of a dead-letter retry.
LEMMA RetryEffect ==
  ASSUME TypeOK, SlotsOK, NEW o \in Operators, Retry(o)
  PROVE  TypeOK' /\ (RetryReads(o) \/ RetryAdds(o) \/ RetryRemoves(o))
<1> USE DEF TypeOK, Retries, IdleOp, rows, faults
<1>1. ASSUME RetryFind(o) PROVE TypeOK' /\ RetryReads(o)
  BY <1>1 DEF RetryFind, RetryReads
<1>2. ASSUME RetryFetch(o) PROVE TypeOK' /\ RetryReads(o)
  BY <1>2 DEF RetryFetch, RetryReads, SlotsOK
<1>3. ASSUME RetryAdd(o) PROVE TypeOK' /\ RetryAdds(o)
  <2>1. Appears(dlq[op[o].entry].job)
    BY <1>3, AddEffect DEF RetryAdd, SlotsOK
  <2>2. QED
    BY <1>3, <2>1 DEF RetryAdd, RetryAdds, Appears
<1>4. ASSUME RetryRemove(o) PROVE TypeOK' /\ RetryRemoves(o)
  <2> DEFINE e == op[o].entry
  <2>1. e \in DeadLetters
    BY <1>4 DEF RetryRemove, SlotsOK
  <2>2. dlq[e] \in Entries /\ [dlq[e] EXCEPT !.state = "removed"] \in Entries
    BY <2>1 DEF Entries
  <2>3. /\ dlq' \in [DeadLetters -> Entries]
        /\ dlq'[e].state = "removed" /\ dlq'[e].job = dlq[e].job
        /\ \A x \in DeadLetters \ {e} : dlq'[x] = dlq[x]
    BY <1>4, <2>1, <2>2 DEF RetryRemove, Entries
  <2>4. QED
    BY <1>4, <2>1, <2>3 DEF RetryRemove, RetryRemoves
<1>5. ASSUME RetryReset(o) PROVE TypeOK' /\ RetryReads(o)
  <2>1. dlq[op[o].entry].job \in Jobs
    BY <1>5 DEF RetryReset, SlotsOK
  <2>2. QED
    BY <1>5, <2>1, SetJobEffect DEF RetryReset, RetryReads, JobStatuses
<1>6. ASSUME RetryAborts(o) PROVE TypeOK' /\ RetryReads(o)
  BY <1>6 DEF RetryAborts, RetryReads
<1>7. QED
  BY <1>1, <1>2, <1>3, <1>4, <1>5, <1>6 DEF Retry

-----------------------------------------------------------------------------
(* Every step keeps the types and has one of the effects *)

Effect ==
  \/ \E d \in Deliveries :
       \/ Progress(d) \/ Closes(d) \/ Loads(d) \/ Stalls(d) \/ DeadLettered(d)
       \/ Ends(d, "exhausted", "deadletter", "FAILED")
       \/ Ends(d, "finalize", "notify", "COMPLETED")
  \/ Crashes
  \/ \E j \in Jobs : Submits(j)
  \/ CancelMoves
  \/ \E o \in Operators : RetryReads(o) \/ RetryAdds(o) \/ RetryRemoves(o)

\* Every step of the engine keeps the types and has one of the effects.
LEMMA NextEffect ==
  ASSUME TypeOK, SlotsOK, Next
  PROVE  TypeOK' /\ Effect
<1>1. ASSUME NEW d \in Deliveries, Work(d) \/ Fault(d) \/ StalledCheck(d)
      PROVE  TypeOK' /\ Effect
  <2>1. CASE Proceeds(d)
    BY <2>1, ProceedsEffect DEF Effect
  <2>2. CASE HandlerMissing(d) \/ RejectedCall(d) \/ Notify(d) \/ SkipCancelled(d)
    BY <2>2, ClosesEffect DEF Effect
  <2>3. CASE LoadJob(d)
    BY <2>3, LoadsEffect DEF Effect
  <2>4. CASE StalledCheck(d)
    BY <2>4, StallsEffect DEF Effect
  <2>5. CASE FailJob(d)
    BY <2>5, FailEffect DEF Effect
  <2>6. CASE Finalize(d)
    BY <2>6, FinalizeEffect DEF Effect
  <2>7. CASE MoveToDeadLetter(d)
    BY <2>7, DeadLetterEffect DEF Effect
  <2>8. QED
    BY <1>1, <2>1, <2>2, <2>3, <2>4, <2>5, <2>6, <2>7
    DEF Work, Fault, Attempt, Recovery, Lifecycle, Proceeds
<1>2. CASE CrashWorker
  BY <1>2, CrashesEffect DEF Effect
<1>3. ASSUME NEW j \in Jobs, Submission(j) PROVE TypeOK' /\ Effect
  BY <1>3, SubmitsEffect DEF Effect
<1>4. ASSUME NEW c \in Cancellers, Cancellation(c) PROVE TypeOK' /\ Effect
  BY <1>4, CancelEffect DEF Effect
<1>5. ASSUME NEW o \in Operators, Retry(o) PROVE TypeOK' /\ Effect
  BY <1>5, RetryEffect DEF Effect
<1>6. QED
  BY <1>1, <1>2, <1>3, <1>4, <1>5 DEF Next

\* The slots stay consistent.
LEMMA SlotsStep ==
  ASSUME TypeOK, SlotsOK, TypeOK', Effect
  PROVE  SlotsOK'
<1>1. ASSUME NEW d \in Deliveries, Progress(d) PROVE SlotsOK'
  BY <1>1 DEF Progress, MovesTo, SlotsOK, Unsettled
<1>2. ASSUME NEW d \in Deliveries, Closes(d) PROVE SlotsOK'
  BY <1>2 DEF Closes, MovesTo, BecomesState, SlotsOK
<1>3. ASSUME NEW d \in Deliveries, Loads(d) PROVE SlotsOK'
  BY <1>3 DEF Loads, MovesTo, BecomesState, SlotsOK
<1>4. ASSUME NEW d \in Deliveries, Stalls(d) PROVE SlotsOK'
  BY <1>4 DEF Stalls, BecomesState, SlotsOK
<1>5. ASSUME NEW d \in Deliveries, DeadLettered(d) PROVE SlotsOK'
  BY <1>5 DEF DeadLettered, MovesTo, SlotsOK, JobOf
<1>6. ASSUME NEW d \in Deliveries,
             \/ Ends(d, "exhausted", "deadletter", "FAILED")
             \/ Ends(d, "finalize", "notify", "COMPLETED")
      PROVE  SlotsOK'
  BY <1>6 DEF Ends, MovesTo, SlotsOK
<1>7. CASE Crashes
  BY <1>7 DEF Crashes, SlotsOK
<1>8. ASSUME NEW j \in Jobs, Submits(j) PROVE SlotsOK'
  BY <1>8 DEF Submits, Appears, SlotsOK
<1>9. CASE CancelMoves
  BY <1>9 DEF CancelMoves, SlotsOK
<1>10. ASSUME NEW o \in Operators, RetryReads(o) PROVE SlotsOK'
  BY <1>10 DEF RetryReads, SlotsOK
<1>11. ASSUME NEW o \in Operators, RetryAdds(o) PROVE SlotsOK'
  BY <1>11 DEF RetryAdds, Appears, SlotsOK
<1>12. ASSUME NEW o \in Operators, RetryRemoves(o) PROVE SlotsOK'
  BY <1>12 DEF RetryRemoves, SlotsOK
<1>13. QED
  BY <1>1, <1>2, <1>3, <1>4, <1>5, <1>6, <1>7, <1>8, <1>9, <1>10, <1>11, <1>12 DEF Effect

\* Some delivery answers for every job in progress, and some entry or delivery for
\* every FAILED one, whatever the failed set is used for.
SomeCarrier ==
  \A j \in Jobs : jobStatus[j] \in {"RUNNING", "RETRYING"} =>
    \E d \in Deliveries : Carries(d, j)

SomeWayBack ==
  \A j \in Jobs : jobStatus[j] = "FAILED" =>
    \/ \E e \in DeadLetters : Reviewable(e, j)
    \/ \E d \in Deliveries : CarriesFrom(d, j, Unsettled \union {"idle", "deadletter"})

\* A stuttering step preserves the invariant.
LEMMA StutterStep ==
  ASSUME UNCHANGED vars
  PROVE  /\ TypeOK <=> TypeOK'
         /\ SlotsOK <=> SlotsOK'
         /\ SomeCarrier <=> SomeCarrier'
         /\ SomeWayBack <=> SomeWayBack'
BY DEF vars, rows, api, faults, TypeOK, SlotsOK, SomeCarrier, SomeWayBack,
       Carries, CarriesFrom, Reviewable

\* Types and slots are in order initially.
LEMMA InitTypes == Init => TypeOK /\ SlotsOK
<1>1. Unused \in BullJobs /\ NoEntry \in Entries /\ IdleOp \in Retries
  BY EngineAssumption DEF Unused, NoEntry, IdleOp, BullJobs, Entries, Retries
<1>2. QED
  BY <1>1, IdleRunType, EngineAssumption
  DEF Init, TypeOK, SlotsOK, JobStatuses, StepStatuses, Cancels, Unused, NoEntry, IdleOp

-----------------------------------------------------------------------------
(* SomeCarrier is inductive relative to IInv *)

\* Every effect preserves SomeCarrier.
LEMMA CarrierStep ==
  ASSUME TypeOK, SlotsOK, TypeOK', SomeCarrier, Effect
  PROVE  SomeCarrier'
<1> SUFFICES ASSUME NEW j \in Jobs, jobStatus'[j] \in {"RUNNING", "RETRYING"}
             PROVE  \E d \in Deliveries : Carries(d, j)'
  BY DEF SomeCarrier
<1> USE DEF Carries, CarriesFrom
<1>0. ASSUME jobStatus[j] = jobStatus'[j]
      PROVE  \E d \in Deliveries : Carries(d, j)
  BY <1>0 DEF SomeCarrier
<1>1. ASSUME NEW d \in Deliveries, Progress(d) PROVE \E x \in Deliveries : Carries(x, j)'
  <2>1. CASE j = JobOf(d)
    <3>1. queue[d].state = "active"
      BY <1>1 DEF Progress, SlotsOK, Unsettled
    <3>2. QED
      BY <1>1, <2>1, <3>1 DEF Progress, MovesTo, JobOf
  <2>2. CASE j # JobOf(d)
    BY <1>0, <1>1, <2>2 DEF Progress, MovesTo, JobOf
  <2>3. QED
    BY <2>1, <2>2
<1>2. ASSUME NEW d \in Deliveries, Closes(d) PROVE \E x \in Deliveries : Carries(x, j)'
  BY <1>0, <1>2 DEF Closes, MovesTo, BecomesState, JobOf, SlotsOK, Unsettled
<1>3. ASSUME NEW d \in Deliveries, Loads(d) PROVE \E x \in Deliveries : Carries(x, j)'
  BY <1>0, <1>3 DEF Loads, MovesTo, BecomesState, Unsettled
<1>4. ASSUME NEW d \in Deliveries, Stalls(d) PROVE \E x \in Deliveries : Carries(x, j)'
  BY <1>0, <1>4 DEF Stalls, BecomesState
<1>5. ASSUME NEW d \in Deliveries, DeadLettered(d) PROVE \E x \in Deliveries : Carries(x, j)'
  BY <1>0, <1>5 DEF DeadLettered, MovesTo, SlotsOK, Unsettled
<1>6. ASSUME NEW d \in Deliveries,
             \/ Ends(d, "exhausted", "deadletter", "FAILED")
             \/ Ends(d, "finalize", "notify", "COMPLETED")
      PROVE  \E x \in Deliveries : Carries(x, j)'
  <2>1. j # JobOf(d)
    BY <1>6 DEF Ends
  <2>2. PICK x \in Deliveries : Carries(x, j)
    BY <1>0, <1>6, <2>1 DEF Ends
  <2>3. x # d
    BY <1>6, <2>1, <2>2 DEF Ends, JobOf
  <2>4. QED
    BY <1>6, <2>2, <2>3 DEF Ends, MovesTo
<1>7. CASE Crashes
  <2>1. PICK x \in Deliveries : Carries(x, j)
    BY <1>0, <1>7 DEF Crashes
  <2>2. QED
    BY <1>7, <2>1 DEF Crashes
<1>8. ASSUME NEW i \in Jobs, Submits(i) PROVE \E x \in Deliveries : Carries(x, j)'
  BY <1>0, <1>8 DEF Submits, Appears
<1>9. CASE CancelMoves
  BY <1>0, <1>9 DEF CancelMoves
<1>10. ASSUME NEW o \in Operators, RetryReads(o) PROVE \E x \in Deliveries : Carries(x, j)'
  BY <1>0, <1>10 DEF RetryReads
<1>11. ASSUME NEW o \in Operators, RetryAdds(o) PROVE \E x \in Deliveries : Carries(x, j)'
  BY <1>0, <1>11 DEF RetryAdds, Appears
<1>12. ASSUME NEW o \in Operators, RetryRemoves(o) PROVE \E x \in Deliveries : Carries(x, j)'
  BY <1>0, <1>12 DEF RetryRemoves
<1>13. QED
  BY <1>1, <1>2, <1>3, <1>4, <1>5, <1>6, <1>7, <1>8, <1>9, <1>10, <1>11, <1>12 DEF Effect

-----------------------------------------------------------------------------
(* SomeWayBack is inductive relative to IInv *)

\* A delivery that may still put the job into the dead-letter queue.
LeadsBack(d, j) == CarriesFrom(d, j, Unsettled \union {"idle", "deadletter"})

\* Every effect preserves SomeWayBack.
LEMMA RecoverableStep ==
  ASSUME TypeOK, SlotsOK, TypeOK', SomeWayBack, Effect
  PROVE  SomeWayBack'
<1> DEFINE Kept(j) == \/ \E e \in DeadLetters : Reviewable(e, j)
                      \/ \E d \in Deliveries : LeadsBack(d, j)
<1> SUFFICES ASSUME NEW j \in Jobs, jobStatus'[j] = "FAILED"
             PROVE  Kept(j)'
  BY DEF SomeWayBack, LeadsBack
<1> USE DEF LeadsBack, CarriesFrom, Reviewable
<1>0. ASSUME jobStatus[j] = jobStatus'[j] PROVE Kept(j)
  BY <1>0 DEF SomeWayBack
<1>1. ASSUME NEW d \in Deliveries, Progress(d) PROVE Kept(j)'
  BY <1>0, <1>1 DEF Progress, MovesTo
<1>2. ASSUME NEW d \in Deliveries, Closes(d) PROVE Kept(j)'
  BY <1>0, <1>2 DEF Closes, MovesTo, BecomesState, JobOf, SlotsOK, Unsettled
<1>3. ASSUME NEW d \in Deliveries, Loads(d) PROVE Kept(j)'
  BY <1>0, <1>3 DEF Loads, MovesTo, BecomesState, Unsettled
<1>4. ASSUME NEW d \in Deliveries, Stalls(d) PROVE Kept(j)'
  BY <1>0, <1>4 DEF Stalls, BecomesState
<1>5. ASSUME NEW d \in Deliveries, DeadLettered(d) PROVE Kept(j)'
  <2>1. PICK e \in DeadLetters :
          /\ dlq[e].state = "unused"
          /\ dlq'[e].state = "present" /\ dlq'[e].job = JobOf(d)
          /\ \A x \in DeadLetters \ {e} : dlq'[x] = dlq[x]
    BY <1>5 DEF DeadLettered
  <2>2. UNCHANGED <<queue, jobStatus, op>> /\ MovesTo(d, {"notify"}) /\ run[d].pc = "deadletter"
    BY <1>5 DEF DeadLettered
  <2>3. CASE j = JobOf(d)
    <3>1. \A o \in Operators : op'[o].pc = "added" => op'[o].entry # e
      BY <2>1, <2>2 DEF SlotsOK
    <3>2. QED
      BY <2>1, <2>3, <3>1
  <2>4. CASE j # JobOf(d)
    <3>1. CASE \E x \in DeadLetters : Reviewable(x, j)
      BY <2>1, <2>2, <3>1
    <3>2. CASE \E x \in Deliveries : LeadsBack(x, j)
      <4>1. PICK x \in Deliveries : LeadsBack(x, j)
        BY <3>2
      <4>2. x # d
        BY <2>2, <2>4, <4>1 DEF JobOf
      <4>3. QED
        BY <2>2, <4>1, <4>2 DEF MovesTo
    <3>3. QED
      BY <1>0, <2>2, <3>1, <3>2
  <2>5. QED
    BY <2>3, <2>4
<1>6. ASSUME NEW d \in Deliveries, Ends(d, "exhausted", "deadletter", "FAILED") PROVE Kept(j)'
  <2>1. CASE j = JobOf(d)
    <3>1. queue[d].state = "active"
      BY <1>6 DEF Ends, SlotsOK
    <3>2. QED
      BY <1>6, <2>1, <3>1 DEF Ends, MovesTo, JobOf
  <2>2. CASE j # JobOf(d)
    BY <1>0, <1>6, <2>2 DEF Ends, MovesTo, JobOf
  <2>3. QED
    BY <2>1, <2>2
<1>7. ASSUME NEW d \in Deliveries, Ends(d, "finalize", "notify", "COMPLETED") PROVE Kept(j)'
  <2>1. j # JobOf(d)
    BY <1>7 DEF Ends
  <2>2. Kept(j)
    BY <1>0, <1>7, <2>1 DEF Ends
  <2>3. QED
    BY <1>7, <2>1, <2>2 DEF Ends, MovesTo, JobOf
<1>8. CASE Crashes
  BY <1>0, <1>8 DEF Crashes
<1>9. ASSUME NEW i \in Jobs, Submits(i) PROVE Kept(j)'
  BY <1>0, <1>9 DEF Submits, Appears
<1>10. CASE CancelMoves
  BY <1>0, <1>10 DEF CancelMoves
<1>11. ASSUME NEW o \in Operators, RetryReads(o) PROVE Kept(j)'
  BY <1>0, <1>11 DEF RetryReads
<1>12. ASSUME NEW o \in Operators, RetryAdds(o) PROVE Kept(j)'
  <2>1. Kept(j)
    BY <1>0, <1>12 DEF RetryAdds
  <2>2. CASE j = dlq[op[o].entry].job
    BY <1>12, <2>2 DEF RetryAdds, Appears
  <2>3. CASE j # dlq[op[o].entry].job
    BY <1>12, <2>1, <2>3 DEF RetryAdds, Appears
  <2>4. QED
    BY <2>2, <2>3
<1>13. ASSUME NEW o \in Operators, RetryRemoves(o) PROVE Kept(j)'
  <2>1. CASE \E e \in DeadLetters : Reviewable(e, j)
    <3>1. PICK e \in DeadLetters : Reviewable(e, j)
      BY <2>1
    <3>2. e # op[o].entry
      BY <1>13, <3>1 DEF RetryRemoves
    <3>3. QED
      BY <1>13, <3>1, <3>2 DEF RetryRemoves
  <2>2. CASE \E d \in Deliveries : LeadsBack(d, j)
    BY <1>13, <2>2 DEF RetryRemoves
  <2>3. QED
    BY <1>0, <1>13, <2>1, <2>2 DEF RetryRemoves
<1>14. QED
  BY <1>1, <1>2, <1>3, <1>4, <1>5, <1>6, <1>7, <1>8, <1>9, <1>10, <1>11, <1>12, <1>13 DEF Effect

-----------------------------------------------------------------------------
(* What puts a delivery into the failed set *)

\* A delivery was given back once for every crash at most, and one that a crash
\* has orphaned was not given back for that crash yet.
Accounted(d) ==
  /\ Excused(d)
  /\ queue[d].stalls <= crashes
  /\ queue[d].state = "active" /\ run[d].pc = "idle" => queue[d].stalls < crashes
  /\ queue[d].state = "unused" => queue[d].stalls = 0

FaultsAccounted == \A d \in Deliveries : Accounted(d)

\* No step takes a fault back, or changes a workflow.
LEMMA FaultsGrow ==
  ASSUME TypeOK, TypeOK', [Next]_vars
  PROVE  workflow' = workflow /\ rejections' >= rejections /\ crashes' >= crashes
<1> USE DEF rows, api, faults
<1>0. rejections \in Nat /\ crashes \in Nat
  BY EngineAssumption DEF TypeOK
<1>1. ASSUME NEW d \in Deliveries, Attempt(d) \/ Recovery(d)
      PROVE  workflow' = workflow /\ rejections' = rejections /\ crashes' = crashes
  BY <1>1 DEF Attempt, HandlerMissing, PersistStepSuccess, StepSucceeds, AttemptFails,
              RecordFailure, MarkRetrying, Recovery, RecoveryResolves, HandleSkip,
              HandleCompensate, CompensateStep, CompensateDone, RecoveryFails, ResolveStep
<1>2. ASSUME NEW d \in Deliveries, Lifecycle(d) \/ StalledCheck(d)
      PROVE  workflow' = workflow /\ rejections' = rejections /\ crashes' = crashes
  BY <1>2 DEF Lifecycle, SkipCancelled, LoadJob, MarkStarted, PollStatus, MarkStepRunning,
              SkipExhausted, FailJob, MoveToDeadLetter, Finalize, Notify, StalledCheck
<1>3. ASSUME NEW d \in Deliveries, Fault(d)
      PROVE  workflow' = workflow /\ rejections' > rejections /\ crashes' = crashes
  BY <1>0, <1>3 DEF Fault, CatchAfterPersist, RecordFailure, RecoveryRejected, RejectedCall
<1>4. CASE CrashWorker
  BY <1>0, <1>4 DEF CrashWorker
<1>5. ASSUME NEW j \in Jobs, Submission(j)
      PROVE  workflow' = workflow /\ rejections' >= rejections /\ crashes' = crashes
  BY <1>0, <1>5 DEF Submission, CreateJob, EnqueueWorkflow, EnqueueFails
<1>6. ASSUME \/ \E c \in Cancellers : Cancellation(c)
             \/ \E o \in Operators : Retry(o)
      PROVE  workflow' = workflow /\ rejections' = rejections /\ crashes' = crashes
  BY <1>6 DEF Cancellation, CancelRead, CancelWrite, Retry, RetryFind, RetryFetch, RetryAdd,
              RetryRemove, RetryReset, RetryAborts
<1>7. CASE UNCHANGED vars
  BY <1>0, <1>7 DEF vars
<1>8. CASE Next
  <2>1. ASSUME NEW d \in Deliveries, Work(d) \/ Fault(d) \/ StalledCheck(d)
        PROVE  workflow' = workflow /\ rejections' >= rejections /\ crashes' >= crashes
    <3>1. rejections \in Nat /\ rejections' \in Nat
      BY EngineAssumption DEF TypeOK
    <3>2. CASE Attempt(d) \/ Recovery(d)
      BY <1>0, <1>1, <3>1, <3>2
    <3>3. CASE Lifecycle(d) \/ StalledCheck(d)
      BY <1>0, <1>2, <3>1, <3>3
    <3>4. CASE Fault(d)
      BY <1>0, <1>3, <3>1, <3>4
    <3> QED BY <2>1, <3>2, <3>3, <3>4 DEF Work
  <2> QED BY <1>0, <1>4, <1>5, <1>6, <1>8, <2>1 DEF Next
<1> QED BY <1>7, <1>8

\* A delivery that BullMQ leaves alone, and that no process has dropped, stays
\* accounted for.
LEMMA AccountKept ==
  ASSUME TypeOK, TypeOK', [Next]_vars, NEW d \in Deliveries, Accounted(d),
         queue'[d] = queue[d], run'[d].pc = "idle" => run[d].pc = "idle"
  PROVE  Accounted(d)'
<1>1. /\ rejections \in Nat /\ rejections' \in Nat /\ crashes \in Nat /\ crashes' \in Nat
      /\ queue[d].stalls \in Nat /\ MaxStalledCount \in Nat
  BY EngineAssumption DEF TypeOK, BullJobs
<1> QED BY <1>1, FaultsGrow DEF Accounted, Excused, JobOf

\* A delivery that ends, for good or by one of the faults, is accounted for.
LEMMA AccountClosed ==
  ASSUME TypeOK, SlotsOK, TypeOK', [Next]_vars, NEW d \in Deliveries, Accounted(d),
         HandlerMissing(d) \/ RejectedCall(d) \/ Notify(d) \/ SkipCancelled(d)
  PROVE  Accounted(d)'
<1>0. /\ rejections \in Nat /\ rejections' \in Nat /\ crashes \in Nat /\ crashes' \in Nat
      /\ queue[d] \in BullJobs /\ queue[d].stalls \in Nat /\ MaxStalledCount \in Nat
  BY EngineAssumption DEF TypeOK, BullJobs
<1>1. PICK st \in {"completed", "failed"} : EndDelivery(d, st)
  BY DEF HandlerMissing, RejectedCall, Notify, SkipCancelled
<1>2. queue'[d].state = st /\ queue'[d].stalls = queue[d].stalls /\ queue'[d].job = queue[d].job
  BY <1>0, <1>1 DEF EndDelivery, TypeOK, BullJobs
<1>3. Excused(d)'
  <2>1. CASE HandlerMissing(d)
    <3>1. StepOf(d) \in Steps /\ ~workflow[JobOf(d)][StepOf(d)].registered
      BY <2>1, SlotFacts DEF HandlerMissing, At, DefOf
    <3> QED BY <1>2, <3>1, FaultsGrow DEF Excused, JobOf
  <2>2. CASE RejectedCall(d)
    <3>1. rejections' > 0
      BY <1>0, <2>2 DEF RejectedCall
    <3> QED BY <3>1 DEF Excused
  <2>3. CASE Notify(d) \/ SkipCancelled(d)
    <3>1. EndDelivery(d, "completed")
      BY <2>3 DEF Notify, SkipCancelled
    <3>2. queue'[d].state = "completed"
      BY <1>0, <3>1 DEF EndDelivery, TypeOK, BullJobs
    <3> QED BY <3>2 DEF Excused
  <2> QED BY <2>1, <2>2, <2>3
<1>4. queue'[d].stalls <= crashes'
  BY <1>0, <1>2, FaultsGrow DEF Accounted
<1> QED BY <1>2, <1>3, <1>4 DEF Accounted

\* A delivery BullMQ finds stalled is accounted for by the crash that orphaned it.
LEMMA AccountStalled ==
  ASSUME TypeOK, TypeOK', NEW d \in Deliveries, Accounted(d), StalledCheck(d)
  PROVE  Accounted(d)'
<1>0. /\ crashes \in Nat /\ queue[d] \in BullJobs /\ queue[d].stalls \in Nat
      /\ MaxStalledCount \in Nat /\ crashes' = crashes
  BY EngineAssumption DEF TypeOK, BullJobs, StalledCheck, faults
<1>1. queue[d].stalls < crashes
  BY DEF Accounted, StalledCheck, At
<1>2. CASE /\ queue[d].stalls < MaxStalledCount
           /\ queue' = [queue EXCEPT ![d].state = "waiting", ![d].stalls = @ + 1]
  <2>1. queue'[d].state = "waiting" /\ queue'[d].stalls = queue[d].stalls + 1
    BY <1>0, <1>2 DEF TypeOK, BullJobs
  <2> QED BY <1>0, <1>1, <2>1 DEF Accounted, Excused
<1>3. CASE /\ queue[d].stalls >= MaxStalledCount
           /\ queue' = [queue EXCEPT ![d].state = "failed"]
  <2>1. queue'[d].state = "failed" /\ queue'[d].stalls = queue[d].stalls
    BY <1>0, <1>3 DEF TypeOK, BullJobs
  <2>2. crashes' > MaxStalledCount
    BY <1>0, <1>1, <1>3
  <2> QED BY <1>0, <1>1, <2>1, <2>2 DEF Accounted, Excused
<1> QED BY <1>2, <1>3 DEF StalledCheck

\* The API and the operators touch a delivery only by adding it.
LEMMA OutsideAdds ==
  ASSUME \/ \E j \in Jobs : Submission(j)
         \/ \E c \in Cancellers : Cancellation(c)
         \/ \E o \in Operators : Retry(o)
  PROVE  run' = run /\ (queue' = queue \/ \E j : AddDelivery(j))
<1>1. ASSUME NEW j \in Jobs, Submission(j) PROVE run' = run /\ (queue' = queue \/ \E i : AddDelivery(i))
  BY <1>1 DEF Submission, CreateJob, EnqueueWorkflow, EnqueueFails
<1>2. ASSUME NEW c \in Cancellers, Cancellation(c) PROVE run' = run /\ queue' = queue
  BY <1>2 DEF Cancellation, CancelRead, CancelWrite
<1>3. ASSUME NEW o \in Operators, Retry(o) PROVE run' = run /\ (queue' = queue \/ \E i : AddDelivery(i))
  <2>1. CASE RetryAdd(o)
    BY <2>1 DEF RetryAdd
  <2> QED BY <1>3, <2>1 DEF Retry, RetryFind, RetryFetch, RetryRemove, RetryReset, RetryAborts
<1> QED BY <1>1, <1>2, <1>3

\* Every step keeps the account of the faults.
LEMMA AccountsStep ==
  ASSUME TypeOK, SlotsOK, TypeOK', FaultsAccounted, [Next]_vars
  PROVE  FaultsAccounted'
<1> SUFFICES ASSUME NEW x \in Deliveries PROVE Accounted(x)'
  BY DEF FaultsAccounted
<1>0. Accounted(x)
  BY DEF FaultsAccounted
<1>1. ASSUME NEW d \in Deliveries, Work(d) \/ Fault(d) \/ StalledCheck(d)
      PROVE  Accounted(x)'
  <2>1. CASE Proceeds(d)
    BY <1>0, <2>1, ProceedsEffect, AccountKept DEF Progress, MovesTo, Unsettled
  <2>2. CASE HandlerMissing(d) \/ RejectedCall(d) \/ Notify(d) \/ SkipCancelled(d)
    <3>1. CASE x = d
      BY <1>0, <2>2, <3>1, AccountClosed
    <3>2. CASE x # d
      BY <1>0, <2>2, <3>2, ClosesEffect, AccountKept DEF Closes, MovesTo, BecomesState
    <3> QED BY <3>1, <3>2
  <2>3. CASE LoadJob(d)
    <3>1. queue' = [queue EXCEPT ![d].state = "active"] /\ run'[d].pc = "loaded" /\ crashes' = crashes
      BY <2>3, LoadsEffect DEF LoadJob, Loads, MovesTo, faults
    <3>2. CASE x = d
      <4>1. queue'[d].state = "active" /\ queue'[d].stalls = queue[d].stalls
        BY <3>1 DEF TypeOK, BullJobs
      <4> QED BY <1>0, <3>1, <3>2, <4>1 DEF Accounted, Excused
    <3>3. CASE x # d
      BY <1>0, <2>3, <3>3, LoadsEffect, AccountKept DEF Loads, MovesTo, BecomesState
    <3> QED BY <3>2, <3>3
  <2>4. CASE StalledCheck(d)
    <3>1. CASE x = d
      BY <1>0, <2>4, <3>1, AccountStalled
    <3>2. CASE x # d
      BY <1>0, <2>4, <3>2, StallsEffect, AccountKept DEF Stalls, BecomesState
    <3> QED BY <3>1, <3>2
  <2>5. CASE FailJob(d) \/ Finalize(d)
    BY <1>0, <2>5, FailEffect, FinalizeEffect, AccountKept DEF Ends, MovesTo
  <2>6. CASE MoveToDeadLetter(d)
    BY <1>0, <2>6, DeadLetterEffect, AccountKept DEF DeadLettered, MovesTo
  <2> QED BY <1>1, <2>1, <2>2, <2>3, <2>4, <2>5, <2>6
          DEF Work, Fault, Attempt, Recovery, Lifecycle, Proceeds
<1>2. CASE CrashWorker
  <2>1. queue' = queue /\ crashes' = crashes + 1 /\ workflow' = workflow /\ rejections' = rejections
    BY <1>2 DEF CrashWorker
  <2>2. crashes \in Nat /\ queue[x].stalls \in Nat /\ MaxStalledCount \in Nat
    BY EngineAssumption DEF TypeOK, BullJobs
  <2> QED BY <1>0, <2>1, <2>2 DEF Accounted, Excused, JobOf
<1>3. ASSUME run' = run, NEW j, AddDelivery(j) PROVE Accounted(x)'
  <2>1. PICK e \in Deliveries :
          /\ queue[e].state = "unused"
          /\ queue' = [queue EXCEPT ![e] = [state |-> "waiting", job |-> j, stalls |-> 0]]
    BY <1>3 DEF AddDelivery, NextId
  <2>2. CASE x = e
    <3>1. queue'[x].state = "waiting" /\ queue'[x].stalls = 0 /\ crashes' \in Nat
      BY <2>1, <2>2, EngineAssumption DEF TypeOK
    <3> QED BY <3>1 DEF Accounted, Excused
  <2>3. CASE x # e
    BY <1>0, <1>3, <2>1, <2>3, AccountKept DEF TypeOK
  <2> QED BY <2>2, <2>3
<1>4. CASE run' = run /\ queue' = queue
  BY <1>0, <1>4, AccountKept
<1> QED BY <1>1, <1>2, <1>3, <1>4, OutsideAdds DEF Next, vars

-----------------------------------------------------------------------------
(* The theorems *)

\* Every value stays of its type, and the slots stay consistent.
THEOREM Typing == Spec => []IInv
<1>1. Init => IInv
  BY InitTypes DEF IInv
<1>2. IInv /\ [Next]_vars => IInv'
  <2> SUFFICES ASSUME TypeOK, SlotsOK, [Next]_vars PROVE TypeOK' /\ SlotsOK'
    BY DEF IInv
  <2>1. CASE Next
    BY <2>1, NextEffect, SlotsStep
  <2>2. CASE UNCHANGED vars
    BY <2>2, StutterStep
  <2>3. QED
    BY <2>1, <2>2
<1>3. QED
  BY <1>1, <1>2, PTL DEF Spec

\* The values of all variables stay in their types (TypeOK of WorkflowEngine).
THEOREM TypeCorrect == Spec => []TypeOK
<1>1. IInv => TypeOK
  BY DEF IInv
<1>2. QED
  BY <1>1, Typing, PTL

\* Every delivery in the failed set is there because of a rejected call, of more
\* crashes than BullMQ forgives or of a step without a handler.
LEMMA AlwaysAccounted == Spec => []FaultsAccounted
<1>1. Init => FaultsAccounted
  BY EngineAssumption DEF Init, FaultsAccounted, Accounted, Excused, Unused
<1>2. IInv /\ IInv' /\ FaultsAccounted /\ [Next]_vars => FaultsAccounted'
  BY AccountsStep DEF IInv
<1>3. QED
  BY <1>1, <1>2, Typing, PTL DEF Spec

\* No job is in progress without a delivery that answers for it, whatever the
\* numbers of jobs, deliveries, operators, cancellations and faults; and without
\* a rejected call, a crash too many or a missing handler it is not the failed set.
THEOREM RunningCarried == Spec => []RunningHasCarrier
<1>1. Init => SomeCarrier
  BY DEF Init, SomeCarrier
<1>2. IInv /\ IInv' /\ SomeCarrier /\ [Next]_vars => SomeCarrier'
  <2> SUFFICES ASSUME IInv, IInv', SomeCarrier, [Next]_vars PROVE SomeCarrier'
    OBVIOUS
  <2>1. CASE Next
    BY <2>1, NextEffect, CarrierStep DEF IInv
  <2>2. CASE UNCHANGED vars
    BY <2>2, StutterStep
  <2>3. QED
    BY <2>1, <2>2
<1>3. FaultsAccounted /\ SomeCarrier => RunningHasCarrier
  BY DEF FaultsAccounted, Accounted, SomeCarrier, RunningHasCarrier
<1>4. QED
  BY <1>1, <1>2, <1>3, AlwaysAccounted, Typing, PTL DEF Spec

\* No FAILED job is ever out of reach of the operators.
THEOREM FailedRecoverable == Spec => []FailedJobIsRecoverable
<1>1. Init => SomeWayBack
  BY DEF Init, SomeWayBack
<1>2. IInv /\ IInv' /\ SomeWayBack /\ [Next]_vars => SomeWayBack'
  <2> SUFFICES ASSUME IInv, IInv', SomeWayBack, [Next]_vars PROVE SomeWayBack'
    OBVIOUS
  <2>1. CASE Next
    BY <2>1, NextEffect, RecoverableStep DEF IInv
  <2>2. CASE UNCHANGED vars
    BY <2>2, StutterStep
  <2>3. QED
    BY <2>1, <2>2
<1>3. FaultsAccounted /\ SomeWayBack => FailedJobIsRecoverable
  BY DEF FaultsAccounted, Accounted, SomeWayBack, FailedJobIsRecoverable
<1>4. QED
  BY <1>1, <1>2, <1>3, AlwaysAccounted, Typing, PTL DEF Spec

-----------------------------------------------------------------------------
(* Locals after a step *)

\* The delivery goes on to pc, at the same step.
Stays(d, pc) ==
  /\ run'[d].pc = pc /\ run'[d].order = run[d].order /\ run'[d].pos = run[d].pos
  /\ \A x \in Deliveries \ {d} : run'[x] = run[x]

LEMMA GotoLocals ==
  ASSUME TypeOK, NEW d \in Deliveries, NEW pc, Goto(d, pc)
  PROVE  Stays(d, pc) /\ run'[d].attempt = run[d].attempt /\ run'[d].todo = run[d].todo
<1>1. run[d] \in Locals
  BY DEF TypeOK
<1> QED BY <1>1 DEF TypeOK, Goto, Stays, Locals

LEMMA NextAttemptLocals ==
  ASSUME TypeOK, NEW d \in Deliveries, NextAttempt(d)
  PROVE  \/ Stays(d, "exhausted") /\ run'[d].attempt = run[d].attempt
         \/ Stays(d, "execute") /\ run'[d].attempt = run[d].attempt + 1
<1>1. run[d] \in Locals
  BY DEF TypeOK
<1>2. CASE LastAttempt(d)
  BY <1>1, <1>2 DEF TypeOK, NextAttempt, Stays, Locals
<1>3. CASE ~LastAttempt(d)
  BY <1>1, <1>3 DEF TypeOK, NextAttempt, Stays, Locals
<1> QED BY <1>2, <1>3

LEMMA AdvanceLocals ==
  ASSUME TypeOK, NEW d \in Deliveries, Advance(d)
  PROVE  /\ run'[d].order = run[d].order
         /\ \A x \in Deliveries \ {d} : run'[x] = run[x]
         /\ \/ run[d].pos = StepCount /\ run'[d].pc = "finalize"
            \/ run[d].pos # StepCount /\ run'[d].pc = "poll" /\ run'[d].pos = run[d].pos + 1
<1>1. run[d] \in Locals
  BY DEF TypeOK
<1> QED BY <1>1 DEF TypeOK, Advance, Locals

-----------------------------------------------------------------------------
(* No delivery goes on forever *)

\* Where a delivery is between its arrival and its end: each redelivery uses up
\* one of the stalls that BullMQ allows it.
PhaseOf(state, pc) ==
  CASE state = "unused"  -> 6
    [] state = "waiting" -> 5
    [] state = "active"  -> (CASE pc = "idle"                       -> 1
                               [] pc = "notify"                     -> 2
                               [] pc \in {"finalize", "deadletter"} -> 3
                               [] OTHER                             -> 4)
    [] OTHER             -> 0

Phase(d) == 5 * (MaxStalledCount - queue[d].stalls) + PhaseOf(queue[d].state, run[d].pc)

\* What is left of an attempt at a step.
Stage(pc) ==
  CASE pc = "loaded"     -> 9
    [] pc = "poll"       -> 8
    [] pc = "begin"      -> 7
    [] pc = "execute"    -> 6
    [] pc = "persisted"  -> 5
    [] pc = "retrying"   -> 4
    [] pc = "recover"    -> 3
    [] pc = "compensate" -> 2
    [] OTHER             -> 1

\* The delivery gets nearer to its end: in its phase or, in that, at a later
\* step or, at that, in a later attempt or, of that, at a later stage or with
\* fewer steps to compensate.
Nearer(d) ==
  \/ Phase(d)' < Phase(d)
  \/ /\ Phase(d)' = Phase(d)
     /\ \/ run'[d].pos > run[d].pos
        \/ /\ run'[d].pos = run[d].pos
           /\ \/ run'[d].attempt > run[d].attempt
              \/ /\ run'[d].attempt = run[d].attempt
                 /\ \/ Stage(run'[d].pc) < Stage(run[d].pc)
                    \/ /\ run'[d].pc = run[d].pc
                       /\ run'[d].todo \subseteq run[d].todo /\ run'[d].todo # run[d].todo

\* Every step of the engine, the API, BullMQ or an operator leaves a delivery
\* alone or brings it nearer to its end.
DeliveriesRunDown ==
  [][ \A d \in Deliveries : Nearer(d) \/ (run'[d] = run[d] /\ queue'[d] = queue[d]) ]_vars

\* The kinds of steps that move a delivery: the loop goes on, ...
LoopSteps(d) ==
  \/ MarkStarted(d) \/ PollStatus(d) \/ MarkStepRunning(d) \/ PersistStepSuccess(d)
  \/ AttemptFails(d) \/ CatchAfterPersist(d) \/ MarkRetrying(d) \/ RecoveryResolves(d)
  \/ HandleSkip(d) \/ CompensateDone(d)

LEMMA StageFacts == ASSUME NEW pc PROVE Stage(pc) \in 1..9
BY DEF Stage

\* A step inside an attempt: a later stage of the same attempt, or the loop
\* over the steps is left for a cancelled job.
LEMMA LoopDown ==
  ASSUME TypeOK, NEW d \in Deliveries, LoopSteps(d)
  PROVE  /\ run[d].pc \in Unsettled \ {"finalize"} /\ queue' = queue
         /\ run'[d].pc \in Unsettled
         /\ run'[d].pos = run[d].pos /\ run'[d].attempt = run[d].attempt
         /\ run'[d].pc = "finalize" \/ Stage(run'[d].pc) < Stage(run[d].pc)
         /\ \A x \in Deliveries \ {d} : run'[x] = run[x]
<1>1. ASSUME NEW pc \in Unsettled, NEW to \in Unsettled, run[d].pc = pc, Goto(d, to), queue' = queue,
             pc # "finalize", to = "finalize" \/ Stage(to) < Stage(pc)
      PROVE  /\ run[d].pc \in Unsettled \ {"finalize"} /\ queue' = queue
             /\ run'[d].pc \in Unsettled
             /\ run'[d].pos = run[d].pos /\ run'[d].attempt = run[d].attempt
             /\ run'[d].pc = "finalize" \/ Stage(run'[d].pc) < Stage(run[d].pc)
             /\ \A x \in Deliveries \ {d} : run'[x] = run[x]
  <2>1. Stays(d, to) /\ run'[d].attempt = run[d].attempt
    BY <1>1, GotoLocals
  <2> QED BY <1>1, <2>1 DEF Stays
<1>2. CASE MarkStarted(d)
  BY <1>1, <1>2 DEF MarkStarted, At, Stage, Unsettled
<1>3. CASE PollStatus(d)
  <2>1. run[d].pc = "poll" /\ queue' = queue /\ (Goto(d, "finalize") \/ Goto(d, "begin"))
    BY <1>3 DEF PollStatus, At
  <2> QED BY <1>1, <2>1 DEF Stage, Unsettled
<1>4. CASE MarkStepRunning(d)
  BY <1>1, <1>4 DEF MarkStepRunning, At, Stage, Unsettled
<1>5. CASE PersistStepSuccess(d)
  BY <1>1, <1>5 DEF PersistStepSuccess, At, Stage, Unsettled
<1>6. CASE AttemptFails(d) \/ CatchAfterPersist(d)
  <2>1. /\ run[d].pc \in {"execute", "persisted"} /\ queue' = queue
        /\ Goto(d, "recover") \/ Goto(d, "retrying")
    BY <1>6 DEF AttemptFails, CatchAfterPersist, RecordFailure, At
  <2>2. Stage("recover") < Stage(run[d].pc) /\ Stage("retrying") < Stage(run[d].pc)
    BY <2>1 DEF Stage
  <2> QED BY <1>1, <2>1, <2>2 DEF Unsettled
<1>7. CASE MarkRetrying(d)
  BY <1>1, <1>7 DEF MarkRetrying, At, Stage, Unsettled
<1>8. CASE RecoveryResolves(d)
  BY <1>1, <1>8 DEF RecoveryResolves, At, Stage, Unsettled
<1>9. CASE HandleSkip(d)
  BY <1>1, <1>9 DEF HandleSkip, At, Stage, Unsettled
<1>10. CASE CompensateDone(d)
  BY <1>1, <1>10 DEF CompensateDone, At, Stage, Unsettled
<1> QED BY <1>2, <1>3, <1>4, <1>5, <1>6, <1>7, <1>8, <1>9, <1>10 DEF LoopSteps

\* What the phase is made of.
LEMMA PhaseFacts ==
  ASSUME NEW state, NEW pc
  PROVE  /\ PhaseOf(state, pc) \in 0..6
         /\ PhaseOf("unused", pc) = 6 /\ PhaseOf("waiting", pc) = 5
         /\ PhaseOf("completed", pc) = 0 /\ PhaseOf("failed", pc) = 0
         /\ PhaseOf("active", "idle") = 1 /\ PhaseOf("active", "notify") = 2
         /\ PhaseOf("active", "finalize") = 3 /\ PhaseOf("active", "deadletter") = 3
         /\ pc \in Unsettled \ {"finalize"} => PhaseOf("active", pc) = 4
<1>1. PhaseOf(state, pc) \in 0..6
  BY DEF PhaseOf
<1>2. /\ PhaseOf("unused", pc) = 6 /\ PhaseOf("waiting", pc) = 5
      /\ PhaseOf("completed", pc) = 0 /\ PhaseOf("failed", pc) = 0
  <2>1. PhaseOf("unused", pc) = 6
    BY DEF PhaseOf
  <2>2. PhaseOf("waiting", pc) = 5
    BY DEF PhaseOf
  <2>3. PhaseOf("completed", pc) = 0
    BY DEF PhaseOf
  <2>4. PhaseOf("failed", pc) = 0
    BY DEF PhaseOf
  <2> QED BY <2>1, <2>2, <2>3, <2>4
<1>3. /\ PhaseOf("active", "idle") = 1 /\ PhaseOf("active", "notify") = 2
      /\ PhaseOf("active", "finalize") = 3 /\ PhaseOf("active", "deadletter") = 3
  <2>1. PhaseOf("active", "idle") = 1
    BY DEF PhaseOf
  <2>2. PhaseOf("active", "notify") = 2
    BY DEF PhaseOf
  <2>3. PhaseOf("active", "finalize") = 3
    BY DEF PhaseOf
  <2>4. PhaseOf("active", "deadletter") = 3
    BY DEF PhaseOf
  <2> QED BY <2>1, <2>2, <2>3, <2>4
<1>4. pc \in Unsettled \ {"finalize"} => PhaseOf("active", pc) = 4
  BY DEF PhaseOf, Unsettled
<1> QED BY <1>1, <1>2, <1>3, <1>4

\* A step that uses up no stall.
LEMMA PhaseMoves ==
  ASSUME TypeOK, NEW d \in Deliveries, queue'[d].stalls = queue[d].stalls
  PROVE  /\ PhaseOf(queue'[d].state, run'[d].pc) < PhaseOf(queue[d].state, run[d].pc)
              => Phase(d)' < Phase(d)
         /\ PhaseOf(queue'[d].state, run'[d].pc) = PhaseOf(queue[d].state, run[d].pc)
              => Phase(d)' = Phase(d)
<1>1. queue[d].stalls \in 0..MaxStalledCount /\ MaxStalledCount \in Nat
  BY EngineAssumption DEF TypeOK, BullJobs
<1>2. /\ PhaseOf(queue[d].state, run[d].pc) \in 0..6
      /\ PhaseOf(queue'[d].state, run'[d].pc) \in 0..6
  BY PhaseFacts
<1>3. Phase(d)' = 5 * (MaxStalledCount - queue'[d].stalls) + PhaseOf(queue'[d].state, run'[d].pc)
  BY DEF Phase
<1> QED BY <1>1, <1>2, <1>3 DEF Phase

\* The deliveries that are not looked at stay where they are.
OthersStay(d) == \A x \in Deliveries \ {d} : run'[x] = run[x] /\ queue'[x] = queue[x]

\* The worker goes on with a delivery.
LEMMA ProceedsNearer ==
  ASSUME TypeOK, SlotsOK, NEW d \in Deliveries, Proceeds(d)
  PROVE  Nearer(d) /\ OthersStay(d)
<1>1. run[d] \in Locals
  BY DEF TypeOK
<1>2. ASSUME run[d].pc \in Unsettled \ {"finalize"}, queue' = queue, run'[d].pc = "finalize"
      PROVE  Phase(d)' < Phase(d)
  <2>1. queue[d].state = "active"
    BY <1>2, SlotFacts DEF Unsettled
  <2> QED BY <1>2, <2>1, PhaseFacts, PhaseMoves
<1>3. ASSUME run[d].pc \in Unsettled \ {"finalize"}, queue' = queue,
             run'[d].pc \in Unsettled \ {"finalize"}
      PROVE  Phase(d)' = Phase(d)
  <2>1. queue[d].state = "active"
    BY <1>3, SlotFacts DEF Unsettled
  <2> QED BY <1>3, <2>1, PhaseFacts, PhaseMoves
<1>4. CASE LoopSteps(d)
  <2>1. OthersStay(d)
    BY <1>4, LoopDown DEF OthersStay
  <2>2. CASE run'[d].pc = "finalize"
    BY <1>2, <1>4, <2>1, <2>2, LoopDown DEF Nearer
  <2>3. CASE run'[d].pc # "finalize"
    <3>1. Phase(d)' = Phase(d)
      BY <1>3, <1>4, <2>3, LoopDown
    <3> QED BY <1>4, <2>1, <2>3, <3>1, LoopDown DEF Nearer
  <2> QED BY <2>2, <2>3
<1>5. CASE StepSucceeds(d) \/ ResolveStep(d) \/ SkipExhausted(d)
  <2>1. /\ run[d].pc \in {"persisted", "resolved", "skipped", "exhausted"} /\ queue' = queue
        /\ Advance(d)
    BY <1>5 DEF StepSucceeds, ResolveStep, SkipExhausted, At
  <2>2. OthersStay(d)
    BY <2>1, AdvanceLocals DEF OthersStay
  <2>3. CASE run'[d].pc = "finalize"
    BY <1>2, <2>1, <2>2, <2>3 DEF Nearer, Unsettled
  <2>4. CASE run'[d].pc = "poll" /\ run'[d].pos = run[d].pos + 1
    <3>1. Phase(d)' = Phase(d)
      BY <1>3, <2>1, <2>4 DEF Unsettled
    <3>2. run[d].pos \in Nat
      BY <1>1 DEF Locals, Steps
    <3>3. run'[d].pos > run[d].pos
      BY <2>4, <3>2
    <3> QED BY <2>2, <3>1, <3>3 DEF Nearer
  <2> QED BY <2>1, <2>3, <2>4, AdvanceLocals
<1>6. CASE RecoveryFails(d) \/ RecoveryRejected(d)
  <2>1. run[d].pc \in {"recover", "compensate"} /\ queue' = queue /\ NextAttempt(d)
    BY <1>6 DEF RecoveryFails, RecoveryRejected, At
  <2>2. run'[d].pc \in {"exhausted", "execute"} /\ run'[d].pos = run[d].pos /\ OthersStay(d)
    BY <2>1, NextAttemptLocals DEF Stays, OthersStay
  <2>3. Phase(d)' = Phase(d)
    BY <1>3, <2>1, <2>2 DEF Unsettled
  <2>4. CASE run'[d].pc = "exhausted" /\ run'[d].attempt = run[d].attempt
    <3>1. Stage(run'[d].pc) < Stage(run[d].pc)
      BY <2>1, <2>4 DEF Stage
    <3> QED BY <2>2, <2>3, <2>4, <3>1 DEF Nearer
  <2>5. CASE run'[d].attempt = run[d].attempt + 1
    <3>1. run'[d].attempt > run[d].attempt
      BY <1>1, <2>5 DEF Locals
    <3> QED BY <2>2, <2>3, <3>1 DEF Nearer
  <2> QED BY <2>1, <2>4, <2>5, NextAttemptLocals DEF Stays
<1>7. CASE HandleCompensate(d)
  <2>1. PICK todo : /\ run[d].pc = "recover" /\ queue' = queue
                    /\ run' = [run EXCEPT ![d].pc = "compensate", ![d].todo = todo]
    BY <1>7 DEF HandleCompensate, At
  <2>2. /\ run'[d].pc = "compensate" /\ run'[d].pos = run[d].pos
        /\ run'[d].attempt = run[d].attempt /\ OthersStay(d)
    BY <1>1, <2>1 DEF TypeOK, Locals, OthersStay
  <2>3. Phase(d)' = Phase(d) /\ Stage(run'[d].pc) < Stage(run[d].pc)
    BY <1>3, <2>1, <2>2 DEF Unsettled, Stage
  <2> QED BY <2>2, <2>3 DEF Nearer
<1>8. CASE CompensateStep(d)
  <2>1. PICK s \in run[d].todo : /\ run[d].pc = "compensate" /\ queue' = queue
                                 /\ run' = [run EXCEPT ![d].todo = @ \ {s}]
    BY <1>8 DEF CompensateStep, At
  <2>2. /\ run'[d].pc = "compensate" /\ run'[d].pos = run[d].pos
        /\ run'[d].attempt = run[d].attempt /\ OthersStay(d)
        /\ run'[d].todo = run[d].todo \ {s}
    BY <1>1, <2>1 DEF TypeOK, Locals, OthersStay
  <2>3. Phase(d)' = Phase(d)
    BY <1>3, <2>1, <2>2 DEF Unsettled
  <2> QED BY <2>1, <2>2, <2>3 DEF Nearer
<1> QED BY <1>4, <1>5, <1>6, <1>7, <1>8 DEF Proceeds, LoopSteps

\* The worker ends a job, or ends or loads a delivery; BullMQ finds it stalled.
LEMMA EndsNearer ==
  ASSUME TypeOK, SlotsOK, NEW d \in Deliveries,
         \/ HandlerMissing(d) \/ RejectedCall(d) \/ Notify(d) \/ SkipCancelled(d) \/ LoadJob(d)
         \/ FailJob(d) \/ Finalize(d) \/ MoveToDeadLetter(d) \/ StalledCheck(d)
  PROVE  Nearer(d) /\ OthersStay(d)
<1>1. queue[d] \in BullJobs /\ run[d] \in Locals
  BY DEF TypeOK
<1>2. CASE HandlerMissing(d) \/ RejectedCall(d) \/ Notify(d) \/ SkipCancelled(d)
  <2>1. PICK st \in {"completed", "failed"} : EndDelivery(d, st)
    BY <1>2 DEF HandlerMissing, RejectedCall, Notify, SkipCancelled
  <2>2. queue'[d].state = st /\ queue'[d].stalls = queue[d].stalls /\ OthersStay(d)
    BY <1>1, <2>1 DEF EndDelivery, TypeOK, BullJobs, OthersStay
  <2>3. queue[d].state \in {"active", "waiting"}
    BY <1>2, SlotFacts DEF HandlerMissing, RejectedCall, Notify, SkipCancelled, CanStart, At
  <2>4. PhaseOf(queue'[d].state, run'[d].pc) = 0
    BY <2>1, <2>2, PhaseFacts
  <2>5. PhaseOf(queue[d].state, run[d].pc) > 0
    BY <2>3 DEF PhaseOf
  <2>6. Phase(d)' < Phase(d)
    BY <2>2, <2>4, <2>5, PhaseMoves
  <2> QED BY <2>2, <2>6 DEF Nearer
<1>3. CASE LoadJob(d)
  <2>1. /\ queue[d].state = "waiting" /\ queue' = [queue EXCEPT ![d].state = "active"]
        /\ \E r : run' = [run EXCEPT ![d] = r] /\ r.pc = "loaded"
    <3>1. PICK order \in LoadOrders :
            run' = [run EXCEPT ![d] = [IdleRun EXCEPT !.pc = "loaded", !.order = order]]
      BY <1>3 DEF LoadJob
    <3>2. [IdleRun EXCEPT !.pc = "loaded", !.order = order].pc = "loaded"
      BY DEF IdleRun
    <3> QED BY <1>3, <3>1, <3>2 DEF LoadJob, CanStart
  <2>2. /\ queue'[d].state = "active" /\ queue'[d].stalls = queue[d].stalls /\ OthersStay(d)
        /\ run'[d].pc = "loaded"
    BY <1>1, <2>1 DEF TypeOK, BullJobs, OthersStay
  <2>3. Phase(d)' < Phase(d)
    BY <2>1, <2>2, PhaseFacts, PhaseMoves DEF Unsettled
  <2> QED BY <2>2, <2>3 DEF Nearer
<1>4. CASE FailJob(d)
  <2>1. run[d].pc = "exhausted" /\ Goto(d, "deadletter") /\ queue' = queue
    BY <1>4 DEF FailJob, At
  <2>2. queue[d].state = "active" /\ run'[d].pc = "deadletter" /\ OthersStay(d)
    BY <2>1, SlotFacts, GotoLocals DEF Stays, OthersStay
  <2>3. Phase(d)' < Phase(d)
    BY <2>1, <2>2, PhaseFacts, PhaseMoves DEF Unsettled
  <2> QED BY <2>2, <2>3 DEF Nearer
<1>5. CASE Finalize(d) \/ MoveToDeadLetter(d)
  <2>1. run[d].pc \in {"finalize", "deadletter"} /\ Goto(d, "notify") /\ queue' = queue
    BY <1>5 DEF Finalize, MoveToDeadLetter, At
  <2>2. queue[d].state = "active" /\ run'[d].pc = "notify" /\ OthersStay(d)
    BY <2>1, SlotFacts, GotoLocals DEF Stays, OthersStay
  <2>3. Phase(d)' < Phase(d)
    BY <2>1, <2>2, PhaseFacts, PhaseMoves
  <2> QED BY <2>2, <2>3 DEF Nearer
<1>6. CASE StalledCheck(d)
  <2>1. queue[d].state = "active" /\ run[d].pc = "idle" /\ run' = run /\ OthersStay(d)
    BY <1>6 DEF StalledCheck, At, TypeOK, OthersStay
  <2>2. CASE queue' = [queue EXCEPT ![d].state = "failed"]
    <3>1. queue'[d].state = "failed" /\ queue'[d].stalls = queue[d].stalls
      BY <1>1, <2>2 DEF TypeOK, BullJobs
    <3>2. Phase(d)' < Phase(d)
      BY <2>1, <3>1, PhaseFacts, PhaseMoves
    <3> QED BY <2>1, <3>2 DEF Nearer
  <2>3. CASE queue' = [queue EXCEPT ![d].state = "waiting", ![d].stalls = @ + 1]
    <3>1. queue'[d].state = "waiting" /\ queue'[d].stalls = queue[d].stalls + 1
      BY <1>1, <2>3 DEF TypeOK, BullJobs
    <3>2. queue[d].stalls \in Nat /\ MaxStalledCount \in Nat
      BY <1>1, EngineAssumption DEF BullJobs
    <3>3. Phase(d) = 5 * (MaxStalledCount - queue[d].stalls) + 1
      BY <2>1, PhaseFacts DEF Phase
    <3>4. Phase(d)' = 5 * (MaxStalledCount - queue'[d].stalls) + 5
      <4>1. Phase(d)' = 5 * (MaxStalledCount - queue'[d].stalls) + PhaseOf(queue'[d].state, run'[d].pc)
        BY DEF Phase
      <4> QED BY <3>1, <4>1, PhaseFacts
    <3>5. Phase(d)' < Phase(d)
      BY <3>1, <3>2, <3>3, <3>4
    <3> QED BY <2>1, <3>5 DEF Nearer
  <2> QED BY <1>6, <2>2, <2>3 DEF StalledCheck
<1> QED BY <1>2, <1>3, <1>4, <1>5, <1>6

\* A delivery that no process runs has no locals, and one that was not added
\* has not stalled.
Parked ==
  \A d \in Deliveries : /\ run[d].pc = "idle" => run[d] = IdleRun
                        /\ queue[d].state = "unused" => queue[d].stalls = 0

\* A crash takes the locals of what was running and nothing else.
LEMMA CrashNearer ==
  ASSUME TypeOK, SlotsOK, Parked, CrashWorker, NEW d \in Deliveries
  PROVE  Nearer(d) \/ (run'[d] = run[d] /\ queue'[d] = queue[d])
<1>1. queue' = queue /\ run'[d] = IdleRun /\ run'[d].pc = "idle"
  BY DEF CrashWorker, IdleRun
<1>2. CASE run[d].pc = "idle"
  BY <1>1, <1>2 DEF Parked
<1>3. CASE run[d].pc # "idle"
  <2>1. queue[d].state = "active" /\ run[d].pc \in RunPcs
    BY <1>3, SlotFacts DEF TypeOK, Locals
  <2>2. PhaseOf("active", run[d].pc) > 1
    BY <1>3, <2>1 DEF PhaseOf
  <2>3. Phase(d)' < Phase(d)
    BY <1>1, <2>1, <2>2, PhaseFacts, PhaseMoves
  <2> QED BY <2>3 DEF Nearer
<1> QED BY <1>2, <1>3

\* A delivery that is added begins; the others wait for nothing.
LEMMA AddNearer ==
  ASSUME TypeOK, Parked, NEW j, AddDelivery(j), run' = run, NEW d \in Deliveries
  PROVE  Nearer(d) \/ (run'[d] = run[d] /\ queue'[d] = queue[d])
<1>1. PICK e \in Deliveries :
        /\ queue[e].state = "unused"
        /\ queue' = [queue EXCEPT ![e] = [state |-> "waiting", job |-> j, stalls |-> 0]]
  BY DEF AddDelivery, NextId
<1>2. CASE d # e
  BY <1>1, <1>2 DEF TypeOK
<1>3. CASE d = e
  <2>1. queue'[d].state = "waiting" /\ queue'[d].stalls = queue[d].stalls /\ queue[d].state = "unused"
    BY <1>1, <1>3 DEF TypeOK, Parked
  <2>2. Phase(d)' < Phase(d)
    BY <2>1, PhaseFacts, PhaseMoves
  <2> QED BY <2>2 DEF Nearer
<1> QED BY <1>2, <1>3

LEMMA ParkedStep ==
  ASSUME TypeOK, SlotsOK, Parked, [Next]_vars
  PROVE  Parked'
<1>1. ASSUME NEW d \in Deliveries, Work(d) \/ Fault(d) \/ StalledCheck(d) PROVE Parked'
  <2>1. CASE Proceeds(d)
    BY <2>1, ProceedsEffect DEF Progress, MovesTo, Parked, Unsettled
  <2>2. CASE HandlerMissing(d) \/ RejectedCall(d) \/ Notify(d) \/ SkipCancelled(d)
    <3>1. PICK st \in {"completed", "failed"} : EndDelivery(d, st)
      BY <2>2 DEF HandlerMissing, RejectedCall, Notify, SkipCancelled
    <3>2. run'[d] = IdleRun
      BY <3>1 DEF EndDelivery, TypeOK
    <3> QED BY <3>1, <3>2, EndEffect DEF MovesTo, BecomesState, Parked
  <2>3. CASE LoadJob(d)
    BY <2>3, LoadsEffect DEF Loads, MovesTo, BecomesState, Parked
  <2>4. CASE StalledCheck(d)
    BY <2>4, StallsEffect DEF Stalls, BecomesState, Parked
  <2>5. CASE FailJob(d) \/ Finalize(d)
    BY <2>5, FailEffect, FinalizeEffect DEF Ends, MovesTo, Parked
  <2>6. CASE MoveToDeadLetter(d)
    BY <2>6, DeadLetterEffect DEF DeadLettered, MovesTo, Parked
  <2> QED BY <1>1, <2>1, <2>2, <2>3, <2>4, <2>5, <2>6 DEF Work, Fault, Attempt, Recovery, Lifecycle, Proceeds
<1>2. CASE CrashWorker
  BY <1>2 DEF CrashWorker, Parked
<1>3. ASSUME run' = run, NEW j, AddDelivery(j) PROVE Parked'
  <2>1. PICK e \in Deliveries :
          queue' = [queue EXCEPT ![e] = [state |-> "waiting", job |-> j, stalls |-> 0]]
    BY <1>3 DEF AddDelivery
  <2> QED BY <1>3, <2>1 DEF TypeOK, Parked
<1>4. CASE run' = run /\ queue' = queue
  BY <1>4 DEF Parked
<1> QED BY <1>1, <1>2, <1>3, <1>4, OutsideAdds DEF Next, vars

\* The safety half of why a delivery ends, for every workflow, number of steps,
\* crash and fault: whatever the worker, BullMQ, the API and the operators do,
\* each step brings a delivery nearer to its end or leaves it alone.  A round of
\* the attempt loop uses up an attempt, a redelivery one of BullMQ's stalls, a
\* compensation one of the steps; so none of the loops can go round for good
\* (worker 98-205, 226-342).
THEOREM DeliveriesRunOut ==
  Spec => [](\A d \in Deliveries : Phase(d) \in 0..(5 * MaxStalledCount + 6)) /\ DeliveriesRunDown
<1>1. IInv => \A d \in Deliveries : Phase(d) \in 0..(5 * MaxStalledCount + 6)
  <2> SUFFICES ASSUME IInv, NEW d \in Deliveries PROVE Phase(d) \in 0..(5 * MaxStalledCount + 6)
    OBVIOUS
  <2>1. /\ queue[d].stalls \in 0..MaxStalledCount /\ MaxStalledCount \in Nat
        /\ PhaseOf(queue[d].state, run[d].pc) \in 0..6
    BY EngineAssumption, PhaseFacts DEF IInv, TypeOK, BullJobs
  <2> QED BY <2>1 DEF Phase
<1>2. Init => Parked
  BY DEF Init, Parked, Unused
<1>3. IInv /\ Parked /\ [Next]_vars => Parked'
  BY ParkedStep DEF IInv
<1>4. ASSUME IInv, Parked, Next, NEW d \in Deliveries
      PROVE  Nearer(d) \/ (run'[d] = run[d] /\ queue'[d] = queue[d])
  <2>1. ASSUME NEW x \in Deliveries, Work(x) \/ Fault(x) \/ StalledCheck(x)
        PROVE  Nearer(d) \/ (run'[d] = run[d] /\ queue'[d] = queue[d])
    <3>1. Nearer(x) /\ OthersStay(x)
      BY <1>4, <2>1, ProceedsNearer, EndsNearer
      DEF IInv, Work, Fault, Attempt, Recovery, Lifecycle, Proceeds
    <3> QED BY <3>1 DEF OthersStay
  <2>2. CASE CrashWorker
    BY <1>4, <2>2, CrashNearer DEF IInv
  <2>3. CASE run' = run /\ \E j : AddDelivery(j)
    BY <1>4, <2>3, AddNearer DEF IInv
  <2> QED BY <1>4, <2>1, <2>2, <2>3, OutsideAdds DEF Next
<1>5. IInv /\ Parked /\ [Next]_vars =>
        [ \A d \in Deliveries : Nearer(d) \/ (run'[d] = run[d] /\ queue'[d] = queue[d]) ]_vars
  BY <1>4
<1> QED BY <1>1, <1>2, <1>3, <1>5, Typing, PTL DEF Spec, DeliveriesRunDown
=============================================================================
