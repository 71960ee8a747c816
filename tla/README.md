# A formal model of the failure recovery engine

This directory models the failure recovery engine (`src/backend`, NestJS, Prisma, BullMQ; its
seeder; the dashboard in `src/frontend`) in TLA+, checks the model with TLC and proves its safety
invariants, and the refinement of two abstract specifications, with TLAPS. Paths and line numbers
below are relative to `src/backend/src` unless they begin with `src/`; `worker` is `modules/workers/workflow-worker.service.ts`, `recovery.service` and
`recovery.utils` are in `modules/recovery`.

## 1. The system

A client submits a *job*, an instance of a *workflow* whose *steps* each have a type, a
configuration and perhaps a *recovery policy*. The API writes the job and its steps and adds a
delivery to a BullMQ queue. A worker process takes deliveries, up to `WORKER_CONCURRENCY` at a
time, and carries the job through its steps; a step that fails goes to the recovery service,
which answers with a strategy; a job whose critical step could not be recovered is FAILED and
goes to a dead-letter queue, from which operators retry it. At the end a webhook is posted.

| component | state it keeps | operations | talks to |
|---|---|---|---|
| Job submission and cancellation (`modules/jobs`) | rows `Job`, `JobStep` | `create`, `cancel`; lists and counts | queue, audit log |
| Queues (`modules/queue`) | the Redis queues `workflow` and `dead-letter` | `enqueueWorkflow`, `moveToDeadLetter`, `retryFromDeadLetter` | Redis |
| Job worker (`modules/workers`) | locals of `processJob` per delivery; writes `Job`, `JobStep` | `processJob`, `runSteps`, `executeStepWithRecovery`, `finalize`, `notifyTerminalStatus` | handlers, recovery, queue, audit log, webhooks |
| Step handlers (`modules/workers/handlers`) | none | `execute` of LLM_CALL, TOOL_INVOKE and the simulated types | providers and tools over HTTP |
| Recovery (`modules/recovery`) | rows `Incident`, `RecoveryAttempt`; writes `JobStep` | `execute`: choose a strategy, run its handler, find or create the incident, file the attempt | audit log, simulator |
| Dead-letter retry (`modules/dead-letter`) | none | `retry`: read, add, remove, reset the job | queue, `Job` |
| Incidents (`modules/incidents`) | rows `Incident` | `resolve` | |
| Idempotency (`common/idempotency`) | rows `idempotency_keys` | `intercept`, `persist` around `POST /jobs` | jobs |
| Webhooks (`modules/webhooks`) | rows `WebhookDelivery` | `dispatch`: sign, insert, post and retry, update | the receiver, API keys |
| Tenants and API keys (`modules/tenants`) | rows `Tenant`, `ApiKey` | `create`, `issueKey`, `revokeKey` | |
| Authentication, error mapping (`common/auth`, `common/filters`) | none | `canActivate` binds a request to a tenant; `catch` turns what was thrown into a status | API keys |
| Workflow definitions (`modules/workflows`) | rows `Workflow`, `WorkflowStep`, `RecoveryPolicy` | `create`, `remove`; lists | jobs refer to them |
| Service health (`modules/service-health`) | rows `ServiceHealth` | `upsert`; the worker reads all once per delivery | |
| Seeder (`src/backend/prisma/seed.ts`) | none | tenant, bootstrap key, services, three workflows | the same tables |
| Audit log (`modules/audit`) | rows `AuditLog` | `log` | everyone writes, pages read |
| Dashboard (`src/frontend`) | the browser's query cache | polls, Run, Resolve, Retry, set a service | the API |
| Configuration, metrics, logging | -- | wiring and output | |

What is hard about it, in short (the list with lines is in `PROJECT.json`, "hazards"):

* nothing is a transaction: each handler is a chain of awaited writes to a database and a queue,
  and each of them may reject, or be the last thing before a crash;
* job status is written by five parties (submission, cancellation, worker, operator's retry,
  and a second delivery of the same job), each of which acts on a status it read earlier;
* BullMQ delivers again after a crash, and an operator's double click or a half-finished retry
  delivers a job twice, so that two runs of the same step overlap;
* recovery re-executes steps, writes the same rows as the worker, and its own audit writes can
  fail in the middle of it;
* a successful step whose audit write rejects is treated as a failed one;
* idempotency is look-up, then the whole handler, then an insert nobody waits for;
* look-up and write are two calls in the tables that requests and seeders share, too: only unique
  indexes, foreign keys and the tenant in each `where` hold them together;
* the operator acts on a page that shows what the server said up to ten seconds ago.

What makes each part correct:

* *engine*: a job in progress is always carried by a delivery; a FAILED job can be found again;
  COMPLETED means that every step was settled, and a critical one skipped only by its policy;
  settled steps are not run again; terminal statuses stay; the webhook tells of an end; deliveries
  end and jobs come to rest;
* *recovery*: the loop keeps the policy's bound; every failure is answered and on record exactly
  once, under an incident that exists; a step is settled only for a reason that is in the log;
  hints reach the call they are meant for; every run ends;
* *idempotency*: replays are faithful, agree, and once a row is stored no later request creates a job;
* *webhooks*: row, log and receiver agree, what was accepted is not sent again, retired keys do
  not sign, and dispatching ends;
* *shared tables*: a request changes rows of its own tenant only; a job keeps a workflow of its
  tenant with steps; what a request was told holds; seeding leaves everything once, and a key;
* *dashboard*: a stale list does not make anything happen twice; what was resolved is not offered
  again; every page catches up.

## 2. Modules

| module | models | 
|---|---|
| `RecoveryPolicy` | the pure part of recovery: policies, `selectStrategy`, the attempt bound, what a strategy may answer |
| `WorkflowEngine` | submission, cancellation, both queues, the worker, step rows, operators, crashes |
| `JobContract` | abstract: what the engine promises of a job, in terms of tickets and letters |
| `WorkflowEngineProps` | the engine's invariants, action properties and liveness, and the refinement mapping to `JobContract` |
| `WorkflowEngineProofs`, `JobOutcomeProofs` | TLAPS proofs about it: carriers and recoverability; what the rows of a job that has ended say, and that the engine implements `JobContract` |
| `StepContract` | abstract: what executing a step with recovery promises |
| `StepHandlers` | which model and prompt an LLM_CALL sends, when a handler may answer, what it may throw, how `classifyFailure` reads that |
| `StepRecovery` | one step in detail: attempt loop, recovery service, incidents, recovery attempts, audit entries |
| `StepRecoveryProps` | its properties, and the refinement mapping to `StepContract` |
| `IdempotentRequests` | requests with one idempotency key |
| `WebhookDelivery` | dispatches of one job's webhook, and the tenant's keys |
| `AdminApi` | tenants, keys, workflows, the creation of jobs and service statuses, and whose jobs, entries and incidents a request may write, as guard, handlers and error filter see them, beside the seeder |
| `Dashboard` | one browser: cached queries, polling, buttons, mutations |
| `StepRecoveryProofs`, `StepIncidentProofs`, `IdempotentRequestsProofs`, `WebhookDeliveryProofs`, `AdminApiProofs`, `DashboardProofs` | TLAPS proofs about the modules they are named for |
| `MC...` | values of the constants for TLC |

`WorkflowEngine` and `StepRecovery` are two views of the same loop. The engine has many jobs,
deliveries and steps, and sees recovery only as far as it writes job and step rows;
`StepRecovery` has one step and sees everything around it. Both extend `RecoveryPolicy`, so that
the choice of a strategy and what it may answer are the same definitions in both.

### WorkflowEngine

An action is the code between two awaits others can come between: at most one write to the
database or a queue.

* `jobStatus`, `stepStatus`: the rows. `submit`: where `POST /jobs` is for each job (row written,
  delivery added, failed). `workflow`: the job's step definitions, chosen by `Init`.
* `queue`: the BullMQ jobs of the `workflow` queue, numbered in the order of the `add` calls: a
  state, the job, the number of stalls. `dlq`: the same for the dead-letter queue.
* `run`: for each delivery the locals of `processJob`: a program counter, the order in which
  `loadJob` returned the steps, the position, the attempt, the compensations still to write.
* `op`, `cancel`: the locals of `DeadLetterService.retry` and `JobsService.cancel`.

`CreateJob`, `EnqueueWorkflow`, `EnqueueFails` are `create`; `CancelRead`, `CancelWrite` are
`cancel`, whose check and write are two calls. `LoadJob` to `Notify` are the worker from
`loadJob` to the webhook; `PersistStepSuccess` and `StepSucceeds` are apart because the second is
the audit write inside the `try`, and `CatchAfterPersist` is that write rejecting: the COMPLETED
step then goes to recovery. `RecoveryResolves`, `HandleSkip`, `HandleCompensate`,
`CompensateStep`, `CompensateDone`, `RecoveryFails` are the recovery service as the rows show it.
`RejectedCall` ends a delivery at any awaited call outside a `try` (BullMQ moves it to its failed
set; the code configures no automatic attempts). `CrashWorker` loses every local;
`StalledCheck` is BullMQ's, which makes an orphaned delivery wait again, or fails it after
`MaxStalledCount`. `RetryFind` to `RetryReset` are an operator's retry, call by call, and
`RetryAborts` is that request breaking off anywhere.

### JobContract

The engine without steps, recovery, processes and single calls. A *ticket* is a delivery: open
while somebody may work on the job, owing a letter between the FAILED write and the dead-letter
add, ending until the Bull job is closed, closed or kept (the failed set) after that. A *letter* is a
dead-letter entry: there, answered when an operator has added the delivery for it, gone. The contract
says who may write which status when, that a job given up owes a letter, which only a crash or
a kept ticket excuses, that a letter is thrown away only when it was answered, and that an end
stands unless the job has come again -- on a second ticket, or on one that was taken up again.
`WorkflowEngineProps` says where a ticket and a letter are (`TicketState`, `LetterState`).

### StepRecovery, StepHandlers, StepContract

`def` is the step (type, call configuration, policy, `fallbackService` as next model). Each
member of `Runs` is one delivery's execution of the loop; two of them overlap when a job was
delivered twice. `incidents`, `filed`, `audit` are the rows `execute` writes. `HandlerFails` draws
an error from `HandlerErrors` and classifies it; the random draws of the simulator and of
FALLBACK are nondeterministic, but a simulated service that is DOWN fails for sure. An error
message is the set of those words in it that `classifyFailure` looks for. `HandleEscalate` and
`LogEscalation` are the two writes of an escalation, with whatever overlapping runs do in between.

`StepContract` is the abstract specification: a step is tried, each failed try is answered once
-- by settling the step, by another try, or by giving up -- and giving up takes `limit` failed
tries. `StepRecoveryProps` maps the loop onto it (`Phase`): everything from the caught error to
the recovery's answer is "failed", and a success that is not yet logged is still "trying",
because a rejected log write sends it to recovery.

### IdempotentRequests, WebhookDelivery

`IdempotentRequests` has one action per call of the interceptor; `Answer` and `Persist` of a
request run side by side, as `void this.persist(...)` makes them. `earlier` is history: what had
been answered and stored when a request came. `WebhookDelivery` has one action per call of
`dispatch`; a post is accepted, refused, received without an answer in time, or not received.
`before` is history: the keys issued and revoked when a dispatch began.

### AdminApi

`tenants`, `keys`, `workflows`, `jobs`, `service` are the tables, `known` the keys whose raw token
somebody has seen: it is in the one answer to `issueKey`, and in the one line the seeder prints.
`req` is where each request is: `Admit` is `ApiKeyGuard`, which binds it to a tenant; the actions
after it are the handlers, one per call; `Throw` is `AllExceptionsFilter.normalize`, so that a
refused unique index is 409 and a refused foreign key 400; `Fails` is any call rejecting, or the
API dying unanswered. A handler whose look-up and write are two calls has the value `checked`
between them. `seed` is the same for each run of the seeder, from `SeedTenant` to `CreateDemo`;
`FindDemo` and `CreateDemo` are the three `seed...Workflow` functions, which differ in their data.
`ProvisionKey` is external: no operation of the API gives a new tenant its first key.

All ten operations that write are there. `CreateJob` is here once more because it is the other
half of `RemoveWorkflow`. Cancelling a job, retrying a dead-letter entry and resolving an incident
(`FindJob`, `ChangeJob`, `ResolveIncident`) are here for the sake of the tenants only: `changes`
keeps which request has written to the rows of which job, and the look-up may also find the job
over or the entry gone. What they write is in `WorkflowEngine`, which has one tenant, and
in `StepRecovery`.

### Dashboard

`server` is what the API would answer for each page, `cache` the page's query (data, whether a
fetch is sent or answered, whether it was invalidated), `click` each mutation. The rules are those
of TanStack Query with the options of `providers.tsx`: the mounted query polls, whatever happened
before; `invalidateQueries` cancels a fetch under way and sends another, unless it is the first
one (the dead-letter page invalidates the jobs besides its own list: `Invalidated`); a mutation is pending until what its `onSuccess` returns has settled, which is the refetch on
three pages and nothing on the dead-letter page, whose `onSuccess` returns no promise. The request
(`net`) and what the page knows of it (`ui`) are apart, because the page gives up after 15 s and
the API goes on.

## 3. What the runs show

| run | question | instance |
|---|---|---|
| `engine_faults` | Do two operators retrying one entry, a cancellation, a rejected call and a crash ever leave a job in progress without a delivery, or a FAILED job nobody can find, or a webhook that tells of no end; who changes a terminal status? (`RunningHasCarrier`, `FailedJobIsRecoverable`, `NotifiesTheEnd`, `TerminalStable`, `TypeOK`) | 1 job, 1 step, 3 deliveries, 2 entries, 2 operators, 1 client, 1 crash, 1 rejection |
| `engine_steps` | Do job row and step rows agree, is settled work left alone, does every delivery end and the job come to rest, and is all of it what `JobContract` allows? (eight properties) | 1 job of 2 steps, 4 workflows that contain every strategy that treats rows differently, 2 crashes, 2 rejections, a client, any load order, fairness |
| `recovery` | Records, bounds, incidents, escalations, hints, reasons, refinement of `StepContract`, termination (ten properties) | 1 run of every strategy with 0 to 2 retries, every step type, every provider; 2 runs that overlap in a TOOL_INVOKE step that never answers; 2 resolutions, 1 rejection, fairness |
| `idempotent_requests` | What does a replay say, and who may still create a job? | 4 requests, 2 bodies, 2 faults |
| `webhook_delivery` | Do row, log and receiver agree; which key signs; does it end? | 1 dispatch, 3 attempts, 3 keys, 1 rejection, 1 crash |
| `admin_api` | Whose rows may a request change, does what was answered hold, does seeding work? (`TenantsAreIsolated`, `JobsKeepTheirWorkflow`, `AnswersAreTrue`, `SeedingWorks`, `TypeOK`) | 2 tenants, 2 requests of any of the ten operations that write, 2 seeders, 1 workflow name, 1 fault, authentication on or off |
| `dashboard` | Does a stale page do harm, and does it catch up? (`RequeuedOnce`, `ResolvedIsNotOffered`, `ViewsCatchUp`) | jobs, incidents and dead-letter page, 2 clicks, 2 changes by others or of the page, 1 failed request, fairness |
| `cancel_lost` | *violated*: a cancellation is honoured | 1 job of 2 steps, no fault |
| `retry_strands` | *violated*: a re-queued job is carried by a delivery | 1 operator, no fault |
| `replay_missed` | *violated*: a repetition after the answer is replayed | 2 requests, no fault |
| `escalation_unflagged` | *violated*: an escalation flags an incident | 1 step without a policy, no fault |
| `seed_crash` | *violated*: running the seeder again leaves a usable key | 2 runs of the seeder, one dies |

Every property of a passing run is known to be able to fail: for each, `PROJECT.json` names a
*mutant*, a plausible bug in one definition (a forgotten reset, a dropped filter, a swapped
order), under which TLC finds the property violated. The mutants stand in the modules, before the
definition they would replace, and nothing uses them otherwise.

Deadlock is not checked: every model stops when its deliveries, requests or runs are over.

`ImplementsJobContract` is checked in `engine_steps`, which has no operator. With the line added to
`engine_faults.cfg`, TLC confirms it for two operators too, in about five minutes; the theorem
`EngineKeepsTheContract` is about any number.

**Why the bounds are enough.** The hazards are races between parties about one job, so one job
suffices; jobs share nothing but the worker's slots, and the proofs of section 4 are about any
number of them. Two operators and three deliveries are what it takes to deliver a job twice and
once more; two entries let a job be dead-lettered by both. `engine_faults` cuts behaviours *with* a
crash off at the third delivery or when both operators are busy (`OneFaultAtATime`, a
constraint, sound here because the run checks invariants and one action property only), and its workflows have one step; `engine_steps` has
two, the least with an order, with a step before the failed one to compensate and one after it.
One crash lets every state be the last before it; two crashes exceed BullMQ's default of one
stall. Two retries are the least with a first, a middle and a last attempt, and three posts
likewise. `recovery` has one run of the loop for every step definition and two that overlap for
one, in which all the calls of recovery meet; the proofs are about any set `Runs` and any definition. A request that is replayed
twice across a race of two creators takes four requests. Dispatches of one job share nothing but
the tenant's keys, so one is enough. Two requests and two seeders are the least that can race for
a name, a key or a workflow, and a tenant that was there before can reach for what the first one made. On a page, two clicks are the least that can do something twice.

**Fairness.** `engine_steps` assumes weak fairness of the worker's ordinary steps for each
delivery, of the stalled check, and of a submission that has written its row; `recovery`
of the loop, `webhook_delivery` of the dispatch. It is justified by the code: handlers,
providers and webhooks are called with timers that abort them (`llm-call.handler` 190-191,
`tool-invoke.handler` 47-48, `webhook.service` 132-133), Prisma and Redis calls settle, the
container restarts a dead worker, and BullMQ's stalled checker runs in every worker. `dashboard`
assumes that the interval timer of the mounted query fires (`providers.tsx` 14) and that a request
is answered or given up (`api.ts` 32). No fairness is assumed of clients, operators, crashes or
faults, and faults are finitely many.

### Disagreements between code and documentation, with a run

* **`cancel_lost`**: the worker polls the status before each step, but `finalize` (441),
  `markStarted` (409) and the retry path (282) write without looking. Even a poll that sees
  CANCELLED ends in `finalize`, which writes COMPLETED.
* **`retry_strands`**: `retry` adds the delivery before it writes PENDING (`dead-letter.service`
  44-48); a delivery that is over by then leaves the job PENDING for good.
* **`replay_missed`**: the answer does not wait for the row, so that an identical request that
  follows it creates a second job; the unique index only refuses the second *row*.
* **`escalation_unflagged`**: `handleEscalate` flags the open incidents of the step before
  `upsertIncident` creates the one of this failure (`recovery.service` 281 against 82), so that a
  step that escalates at its first failure -- it has no policy, or `maxRetries` is 0 -- is logged
  as escalated with nothing flagged. `LoggedEscalationIsFlagged` states what does hold: the
  incidents of earlier attempts are flagged.
* **`seed_crash`**: `seed.ts` says it is safe to re-run, but it creates the key before it prints it
  (32, 40); after a run that died in between, the next one finds a live key and prints none. Nobody
  can use the API then, nor issue a key through it.

### Others, seen while modelling, without a run

* RETRY, "Re-execute the step immediately" (`src/README.md` 149), runs the simulator
  (`recovery.service` 217) for LLM_CALL and TOOL_INVOKE too, and its success completes the step
  with a result no provider gave.
* `loadJob` orders steps by `createdAt`, which the rows of one nested create may share; the model lets
  the order vary (`LoadOrders`), and `CompletedMeansSettled` holds in every order.
* Every retry is executed twice: in recovery by the simulator, and, when that fails, in the next
  attempt by the handler. `ExecutionsBounded` bounds both.
* SKIP skips critical steps as well (`recovery.service` 246), where `src/README.md` has it for
  non-critical ones; `CompletedMeansSettled` says that nothing else does. A step settled by recovery gets no STEP_COMPLETED entry.
* A step type without a handler throws outside the `try` (`worker` 222): no recovery, no
  dead letter; the delivery is in BullMQ's failed set and the job stays RUNNING. If a call rejects
  between the FAILED write and the dead-letter add, the entry is missing too;
  `FailedJobIsRecoverable` therefore counts the failed set, which no endpoint of the API shows.
* Webhooks: the comment promises at-least-once delivery, a row per attempt and an audit entry per
  attempt; there is one row and one entry per dispatch, and a row that a crash or a rejection
  left PENDING is never taken up. `job.cancelled` and `job.dead_lettered` are never dispatched.
  The payload's status is read again after the outcome was decided; `NotifiesTheEnd` says when it
  can still name a job in progress.
* When the enqueue of a submission fails, the job stays PENDING and "the operator can re-enqueue
  manually" (`jobs.service` 61-62): no operation does that, since `retry` needs a dead-letter entry.
* Two deliveries that overlap in a step can leave two open incidents for one failure, one each
  (`recovery.service` 300-304): `OneIncidentPerDelivery` says that it gets no worse.
* A crash or a rejection in the middle of a compensation leaves some steps COMPLETED and some
  not; `CompensationIsComplete` speaks of compensations that were called a success.
* A key that is revoked while posts of a dispatch are still to come goes on signing them, and a
  post whose answer was lost may have been received although the row says FAILED;
  `SignedByALivingKey` and `RowsTellTheTruth` allow both.
* A key that is revoked while its request is being handled does not stop the request. Two
  seeders at once may create two keys; `SeedingWorks` asks for one that somebody has seen.
* A tenant created through the API has no key, and a key can only be issued by who has one.
* `AllExceptionsFilter` answers 400 for database errors it does not know, also after a row was
  written, so that 400 does not say that nothing happened; `AnswersAreTrue` says which answers do,
  and 400 is one of them only as long as no call was rejected: a rejection may come after the commit.
* Retrying an entry that was removed meanwhile, and resolving an incident that does not exist,
  throw a plain `Error` (`queue.service` 52, `incidents.service` 30), which becomes 500.
* The overview reads `completed`, `failed` and `retrying` of the job statistics (`page.tsx` 48-61);
  the API returns them in capitals (`jobs.service` 122), so that the cards stay empty.
* `IDEMPOTENCY_TTL_HOURS` is stored as `expiresAt` and never read.

## 4. What is proved

`WorkflowEngineProofs` proves, for every number of jobs, steps, workflows, deliveries, operators,
clients, crashes and rejected calls that satisfies `EngineAssumption` (types of the constants,
and at least one step per workflow, which `create` enforces):

* `TypeCorrect`: `Spec => []TypeOK`;
* `RunningCarried`: `Spec => []RunningHasCarrier`;
* `FailedRecoverable`: `Spec => []FailedJobIsRecoverable`.

The argument. `TypeOK` is not inductive: `RetryAdd` takes the job from a dead-letter entry, and
nothing in `TypeOK` says that an operator's entry was ever used, or that it holds a job. `SlotsOK`
adds that: a running delivery is active, a used slot has a job, a request in flight refers to
something that exists. `IInv == TypeOK /\ SlotsOK` is inductive (`Typing`).

The safety invariants are then shown in two layers. Of the thirty-odd actions only a few matter
to them: *effects* (`Progress`, `Ends`, `DeadLettered`, `Closes`, `Loads`, `Stalls`, `Crashes`,
`Submits`, ...) say what kind of step it was -- "the worker went on before the end was written",
"the end was written", "the Bull job was closed". `NextEffect` shows once, action by action, that
every step is one of these; `SlotsStep`, `CarrierStep` and `RecoverableStep` use the effects only.
Why `RunningHasCarrier` is preserved: the only steps that write RUNNING or RETRYING are steps of a
delivery that is live and unsettled, and thus a carrier; a carrier is lost only by writing the
job's end or by a delivery that saw a status it can leave alone. `FailedJobIsRecoverable` needs
that `MoveToDeadLetter` adds the entry before the delivery closes, and that an operator adds the
new delivery before removing the entry -- the order of `queue.service` 53-54, whose reversal is
the mutant of that property.

Both properties let a delivery in BullMQ's failed set count, but only with an excuse (`Excused`): a
call was rejected, the worker died more often than `MaxStalledCount`, or a step has no handler.
The theorems are therefore proved first for the carriers (`SomeCarrier`, `SomeWayBack`), and beside
it that every delivery is accounted for (`Accounted`): each stall was paid for by a crash of its
own, so more of them than BullMQ forgives take as many crashes, and what else is moved to the failed
set goes through `RejectedCall` or an unregistered step (`AccountsStep`).

`DeliveriesRunOut` is the safety half of `EveryDeliveryEnds`: every step that touches a delivery
brings it nearer to its end, and every other step leaves it alone. The measure is lexicographic:
`Phase` (stalls BullMQ still allows, and how far the delivery is between waiting and over), then
the step at hand, the attempt, the place in the attempt (`Stage`), the compensations to write.
A crash sets the inner measures back and lowers `Phase`; `Parked` says that it has nothing to set
back in a delivery that no process runs. What liveness adds is that enabled steps are taken.

`JobOutcomeProofs` first proves `WebhookTellsTheEnd` (`NotifiesTheEnd`) for any number of
operators: an entry of the dead-letter queue has a delivery behind it, and an operator who is past
the add has made a second one (`Traced`), so a status that is written over the end of a job comes
with a second delivery (`Told`).

Its other theorems are about what the rows of a job say. Three of them, `CompletionIsEarned`
(`CompletedMeansSettled`), `CulpritIsNamed` (`FailedHasCulprit`) and `CompensationEnds`
(`CompensationIsComplete`), have the form `Spec /\ []OneDeliveryAtWork => []P`: they hold as long
as no two deliveries *of one job* are at work at the same time, however many deliveries it has one
after the other, and however many jobs run side by side. The hypothesis is needed: two operators at one entry, or one whose
retry comes while a crash has the first delivery repeated, make a second delivery that
may run beside the first and write the same rows, and then one of them may write COMPLETED over an
open step of the other. It is also satisfiable and what a careful operator does: `UnretriedIsSole`
shows that it holds of itself when nobody retries, `Operators = {}`, which is the instance of
`engine_steps`. Unconditional are `EndIsFinal` (`TerminalStable`) and `WorkIsDoneOnce`
(`SettledStepsRerunOnlyAfterCrash`), whose statements name the second delivery as an exception, and
`OnlyRetriesStrand`: a job that no delivery carries is one that an operator has re-queued, so that
`retry_strands` is the only way to strand a job. `NoneStranded` (`NoStrandedJob`) follows for
`Operators = {}`.

The invariant behind them, `OInv(j)`, is about one job: the steps behind the place of the delivery
at work are settled (`Passed`); what the row of the step at hand says (`AtHand`); that `todo` is
exactly what is still COMPLETED (`Compensating`); what holds before and behind the loop (`Around`);
that job row and step rows agree (`JobOK`); and, unless the job has two deliveries (`Two`), that before any
redelivery the steps ahead are untouched (`Ahead`) and the end of a job is the last thing its
delivery writes (`Fringe`), and that nothing happens to a job before it is in the queue (`NewOK`).
`Passed` needs that `loadJob` returns every step once (`OrderAssumption`), for a step that came
twice would be run again behind its back. A step of one delivery leaves every other job alone
(`Aside`), and its own job is judged by that delivery only, because no other is at work
(`AloneStep`); most actions are then one of three kinds: a move within a step's attempts
(`InnerStep`), on to the next step (`AdvanceStep`), or the end of the delivery (`CloseStep`).

`EngineKeepsTheContract` (`ImplementsJobContract`) is the refinement: for every workflow, and any
number of jobs, deliveries, operators, clients, crashes and rejected calls, each step of the engine
is one of `JobContract` or changes nothing of it. It has three parts. `WorkerContract`,
`CrashContract`, `ClientContract` and `RetryContract` map the steps, action by action: the FAILED
write makes a ticket owe a letter, `MoveToDeadLetter` writes it, a stalled delivery is a ticket
taken up again, `RetryAdd` answers a letter and `RetryRemove` throws it away. `Born` is what the
invariants above leave out: who has a status has been submitted. And where the contract lets an end
be overwritten only when the job has come again, `Telling` takes that from `EndIsFinal`, an action
property of the same step. `EngineKeepsItsPromises` then derives from the contract's steps alone
that a job in progress has a delivery that was not given back, and a FAILED job a dead-letter entry
or a delivery behind it (`PromisesStep`): the contract says enough, and `RunningHasCarrier` and
`FailedJobIsRecoverable` say more precisely which delivery.

`StepRecoveryProofs` proves for any number of overlapping runs, resolutions, rejections and every
step definition: `TypeCorrect`, `Answered` (`FailuresAreAnswered`), `Bounded`
(`ExecutionsBounded`), `Settled` (`SettledForAReason`), `DownIsSpared` (`DownServiceIsNotUsed`), and
`Implements`: every behaviour of the loop is one of `StepContract` under the mapping of
`StepRecoveryProps`. The inductive invariant says for each run what the rows must hold at its
place in the current attempt: `Filing` (a recovery attempt is there from `log` on, once, under
an incident that exists), `Logging` (which audit entries are there), `Counting` (how often handler
and simulator were called), `Sparing` (a step of a service that is down is settled by no retry),
and `Past` (every earlier attempt is on record). What makes it inductive although runs overlap is
`StepOf`: whatever a run adds bears its own name and its current attempt, so the others' records
stand. The refinement needs `Counting` as well: giving up takes the last attempt, and the number
of attempts is the contract's limit.

`StepIncidentProofs` adds `HintsAreHeeded` (`HintsReachTheCall`) and two theorems about incidents:
`EscalationsAreFlagged` (`LoggedEscalationIsFlagged`) and `OneIncidentEach`
(`OneIncidentPerDelivery`), all for any number of runs, overlapping as they like, whoever resolves
incidents when. `Hinting` says that the strategy of an attempt is the policy's until the last
one, so what its handler hints at stays for every later attempt. `Flagging` says that from the flags on
every incident under which the run has filed is flagged or resolved (`Seen`), which no step takes
back (`IncidentsStay`), and that nothing is filed between the flags and the log (`Apart`: the steps of
another run leave a run's locals and records as they are). `upsertIncident` reads and writes without a
transaction, so two runs can see no open incident and create one each. What bounds them is a count:
open incidents and runs about to create one are together no more than the runs that have begun
(`CInv`), because a run decides to create one only when none is open, and then at most all runs
that have begun are about to (`CountStep`).

`AnswersFitTheStrategy` ties the two views of the loop together: whatever a run of `StepRecovery`
gets as an answer is one that `DispatchOutcomes` names for the strategy of that attempt, or the
failure behind a rejected call, and this is what `WorkflowEngine` lets recovery answer
(`RecoveryResolves` to `RecoveryRejected`). `NothingRunsForever` is the safety half of
`RunsEnd`: `Rank` is a natural number that every step of a run lowers and no step of another raises.

`IdempotentRequestsProofs` proves `Faithful`, `Agree` and `LateMakeNoJob` (the three invariants of
`idempotent_requests`) for any number of requests, bodies and faults. None is inductive: the
strengthening says that every replay carries the row that is stored *now* (`ReplaysCarryTheRow`;
with the unique index in `TypeOK`, the row never changes), that a row's creator has a job
(`JobsExist`), and that who found a row when it came is on the way of a hit (`LateOnesHit`).

`WebhookDeliveryProofs` proves `TypeCorrect`, `RowsAreTrue`, `LivingKeySigns`,
`NoPostAfterAcceptance` and `NoDispatchGoesOn` for any number of dispatches, attempts, keys, rejections and crashes.
`InStep` ties row and posts to the place in the loop -- `attempts` lags by one between a post and
its update --, `Ending` ties the audit entries to the row, and `KeysOK` holds a chosen secret
against the history of keys. Two lemmas carry the interleaving: a dispatch that a step leaves alone
stays good while keys come and go (`Untouched`), and one that breaks off anywhere stays good
(`Aborted`). This is also why one dispatch is enough for the run.
`NoDispatchGoesOn` is the safety half of `DispatchesEnd`: what is left of a dispatch (`Left`) is bounded
by its attempts, every step of it lowers that, and no other step raises it.

`AdminApiProofs` proves all five properties of `admin_api` for any number of tenants, requests,
seeders, demo workflows and faults: `TypeCorrect`, `JobsAreKept`, `AnswersHold`, `SeedersWork` and
`TenantsIsolated`. It needs from `AdminAssumption` that requests, seeders and tenants are different
things and that no two demo workflows share a name (`seed.ts` 64-230). The tables only grow, but
for workflows (`Grow`), and a row bears the name of who created it: `Seen` says that a row's creator
is past the place where it creates it, so that a row that was removed does not come back, and a
removal stays true (`Last`). What a request or a seeder relies on then stays so while the others
go on (`RequestStays`, `SeederStays`), and each action only has to restore the promises of the one
who takes it: `Silent` and `Held` before the answer, `Keyed` and `Kept` for a seeder. What a
look-up found is kept only as far as nobody can change it (`Checked`): that the workflow still
exists is not in it, which is why the foreign key matters.

`DashboardProofs` proves the two invariants of `dashboard` (`RequeuedAtMostOnce`,
`ResolvedStaysAway`) and type correctness (`TypeCorrect`) for any pages, things, clicks, changes made by others, and faults. `Placed`
ties a mutation that was never left to the page on the screen, whose buttons it disables; `Counted`
says of an entry all of whose requests were attended to the end that no second one can be between
the look-up and the re-queueing; `Shown` follows a resolved incident through fetches that were sent
before it was resolved: they are cancelled, as the page has data (`joins` is false).

Only model-checked is liveness, which is out of the prover's reach (as is ENABLED):
`EveryDeliveryEnds`, `SubmittedJobSettles`, `RunsEnd`, `DispatchesEnd` and `ViewsCatchUp`. The safety half of the
first four is proved: nothing goes round for good (`DeliveriesRunOut`, `NothingRunsForever`,
`NoDispatchGoesOn`), and a job at rest is not a stranded one (`NoneStranded`). Every invariant and action
property of a passing run is proved, under the conditions named above.

## 5. What is not modelled

* Redis losing what was added. `src/docker-compose.prod.yml` 35 gives it 256 MB and the policy
  `allkeys-lru`, under which a full Redis evicts keys of the queues too. Every property of the
  engine, `RunningHasCarrier` and `FailedJobIsRecoverable` above all, assumes that it does not: a
  delivery or an entry that was added stays until the code or BullMQ removes it. With evictions
  neither could hold, as nothing in the code compares the database with the queue.
* Values: payloads, step results, `stepResults` handed to later steps, interpolation, token
  counts and costs, messages. No step of the system depends on them except through an error.
* Time: delays, backoff and TTLs. A timeout is an answer that does not come.
* A worker that is alive but loses its lock in Redis (an event loop blocked for 30 s). Handlers
  only await; overlapping deliveries are modelled where they come from operators.
* Several worker processes: a crash takes all deliveries of the one process with it.
* The six services are one, and a workflow is its name and whether it has steps: `AdminApi` is
  about which rows exist, `WorkflowEngine` about what is in them.
* Two seeders and the guard share no lock with each other; the rows of one nested create come
  together (a transaction), so that no state in between exists.
* Reads that only show (lists, counts, the job and the workflow page), the job filter and the
  layout of the dashboard; configuration, metrics, logging.
* The expiry of an idempotency key, which nothing reads.

## 6. How to run

`tlc -config X.cfg M` for a run `X` with its module `M` (`PROJECT.json`, "runs"); each takes from a
second to about two minutes. `tlapm M.tla` for a module of proofs.
