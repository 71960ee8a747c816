------------------------- MODULE StepRecoveryProofs -------------------------
(***************************************************************************)
(* Proofs about the recovery of a step, for every number of overlapping    *)
(* runs, resolved incidents and rejected calls and every step definition.  *)
(*                                                                         *)
(* The argument: how far a run has come in its current attempt says what   *)
(* it has filed (Filing), logged (Logging) and executed (Counting) for it; *)
(* the attempts it has left behind are on record (Past) and nobody adds to *)
(* them, because every row and entry a run writes bears its own name and   *)
(* its current attempt.                                                    *)
(***************************************************************************)
EXTENDS StepRecoveryProps, TLAPS

InRecovery == {"find", "create", "file", "log", "answer"}
Recorded   == {"record", "dispatch", "flagged"} \union InRecovery

\* The failure a run recovers from has a type.
Failing(r) == run[r].pc \in Recorded \union {"caught"} => run[r].failure \in FailureTypes

\* One row for each attempt that was recovered from, under an existing incident.
Filing(r) ==
  /\ \A f \in filed : f.run = r =>
       /\ f.attempt <= run[r].attempt
       /\ f.attempt = run[r].attempt => run[r].pc \in {"log", "answer"} \union RunEnd
       /\ f.incident \in 1..Len(incidents)
  /\ \A f, g \in filed : f.run = r /\ g.run = r /\ f.attempt = g.attempt => f = g
  /\ run[r].pc = "file" => run[r].incident \in 1..Len(incidents)
  /\ run[r].pc \in {"log", "answer"} =>
       [run |-> r, attempt |-> run[r].attempt, incident |-> run[r].incident,
        success |-> Success(r), failure |-> run[r].failure] \in filed

\* The audit log is written in order.
Logging(r) ==
  /\ \A a \in audit : a.run = r =>
       /\ a.attempt <= run[r].attempt
       /\ a.attempt = run[r].attempt =>
            /\ a.action = "FAILURE_DETECTED" => run[r].pc \in Recorded \union RunEnd
            /\ a.action = "RECOVERY_SUCCEEDED" => run[r].pc \in {"answer"} \union RunEnd
  /\ run[r].pc \in Recorded => Entry(r, "FAILURE_DETECTED", run[r].failure) \in audit
  /\ run[r].pc = "answer" => (Logged(r, run[r].attempt, "RECOVERY_SUCCEEDED") <=> Success(r))
  /\ run[r].pc = "settled" => \/ Logged(r, run[r].attempt, "STEP_COMPLETED")
                              \/ Logged(r, run[r].attempt, "RECOVERY_SUCCEEDED")

\* One execution for each attempt begun, one simulation for each retry.
Counting(r) ==
  /\ run[r].pc = "idle" => run[r].attempt = 1
  /\ run[r].attempt <= MaxAttempts(def.policy)
  /\ executions[r].handler <=
       IF run[r].pc \in {"idle", "execute"} THEN run[r].attempt - 1 ELSE run[r].attempt
  /\ executions[r].simulator <= def.policy.maxRetries
  /\ executions[r].simulator <=
       IF run[r].pc \in InRecovery \union RunEnd THEN run[r].attempt ELSE run[r].attempt - 1
  /\ run[r].pc = "dispatch" /\ run[r].strategy \in {"RETRY", "RETRY_WITH_DELAY"} =>
       run[r].attempt <= def.policy.maxRetries

\* A simulated step of a service that is down is neither executed nor retried
\* with success.
Down(r) == run[r].down /\ def.type \in SimulatedTypes

Sparing(r) == Down(r) =>
  /\ run[r].pc # "persisted"
  /\ (run[r].pc \in InRecovery /\ Success(r)) \/ run[r].pc = "settled" =>
       run[r].strategy \in {"FALLBACK", "SKIP", "COMPENSATE"}

OnRecord(r, n) ==
  \E f \in filed :
    /\ f.run = r /\ f.attempt = n
    /\ f.incident \in DOMAIN incidents
    /\ f.success <=> Logged(r, n, "RECOVERY_SUCCEEDED")
    /\ \E a \in audit : /\ a.run = r /\ a.attempt = n
                        /\ a.action = "FAILURE_DETECTED" /\ a.failure = f.failure
    /\ \A g \in filed : g.run = r /\ g.attempt = n => g = f

Past(r) == \A n \in Nat : LeftBehind(r, n) => OnRecord(r, n)

Good(r) == Failing(r) /\ Filing(r) /\ Logging(r) /\ Counting(r) /\ Sparing(r) /\ Past(r)

IInv == TypeOK /\ \A r \in Runs : Good(r)

Locals == [pc : RunPcs, attempt : 1..(MaxRetriesAllowed + 1),
           strategy : Strategies \union {"NONE"},
           outcome : {"resolved", "skipped", "compensated", "failed"},
           incident : 0..Len(incidents),
           failure : FailureTypes \union {"NONE"}, hint : Hints, down : BOOLEAN]

-----------------------------------------------------------------------------
(* Helpers *)

\* A step of run r: it writes its own locals and adds rows that bear its name
\* and its attempt.
StepOf(r) ==
  /\ def' = def
  /\ \A x \in Runs \ {r} : run'[x] = run[x] /\ executions'[x] = executions[x]
  /\ filed \subseteq filed'
  /\ \A f \in filed' \ filed : f.run = r /\ f.attempt = run[r].attempt
  /\ audit \subseteq audit'
  /\ \A a \in audit' \ audit : a.run = r /\ a.attempt = run[r].attempt
  /\ Len(incidents) \in Nat /\ Len(incidents') \in Nat /\ Len(incidents) <= Len(incidents')

\* What the step is made of, as far as the proofs need it.
LEMMA DefFacts ==
  ASSUME def \in StepDefs
  PROVE  /\ def.policy \in Policies /\ def.policy.maxRetries \in 0..MaxRetriesAllowed
         /\ def.policy.maxRetries \in Nat
         /\ MaxAttempts(def.policy) \in 1..(MaxRetriesAllowed + 1)
         /\ def.type \in HandledTypes /\ def.nextModel \in Models \union {"none"}
         /\ def.policy.strategy \in Strategies \union {"NONE"}
<1>1. def \in [type : HandledTypes, cfg : Configs, policy : Policies, nextModel : Models \union {"none"},
             runs : SUBSET Runs]
  BY RecoveryAssumption
<1>2. def.policy \in Policies
  BY <1>1
<1>3. /\ def.policy.maxRetries \in 0..MaxRetriesAllowed
      /\ def.policy.strategy \in Strategies \union {"NONE"}
  BY <1>2 DEF Policies, NoPolicy, MaxRetriesAllowed
<1> QED BY <1>1, <1>2, <1>3 DEF MaxAttempts, MaxRetriesAllowed

\* The locals of a run have their types.
LEMMA RunTyped ==
  ASSUME TypeOK, NEW r \in Runs
  PROVE  /\ run \in [Runs -> Locals] /\ run[r] \in Locals /\ run[r].attempt \in Nat \ {0}
<1>1. run \in [Runs -> Locals]
  BY DEF TypeOK, Locals
<1>2. run[r] \in Locals
  BY <1>1
<1>3. run[r].attempt \in 1..(MaxRetriesAllowed + 1)
  BY <1>2 DEF Locals
<1> QED BY <1>1, <1>2, <1>3 DEF MaxRetriesAllowed

\* Every error has a type.
LEMMA ClassifyTyped == ASSUME NEW err PROVE ClassifyFailure(err) \in FailureTypes
BY DEF ClassifyFailure, FailureTypes

\* Only the pc of one run changes.
LEMMA GotoEffect ==
  ASSUME run \in [Runs -> Locals], NEW r \in Runs, NEW pc \in RunPcs, Goto(r, pc)
  PROVE  /\ run' \in [Runs -> Locals]
         /\ run'[r].pc = pc /\ run'[r].attempt = run[r].attempt
         /\ run'[r].strategy = run[r].strategy /\ run'[r].outcome = run[r].outcome
         /\ run'[r].incident = run[r].incident /\ run'[r].failure = run[r].failure
         /\ run'[r].hint = run[r].hint /\ run'[r].down = run[r].down
         /\ \A x \in Runs \ {r} : run'[x] = run[x]
BY DEF Goto, Locals

\* An audit entry of the current attempt, added to the log.
LEMMA LogEffect ==
  ASSUME TypeOK, NEW r \in Runs, NEW action \in AuditActions, NEW failure \in FailureTypes \union {"NONE"},
         audit' = audit \union {Entry(r, action, failure)}
  PROVE  /\ audit \subseteq audit'
         /\ \A a \in audit' \ audit : /\ a.run = r /\ a.attempt = run[r].attempt
                                      /\ a.action = action /\ a.failure = failure
         /\ audit' \subseteq [run : Runs, attempt : Nat, action : AuditActions,
                              failure : FailureTypes \union {"NONE"}]
         /\ Entry(r, action, failure) \in audit'
<1>1. run[r].attempt \in Nat
  BY RunTyped
<1> QED BY <1>1 DEF TypeOK, Entry

\* What another run, or another attempt, has logged stays as it was.
LEMMA LoggedKept ==
  ASSUME NEW r \in Runs, StepOf(r), NEW x, NEW n, x # r \/ n # run[r].attempt, NEW action
  PROVE  Logged(x, n, action)' <=> Logged(x, n, action)
BY DEF StepOf, Logged

\* And what it has on record.
LEMMA OnRecordKept ==
  ASSUME NEW r \in Runs, StepOf(r), NEW x, NEW n, x # r \/ n # run[r].attempt, OnRecord(x, n),
         incidents \in Seq([resolved : BOOLEAN, escalated : BOOLEAN]),
         incidents' \in Seq([resolved : BOOLEAN, escalated : BOOLEAN])
  PROVE  OnRecord(x, n)'
<1>1. Logged(x, n, "RECOVERY_SUCCEEDED")' <=> Logged(x, n, "RECOVERY_SUCCEEDED")
  BY LoggedKept
<1>2. PICK f \in filed :
        /\ f.run = x /\ f.attempt = n
        /\ f.incident \in DOMAIN incidents
        /\ f.success <=> Logged(x, n, "RECOVERY_SUCCEEDED")
        /\ \E a \in audit : /\ a.run = x /\ a.attempt = n
                            /\ a.action = "FAILURE_DETECTED" /\ a.failure = f.failure
        /\ \A g \in filed : g.run = x /\ g.attempt = n => g = f
  BY DEF OnRecord
<1>3. f \in filed' /\ \A g \in filed' : g.run = x /\ g.attempt = n => g = f
  BY <1>2 DEF StepOf
<1>4. f.incident \in DOMAIN incidents'
  BY <1>2 DEF StepOf
<1>5. \E a \in audit' : /\ a.run = x /\ a.attempt = n
                        /\ a.action = "FAILURE_DETECTED" /\ a.failure = f.failure
  BY <1>2 DEF StepOf
<1> QED BY <1>1, <1>2, <1>3, <1>4, <1>5 DEF OnRecord

\* A run that stays in its attempt leaves nothing new behind.
LEMMA PastKept ==
  ASSUME TypeOK, incidents' \in Seq([resolved : BOOLEAN, escalated : BOOLEAN]),
         NEW r \in Runs, StepOf(r), Past(r),
         run'[r].attempt = run[r].attempt, run'[r].pc \notin {"settled", "exhausted"}
  PROVE  Past(r)'
<1> SUFFICES ASSUME NEW n \in Nat, LeftBehind(r, n)' PROVE OnRecord(r, n)'
  BY DEF Past
<1>1. n # run[r].attempt /\ run[r].attempt > n
  BY DEF LeftBehind, TypeOK, MaxRetriesAllowed
<1>2. LeftBehind(r, n)
  BY <1>1, LoggedKept DEF LeftBehind
<1> QED BY <1>1, <1>2, OnRecordKept DEF Past, TypeOK

\* A run that a step does not touch stays good.
LEMMA Untouched ==
  ASSUME TypeOK, incidents' \in Seq([resolved : BOOLEAN, escalated : BOOLEAN]),
         NEW r \in Runs, StepOf(r), NEW x \in Runs \ {r}, Good(x)
  PROVE  Good(x)'
<1>1. /\ run'[x] = run[x] /\ executions'[x] = executions[x] /\ def' = def
      /\ Len(incidents) \in Nat /\ Len(incidents') \in Nat /\ Len(incidents) <= Len(incidents')
      /\ filed \subseteq filed' /\ \A f \in filed' : f.run = x => f \in filed
      /\ audit \subseteq audit' /\ \A a \in audit' : a.run = x => a \in audit
  BY DEF StepOf
<1>2. \A n, action : Logged(x, n, action)' <=> Logged(x, n, action)
  BY LoggedKept
<1>3. Failing(x)' /\ Counting(x)' /\ Sparing(x)'
  BY <1>1 DEF Good, Failing, Counting, Sparing, Down, Success
<1>4. Filing(x)'
  BY <1>1 DEF Good, Filing, Success
<1>5. Logging(x)'
  BY <1>1, <1>2 DEF Good, Logging, Entry, Success
<1>6. Past(x)'
  BY <1>1, <1>2, OnRecordKept DEF Good, Past, LeftBehind, TypeOK
<1> QED BY <1>3, <1>4, <1>5, <1>6 DEF Good

\* A step of one run has to be looked at for that run only.
LEMMA OneRun ==
  ASSUME IInv, NEW r \in Runs, StepOf(r), TypeOK', Good(r)'
  PROVE  IInv'
BY Untouched DEF IInv, TypeOK

\* A run that only moves on, within its attempt: no row, no entry, no incident.
LEMMA Moves ==
  ASSUME TypeOK, NEW r \in Runs, UNCHANGED <<def, filed, audit>>,
         incidents' \in Seq([resolved : BOOLEAN, escalated : BOOLEAN]),
         Len(incidents) <= Len(incidents'),
         \A x \in Runs \ {r} : run'[x] = run[x] /\ executions'[x] = executions[x],
         Past(r), run'[r].attempt = run[r].attempt, run'[r].pc \notin {"settled", "exhausted"}
  PROVE  /\ StepOf(r) /\ Past(r)'
         /\ \A n, action : Logged(r, n, action)' <=> Logged(r, n, action)
<1>1. StepOf(r)
  BY DEF StepOf, TypeOK
<1> QED BY <1>1, PastKept DEF Logged

\* The parts of the invariant at the beginning of an attempt say the same of
\* every place before the failure is logged.
Early == {"idle", "execute", "persisted", "caught"}

LEMMA EarlyMove ==
  ASSUME TypeOK, NEW r \in Runs, Good(r), run[r].pc \in Early, run'[r].pc \in Early \union {"aborted"},
         UNCHANGED <<def, filed, audit, incidents>>,
         \A x \in Runs \ {r} : run'[x] = run[x] /\ executions'[x] = executions[x],
         run'[r].attempt = run[r].attempt
  PROVE  StepOf(r) /\ Filing(r)' /\ Logging(r)' /\ Past(r)'
<1>1. /\ StepOf(r) /\ Past(r)'
      /\ \A n, action : Logged(r, n, action)' <=> Logged(r, n, action)
  <2>1. incidents \in Seq([resolved : BOOLEAN, escalated : BOOLEAN]) /\ Past(r)
    BY DEF TypeOK, Good
  <2>2. Len(incidents) <= Len(incidents')
    BY <2>1
  <2>3. run'[r].pc \notin {"settled", "exhausted"}
    BY DEF Early
  <2> QED BY <2>1, <2>2, <2>3, Moves
<1>2. Filing(r)'
  BY DEF Good, Filing, Early, RunEnd
<1>3. Logging(r)'
  BY <1>1 DEF Good, Logging, Early, RunEnd, Recorded, InRecovery
<1> QED BY <1>1, <1>2, <1>3

\* What is filed is filed at "file".
LEMMA NotFiledYet ==
  ASSUME TypeOK, NEW r \in Runs, Filing(r), filed' = filed, run'[r].attempt = run[r].attempt,
         run[r].pc \notin {"log", "answer"} \union RunEnd, run'[r].pc \notin {"file", "log", "answer"},
         Len(incidents') \in Nat, Len(incidents) <= Len(incidents')
  PROVE  Filing(r)'
<1>1. Len(incidents) \in Nat
  BY DEF TypeOK
<1>2. \A f \in filed : f.run = r =>
        f.attempt <= run[r].attempt /\ f.attempt # run[r].attempt /\ f.incident \in 1..Len(incidents)
  BY DEF Filing
<1>3. \A f \in filed : f.run = r => f.incident \in 1..Len(incidents')
  BY <1>1, <1>2
<1> QED BY <1>2, <1>3 DEF Filing

\* Between the log of the failure and that of its recovery nothing is logged
\* but the escalation.
LEMMA NotAnsweredYet ==
  ASSUME TypeOK, NEW r \in Runs, Logging(r),
         run'[r].attempt = run[r].attempt, run'[r].failure = run[r].failure,
         run[r].pc \in Recorded \ {"answer"}, run'[r].pc \in Recorded \ {"answer"},
         audit \subseteq audit',
         \A a \in audit' \ audit : a.action \notin {"FAILURE_DETECTED", "RECOVERY_SUCCEEDED"}
                                  /\ a.run = r /\ a.attempt = run[r].attempt
  PROVE  Logging(r)'
<1>1. Entry(r, "FAILURE_DETECTED", run[r].failure)' \in audit'
  BY DEF Logging, Entry
<1>2. run[r].pc \notin {"answer"} \union RunEnd /\ run'[r].pc \notin {"answer", "settled"}
  BY DEF Recorded, InRecovery, RunEnd
<1>3. \A a \in audit' : a.run = r =>
       /\ a.attempt <= run'[r].attempt
       /\ a.attempt = run'[r].attempt => a.action # "RECOVERY_SUCCEEDED"
  BY <1>2, RunTyped DEF Logging
<1> QED BY <1>1, <1>2, <1>3 DEF Logging

-----------------------------------------------------------------------------
(* The invariant *)

\* The initial state satisfies the invariant.
LEMMA InitInvariant == Init => IInv
<1> SUFFICES ASSUME Init PROVE IInv
  OBVIOUS
<1>1. <<>> \in Seq([resolved : BOOLEAN, escalated : BOOLEAN]) /\ Len(<<>>) = 0
  OBVIOUS
<1>2. IdleRun \in [pc : RunPcs, attempt : 1..(MaxRetriesAllowed + 1),
                   strategy : Strategies \union {"NONE"},
                   outcome : {"resolved", "skipped", "compensated", "failed"},
                   incident : 0..0, failure : FailureTypes \union {"NONE"},
                   hint : Hints, down : BOOLEAN]
  BY DEF IdleRun, RunPcs, MaxRetriesAllowed, NoHint, Hints
<1>3. TypeOK
  BY <1>1, <1>2, RecoveryAssumption DEF Init, TypeOK, StepStatuses
<1>4. ASSUME NEW r \in Runs PROVE Good(r)
  <2>1. run[r].pc = "idle" /\ run[r].attempt = 1 /\ run[r].down = FALSE /\ filed = {} /\ audit = {}
        /\ executions[r].handler = 0 /\ executions[r].simulator = 0
    BY DEF Init, IdleRun
  <2>2. Failing(r) /\ Filing(r) /\ Sparing(r)
    BY <2>1 DEF Failing, Filing, Sparing, Down, Recorded, InRecovery
  <2>3. Logging(r) /\ Past(r)
    BY <2>1 DEF Logging, Past, LeftBehind, Logged, Recorded, InRecovery
  <2>4. Counting(r)
    <3>1. def.policy.maxRetries \in Nat
      BY DefFacts DEF Init
    <3> QED BY <2>1, <3>1 DEF Counting, MaxAttempts, InRecovery, RunEnd
  <2> QED BY <2>2, <2>3, <2>4 DEF Good
<1> QED BY <1>3, <1>4 DEF IInv

\* A delivery reaches the step.
LEMMA StartStep == ASSUME IInv, NEW r \in Runs, MarkStepRunning(r) PROVE IInv'
<1>1. /\ run[r].pc = "idle" /\ stepStatus' = "RUNNING"
      /\ UNCHANGED <<def, incidents, filed, audit, executions, resolves, rejections>>
  BY DEF MarkStepRunning, At
<1>2. /\ run' \in [Runs -> Locals] /\ run'[r].pc = "execute" /\ run'[r].attempt = run[r].attempt
      /\ \A x \in Runs \ {r} : run'[x] = run[x]
  <2>1. PICK down \in BOOLEAN : run' = [run EXCEPT ![r].pc = "execute", ![r].down = down]
    BY DEF MarkStepRunning
  <2>2. run \in [Runs -> Locals] /\ run[r] \in Locals
    BY RunTyped DEF IInv
  <2> DEFINE moved == [run[r] EXCEPT !.pc = "execute", !.down = down]
  <2>3. moved \in Locals /\ moved.pc = "execute" /\ moved.attempt = run[r].attempt
    BY <2>2 DEF Locals, RunPcs
  <2>4. run' = [run EXCEPT ![r] = moved]
    BY <2>1, <2>2
  <2> QED BY <2>2, <2>3, <2>4
<1>3. TypeOK'
  BY <1>1, <1>2 DEF IInv, TypeOK, Locals, StepStatuses
<1>4. StepOf(r) /\ Filing(r)' /\ Logging(r)' /\ Past(r)'
  BY <1>1, <1>2, EarlyMove DEF IInv, Early
<1>5. Failing(r)' /\ Counting(r)' /\ Sparing(r)'
  BY <1>1, <1>2 DEF IInv, Good, Failing, Counting, Sparing, Recorded, InRecovery, RunEnd
<1> QED BY <1>3, <1>4, <1>5, OneRun DEF Good

\* The handler is called once more, whatever comes of it.
LEMMA ExecuteEffect ==
  ASSUME IInv, NEW r \in Runs, Execute(r)
  PROVE  /\ run[r].pc = "execute" /\ executions' \in [Runs -> [handler : Nat, simulator : Nat]]
         /\ executions'[r].handler = executions[r].handler + 1
         /\ executions'[r].simulator = executions[r].simulator
         /\ executions'[r].handler <= run[r].attempt
         /\ \A x \in Runs \ {r} : executions'[x] = executions[x]
<1>1. /\ run[r].pc = "execute" /\ executions' = [executions EXCEPT ![r].handler = @ + 1]
      /\ executions \in [Runs -> [handler : Nat, simulator : Nat]]
  BY DEF Execute, At, IInv, TypeOK
<1>2. executions[r].handler <= run[r].attempt - 1 /\ run[r].attempt \in Nat
  BY <1>1, RunTyped DEF IInv, Good, Counting
<1> QED BY <1>1, <1>2

\* The handler answers and the step is COMPLETED.
LEMMA SucceedStep == ASSUME IInv, NEW r \in Runs, HandlerSucceeds(r) PROVE IInv'
<1>1. /\ Execute(r) /\ HandlerMayAnswer(def.type, def.cfg, run[r].down) /\ Goto(r, "persisted")
      /\ stepStatus' = "COMPLETED" /\ UNCHANGED <<def, incidents, filed, audit, resolves, rejections>>
  BY DEF HandlerSucceeds
<1>2. /\ run' \in [Runs -> Locals] /\ run'[r].pc = "persisted" /\ run'[r].attempt = run[r].attempt
      /\ run'[r].down = run[r].down /\ \A x \in Runs \ {r} : run'[x] = run[x]
  BY <1>1, RunTyped, GotoEffect DEF IInv, RunPcs
<1>3. /\ run[r].pc = "execute" /\ executions' \in [Runs -> [handler : Nat, simulator : Nat]]
      /\ executions'[r].simulator = executions[r].simulator
      /\ executions'[r].handler <= run[r].attempt
      /\ \A x \in Runs \ {r} : executions'[x] = executions[x]
  BY <1>1, ExecuteEffect
<1>4. TypeOK'
  BY <1>1, <1>2, <1>3 DEF IInv, TypeOK, Locals, StepStatuses
<1>5. StepOf(r) /\ Filing(r)' /\ Logging(r)' /\ Past(r)'
  BY <1>1, <1>2, <1>3, EarlyMove DEF IInv, Early
<1>6. Failing(r)' /\ Counting(r)'
  BY <1>1, <1>2, <1>3 DEF IInv, Good, Failing, Counting, Recorded, InRecovery, RunEnd
<1>7. Sparing(r)'
  <2>1. ~Down(r)
    BY <1>1 DEF HandlerMayAnswer, SimulationMayPass, SimulatedTypes, Down
  <2> QED BY <1>1, <1>2, <2>1 DEF Sparing, Down
<1> QED BY <1>4, <1>5, <1>6, <1>7, OneRun DEF Good

\* The handler throws.
LEMMA FailStep == ASSUME IInv, NEW r \in Runs, HandlerFails(r) PROVE IInv'
<1>1. /\ Execute(r) /\ UNCHANGED <<def, stepStatus, incidents, filed, audit, resolves, rejections>>
  BY DEF HandlerFails
<1>2. /\ run' \in [Runs -> Locals] /\ run'[r].pc = "caught" /\ run'[r].attempt = run[r].attempt
      /\ run'[r].failure \in FailureTypes /\ \A x \in Runs \ {r} : run'[x] = run[x]
  <2>1. PICK err : run' = [run EXCEPT ![r].pc = "caught", ![r].failure = ClassifyFailure(err)]
    BY DEF HandlerFails
  <2>2. ClassifyFailure(err) \in FailureTypes
    BY ClassifyTyped
  <2>3. run \in [Runs -> Locals] /\ run[r] \in Locals
    BY RunTyped DEF IInv
  <2> DEFINE moved == [run[r] EXCEPT !.pc = "caught", !.failure = ClassifyFailure(err)]
  <2>4. /\ moved \in Locals /\ moved.pc = "caught" /\ moved.attempt = run[r].attempt
        /\ moved.failure = ClassifyFailure(err)
    BY <2>2, <2>3 DEF Locals, RunPcs
  <2>5. run' = [run EXCEPT ![r] = moved]
    BY <2>1, <2>3
  <2> QED BY <2>2, <2>3, <2>4, <2>5
<1>3. /\ run[r].pc = "execute" /\ executions' \in [Runs -> [handler : Nat, simulator : Nat]]
      /\ executions'[r].simulator = executions[r].simulator
      /\ executions'[r].handler <= run[r].attempt
      /\ \A x \in Runs \ {r} : executions'[x] = executions[x]
  BY <1>1, ExecuteEffect
<1>4. TypeOK'
  BY <1>1, <1>2, <1>3 DEF IInv, TypeOK, Locals
<1>5. StepOf(r) /\ Filing(r)' /\ Logging(r)' /\ Past(r)'
  BY <1>1, <1>2, <1>3, EarlyMove DEF IInv, Early
<1>6. Failing(r)' /\ Counting(r)' /\ Sparing(r)'
  BY <1>1, <1>2, <1>3 DEF IInv, Good, Failing, Counting, Sparing, InRecovery, RunEnd
<1> QED BY <1>4, <1>5, <1>6, OneRun DEF Good

\* The log write of a success rejects.
LEMMA CatchStep == ASSUME IInv, NEW r \in Runs, CatchAfterPersist(r) PROVE IInv'
<1>1. /\ run[r].pc = "persisted" /\ rejections' \in 0..MaxRejections
      /\ UNCHANGED <<def, stepStatus, incidents, filed, audit, executions, resolves>>
  BY RecoveryAssumption DEF CatchAfterPersist, At, IInv, TypeOK
<1>2. /\ run' \in [Runs -> Locals] /\ run'[r].pc = "caught" /\ run'[r].attempt = run[r].attempt
      /\ run'[r].failure \in FailureTypes /\ \A x \in Runs \ {r} : run'[x] = run[x]
  <2>1. PICK f \in FailureTypes : run' = [run EXCEPT ![r].pc = "caught", ![r].failure = f]
    BY DEF CatchAfterPersist
  <2>2. run \in [Runs -> Locals] /\ run[r] \in Locals
    BY RunTyped DEF IInv
  <2> DEFINE moved == [run[r] EXCEPT !.pc = "caught", !.failure = f]
  <2>3. /\ moved \in Locals /\ moved.pc = "caught" /\ moved.attempt = run[r].attempt
                        /\ moved.failure = f
    BY <2>2 DEF Locals, RunPcs
  <2>4. run' = [run EXCEPT ![r] = moved]
    BY <2>1, <2>2
  <2> QED BY <2>2, <2>3, <2>4
<1>3. TypeOK'
  BY <1>1, <1>2 DEF IInv, TypeOK, Locals
<1>4. StepOf(r) /\ Filing(r)' /\ Logging(r)' /\ Past(r)'
  BY <1>1, <1>2, EarlyMove DEF IInv, Early
<1>5. Failing(r)' /\ Counting(r)' /\ Sparing(r)'
  BY <1>1, <1>2 DEF IInv, Good, Failing, Counting, Sparing, InRecovery, RunEnd
<1> QED BY <1>3, <1>4, <1>5, OneRun DEF Good

\* The success is logged: the attempt had no failure to answer.
LEMMA LogCompletedStep == ASSUME IInv, NEW r \in Runs, LogCompleted(r) PROVE IInv'
<1>1. /\ run[r].pc = "persisted" /\ audit' = audit \union {Entry(r, "STEP_COMPLETED", "NONE")}
      /\ Goto(r, "settled")
      /\ UNCHANGED <<def, stepStatus, incidents, filed, executions, resolves, rejections>>
  BY DEF LogCompleted, At, Log
<1>2. /\ run' \in [Runs -> Locals] /\ run'[r].pc = "settled" /\ run'[r].attempt = run[r].attempt
      /\ run'[r].down = run[r].down /\ \A x \in Runs \ {r} : run'[x] = run[x]
  BY <1>1, RunTyped, GotoEffect DEF IInv, RunPcs
<1>3. /\ audit \subseteq audit'
      /\ \A a \in audit' \ audit : a.run = r /\ a.attempt = run[r].attempt /\ a.action = "STEP_COMPLETED"
      /\ audit' \subseteq [run : Runs, attempt : Nat, action : AuditActions,
                           failure : FailureTypes \union {"NONE"}]
      /\ Entry(r, "STEP_COMPLETED", "NONE") \in audit'
  BY <1>1, LogEffect DEF IInv, AuditActions
<1>4. TypeOK'
  BY <1>1, <1>2, <1>3 DEF IInv, TypeOK, Locals
<1>5. StepOf(r)
  BY <1>1, <1>2, <1>3 DEF StepOf, IInv, TypeOK
<1>6. Failing(r)' /\ Filing(r)'
  BY <1>1, <1>2 DEF IInv, Good, Failing, Filing, Recorded, InRecovery, RunEnd
<1>7. Logging(r)'
  <2>1. Logged(r, run[r].attempt, "STEP_COMPLETED")'
    BY <1>2, <1>3 DEF Logged, Entry
  <2> QED BY <1>1, <1>2, <1>3, <2>1 DEF IInv, Good, Logging, Recorded, InRecovery, RunEnd
<1>8. Counting(r)' /\ Sparing(r)'
  <2>1. executions[r].simulator \in Nat /\ run[r].attempt \in Nat
    BY RunTyped DEF IInv, TypeOK
  <2>2. executions[r].simulator <= run[r].attempt - 1 /\ executions[r].handler <= run[r].attempt
    BY <1>1 DEF IInv, Good, Counting, InRecovery, RunEnd
  <2>3. Counting(r)'
    BY <1>1, <1>2, <2>1, <2>2 DEF IInv, Good, Counting, InRecovery, RunEnd
  <2>4. ~Down(r)
    BY <1>1 DEF IInv, Good, Sparing
  <2> QED BY <1>1, <1>2, <2>3, <2>4 DEF Sparing, Down
<1>9. Past(r)'
  <2> SUFFICES ASSUME NEW n \in Nat, LeftBehind(r, n)' PROVE OnRecord(r, n)'
    BY DEF Past
  <2>1. n # run[r].attempt
    <3>1. \A a \in audit' : a.run = r /\ a.attempt = run[r].attempt => a.action # "FAILURE_DETECTED"
      BY <1>1, <1>3 DEF IInv, Good, Logging, Recorded, InRecovery, RunEnd
    <3> QED BY <3>1 DEF LeftBehind, Logged
  <2>2. run[r].attempt > n
    <3>1. \E a \in audit' : a.run = r /\ a.attempt = n
      BY DEF LeftBehind, Logged
    <3>2. n <= run[r].attempt
      BY <1>3, <3>1, RunTyped DEF IInv, Good, Logging
    <3> QED BY <2>1, <3>2, RunTyped DEF IInv
  <2>3. LeftBehind(r, n)
    BY <1>5, <2>1, <2>2, LoggedKept DEF LeftBehind
  <2> QED BY <1>4, <1>5, <2>1, <2>3, OnRecordKept DEF IInv, Good, Past, TypeOK
<1> QED BY <1>4, <1>5, <1>6, <1>7, <1>8, <1>9, OneRun DEF Good

\* The failure is logged.
LEMMA LogFailureStep == ASSUME IInv, NEW r \in Runs, LogFailure(r) PROVE IInv'
<1>1. /\ run[r].pc = "caught" /\ audit' = audit \union {Entry(r, "FAILURE_DETECTED", run[r].failure)}
      /\ Goto(r, "record")
      /\ UNCHANGED <<def, stepStatus, incidents, filed, executions, resolves, rejections>>
  BY DEF LogFailure, At
<1>2. /\ run' \in [Runs -> Locals] /\ run'[r].pc = "record" /\ run'[r].attempt = run[r].attempt
      /\ run'[r].failure = run[r].failure /\ run'[r].down = run[r].down
      /\ \A x \in Runs \ {r} : run'[x] = run[x]
  BY <1>1, RunTyped, GotoEffect DEF IInv, RunPcs
<1>3. /\ audit \subseteq audit'
      /\ \A a \in audit' \ audit : a.run = r /\ a.attempt = run[r].attempt /\ a.action = "FAILURE_DETECTED"
      /\ audit' \subseteq [run : Runs, attempt : Nat, action : AuditActions,
                           failure : FailureTypes \union {"NONE"}]
      /\ Entry(r, "FAILURE_DETECTED", run[r].failure) \in audit'
  <2>1. run[r].failure \in FailureTypes \union {"NONE"}
    BY RunTyped DEF IInv, Locals
  <2> QED BY <1>1, <2>1, LogEffect DEF IInv, AuditActions
<1>4. TypeOK'
  BY <1>1, <1>2, <1>3 DEF IInv, TypeOK, Locals
<1>5. StepOf(r)
  BY <1>1, <1>2, <1>3 DEF StepOf, IInv, TypeOK
<1>6. Failing(r)' /\ Filing(r)'
  BY <1>1, <1>2 DEF IInv, Good, Failing, Filing, RunEnd
<1>7. Logging(r)'
  <2>1. run'[r].pc \in Recorded /\ run[r].pc \notin Recorded \union RunEnd
    BY <1>1, <1>2 DEF Recorded, InRecovery, RunEnd
  <2>2. Entry(r, "FAILURE_DETECTED", run[r].failure)' \in audit'
    BY <1>2, <1>3 DEF Entry
  <2>3. \A a \in audit' : a.run = r =>
          /\ a.attempt <= run[r].attempt
          /\ a.attempt = run[r].attempt => a.action # "RECOVERY_SUCCEEDED"
    BY <1>1, <1>3, RunTyped DEF IInv, Good, Logging, Recorded, InRecovery, RunEnd
  <2> QED BY <1>2, <2>1, <2>2, <2>3 DEF Logging, Entry
<1>8. Counting(r)' /\ Sparing(r)'
  BY <1>1, <1>2 DEF IInv, Good, Counting, Sparing, Down, InRecovery, RunEnd
<1>9. Past(r)'
  BY <1>2, <1>4, <1>5, PastKept DEF IInv, Good, TypeOK
<1> QED BY <1>4, <1>5, <1>6, <1>7, <1>8, <1>9, OneRun DEF Good

\* A retry is only chosen while the policy has one left.
LEMMA RetryIsLeft ==
  ASSUME def \in StepDefs, NEW n \in Nat,
         SelectStrategy(def.policy, n) \in {"RETRY", "RETRY_WITH_DELAY"}
  PROVE  n <= def.policy.maxRetries
BY DefFacts DEF SelectStrategy

\* The step is FAILED and recovery has a strategy.
LEMMA RecordStep == ASSUME IInv, NEW r \in Runs, RecordFailure(r) PROVE IInv'
<1> DEFINE strategy == SelectStrategy(def.policy, run[r].attempt)
           moved == [run[r] EXCEPT !.pc = "dispatch", !.strategy = strategy]
<1>1. /\ run[r].pc = "record" /\ stepStatus' = "FAILED"
      /\ UNCHANGED <<def, incidents, filed, audit, executions, resolves, rejections>>
      /\ run' = [run EXCEPT ![r].pc = "dispatch", ![r].strategy = strategy]
  BY DEF RecordFailure, At
<1>2. strategy \in Strategies \union {"NONE"}
  BY DefFacts DEF IInv, TypeOK, SelectStrategy, Strategies
<1>3. /\ run' \in [Runs -> Locals] /\ run'[r].pc = "dispatch" /\ run'[r].attempt = run[r].attempt
      /\ run'[r].strategy = strategy
      /\ run'[r].failure = run[r].failure /\ run'[r].down = run[r].down
      /\ \A x \in Runs \ {r} : run'[x] = run[x]
  <2>1. run \in [Runs -> Locals] /\ run[r] \in Locals
    BY RunTyped DEF IInv
  <2>2. /\ moved \in Locals /\ moved.pc = "dispatch" /\ moved.attempt = run[r].attempt
        /\ moved.strategy = strategy /\ moved.failure = run[r].failure /\ moved.down = run[r].down
    BY <1>2, <2>1 DEF Locals, RunPcs
  <2>3. run' = [run EXCEPT ![r] = moved]
    BY <1>1, <2>1
  <2> QED BY <2>1, <2>2, <2>3
<1>4. TypeOK'
  BY <1>1, <1>3 DEF IInv, TypeOK, Locals, StepStatuses
<1>5. StepOf(r)
  BY <1>1, <1>3 DEF StepOf, IInv, TypeOK
<1>6. Failing(r)' /\ Filing(r)' /\ Sparing(r)'
  <2>1. Filing(r)'
    BY <1>1, <1>3, <1>5, NotFiledYet DEF IInv, Good, RunEnd, StepOf
  <2> QED BY <1>1, <1>3, <2>1 DEF IInv, Good, Failing, Sparing, Recorded, InRecovery
<1>7. Logging(r)'
  BY <1>1, <1>3, NotAnsweredYet DEF IInv, Good, Recorded, InRecovery
<1>8. Counting(r)'
  <2>1. strategy \in {"RETRY", "RETRY_WITH_DELAY"} => run[r].attempt <= def.policy.maxRetries
    BY RetryIsLeft, RunTyped DEF IInv, TypeOK
  <2> QED BY <1>1, <1>3, <2>1 DEF IInv, Good, Counting, InRecovery, RunEnd
<1>9. Past(r)'
  BY <1>3, <1>4, <1>5, PastKept DEF IInv, Good, TypeOK
<1> QED BY <1>4, <1>5, <1>6, <1>7, <1>8, <1>9, OneRun DEF Good

-----------------------------------------------------------------------------
(* The handlers of a strategy *)

\* What every handler has in common, its own writes aside: it has an outcome,
\* and may log an escalation.
HandledAs(r, outcome) ==
  /\ run[r].pc \in {"dispatch", "flagged"}
  /\ run' = [run EXCEPT ![r].pc = "find", ![r].outcome = outcome]
  /\ UNCHANGED <<def, filed, incidents, resolves>>
  /\ audit' = audit \/ audit' = audit \union {Entry(r, "ESCALATED", "NONE")}
  /\ \A x \in Runs \ {r} : executions'[x] = executions[x]
  /\ executions'[r].handler = executions[r].handler

LEMMA HandledStep ==
  ASSUME IInv, NEW r \in Runs, NEW outcome \in {"resolved", "skipped", "compensated", "failed"},
         HandledAs(r, outcome), rejections' \in 0..MaxRejections, stepStatus' \in StepStatuses,
         executions' \in [Runs -> [handler : Nat, simulator : Nat]],
         \/ executions'[r].simulator = executions[r].simulator
         \/ /\ run[r].pc = "dispatch" /\ run[r].strategy \in {"RETRY", "RETRY_WITH_DELAY"}
            /\ executions'[r].simulator = executions[r].simulator + 1,
         Down(r) /\ outcome # "failed" => run[r].strategy \in {"FALLBACK", "SKIP", "COMPENSATE"}
  PROVE  IInv'
<1> DEFINE moved == [run[r] EXCEPT !.pc = "find", !.outcome = outcome]
<1>1. /\ run' \in [Runs -> Locals] /\ run'[r].pc = "find" /\ run'[r].attempt = run[r].attempt
      /\ run'[r].strategy = run[r].strategy /\ run'[r].outcome = outcome
      /\ run'[r].failure = run[r].failure /\ run'[r].down = run[r].down
      /\ \A x \in Runs \ {r} : run'[x] = run[x]
  <2>1. run \in [Runs -> Locals] /\ run[r] \in Locals
    BY RunTyped DEF IInv
  <2>2. /\ moved \in Locals /\ moved.pc = "find" /\ moved.attempt = run[r].attempt
        /\ moved.strategy = run[r].strategy /\ moved.outcome = outcome
        /\ moved.failure = run[r].failure /\ moved.down = run[r].down
    BY <2>1 DEF Locals, RunPcs
  <2>3. run' = [run EXCEPT ![r] = moved]
    BY <2>1 DEF HandledAs
  <2> QED BY <2>1, <2>2, <2>3
<1>2. /\ audit \subseteq audit'
      /\ \A a \in audit' \ audit : a.run = r /\ a.attempt = run[r].attempt /\ a.action = "ESCALATED"
      /\ audit' \subseteq [run : Runs, attempt : Nat, action : AuditActions,
                           failure : FailureTypes \union {"NONE"}]
  <2>1. CASE audit' = audit
    BY <2>1 DEF IInv, TypeOK
  <2>2. CASE audit' = audit \union {Entry(r, "ESCALATED", "NONE")}
    BY <2>2, LogEffect DEF IInv, AuditActions
  <2> QED BY <2>1, <2>2 DEF HandledAs
<1>3. TypeOK'
  BY <1>1, <1>2 DEF HandledAs, IInv, TypeOK, Locals
<1>4. StepOf(r)
  BY <1>1, <1>2 DEF HandledAs, StepOf, IInv, TypeOK
<1>0. run[r].pc \in {"dispatch", "flagged"} /\ UNCHANGED <<def, filed, resolves>>
  BY DEF HandledAs
<1>5. Failing(r)' /\ Filing(r)'
  <2>1. Filing(r)'
    BY <1>0, <1>1, <1>4, NotFiledYet DEF IInv, Good, RunEnd, StepOf
  <2> QED BY <1>0, <1>1, <2>1 DEF IInv, Good, Failing, Recorded
<1>6. Logging(r)'
  BY <1>0, <1>1, <1>2, NotAnsweredYet DEF IInv, Good, Recorded, InRecovery
<1>7. Counting(r)'
  <2>1. /\ run[r].attempt \in Nat /\ def.policy.maxRetries \in Nat /\ def' = def
        /\ executions[r].simulator \in Nat
    BY RunTyped, DefFacts DEF HandledAs, IInv, TypeOK
  <2>2. executions'[r].simulator <= run[r].attempt /\ executions'[r].simulator <= def.policy.maxRetries
    <3>1. /\ executions[r].simulator <= run[r].attempt - 1
          /\ executions[r].simulator <= def.policy.maxRetries
          /\ run[r].pc = "dispatch" /\ run[r].strategy \in {"RETRY", "RETRY_WITH_DELAY"} =>
               run[r].attempt <= def.policy.maxRetries
      BY <1>0 DEF IInv, Good, Counting, InRecovery, RunEnd
    <3> QED BY <2>1, <3>1
  <2> QED BY <1>0, <1>1, <2>1, <2>2 DEF HandledAs, IInv, Good, Counting, InRecovery, RunEnd
<1>8. Sparing(r)'
  BY <1>1 DEF HandledAs, IInv, Good, Sparing, Down, Success
<1>9. Past(r)'
  BY <1>1, <1>3, <1>4, PastKept DEF IInv, Good, TypeOK
<1> QED BY <1>3, <1>4, <1>5, <1>6, <1>7, <1>8, <1>9, OneRun DEF Good

\* Flagging incidents neither adds nor removes one.
LEMMA FlagEffect ==
  ASSUME incidents \in Seq([resolved : BOOLEAN, escalated : BOOLEAN]), FlagIncidents
  PROVE  /\ incidents' \in Seq([resolved : BOOLEAN, escalated : BOOLEAN])
         /\ Len(incidents') = Len(incidents)
<1> DEFINE Incidents == [resolved : BOOLEAN, escalated : BOOLEAN]
<1>0. ASSUME NEW S, NEW s \in Seq(S)
      PROVE  DOMAIN s = 1..Len(s) /\ Len(s) \in Nat /\ s \in [1..Len(s) -> S]
  OBVIOUS
<1>1. /\ DOMAIN incidents = 1..Len(incidents) /\ Len(incidents) \in Nat
      /\ incidents \in [1..Len(incidents) -> Incidents]
  BY <1>0
<1>2. ASSUME NEW i \in 1..Len(incidents) PROVE [incidents[i] EXCEPT !.escalated = TRUE] \in Incidents
  BY <1>1
<1>3. incidents' \in [1..Len(incidents) -> Incidents]
  BY <1>1, <1>2 DEF FlagIncidents
<1> HIDE DEF Incidents
<1>4. incidents' \in Seq(Incidents) /\ Len(incidents') = Len(incidents)
  BY <1>1, <1>3
<1> QED BY <1>4 DEF Incidents

\* No handler changes more than HandledStep admits.
LEMMA DispatchStep ==
  ASSUME IInv, NEW r \in Runs, HandleRetry(r) \/ HandleSkip(r) \/ LogEscalation(r) \/ HandleOther(r)
                                 \/ HandlerRejected(r)
  PROVE  IInv'
<1> DEFINE Outcome == {"resolved", "skipped", "compensated", "failed"}
<1>0. /\ executions \in [Runs -> [handler : Nat, simulator : Nat]] /\ stepStatus \in StepStatuses
      /\ incidents \in Seq([resolved : BOOLEAN, escalated : BOOLEAN]) /\ Len(incidents) \in Nat
      /\ rejections \in 0..MaxRejections
  BY DEF IInv, TypeOK
<1>1. CASE HandleRetry(r)
  <2>1. PICK outcome \in Outcome : Dispatched(r, outcome) /\ (outcome # "failed" => SimulationMayPass(run[r].down))
    BY <1>1 DEF HandleRetry
  <2>2. /\ executions' \in [Runs -> [handler : Nat, simulator : Nat]]
        /\ executions'[r].handler = executions[r].handler
        /\ executions'[r].simulator = executions[r].simulator + 1
        /\ \A x \in Runs \ {r} : executions'[x] = executions[x]
    <3>1. executions' = [executions EXCEPT ![r].simulator = @ + 1]
      BY <1>1 DEF HandleRetry
    <3> HIDE <1>1
    <3> QED BY <1>0, <3>1
  <2>3. HandledAs(r, outcome) /\ run[r].pc = "dispatch" /\ run[r].strategy \in {"RETRY", "RETRY_WITH_DELAY"}
    BY <1>1, <2>1, <2>2 DEF HandledAs, Dispatched, HandleRetry, At
  <2>4. UNCHANGED <<stepStatus, incidents, rejections>> /\ (outcome # "failed" => ~Down(r))
    BY <1>1, <2>1 DEF HandleRetry, SimulationMayPass, Down
  <2> QED BY <1>0, <2>2, <2>3, <2>4, HandledStep
<1>2. CASE HandleSkip(r)
  <2>1. /\ Dispatched(r, "skipped") /\ stepStatus' = "SKIPPED"
        /\ UNCHANGED <<def, incidents, filed, audit, executions, resolves, rejections>>
    BY <1>2 DEF HandleSkip
  <2>2. run[r].strategy = "SKIP"
    BY <2>1 DEF Dispatched, DispatchOutcomes
  <2>3. HandledAs(r, "skipped")
    BY <2>1 DEF HandledAs, Dispatched, At
  <2> QED BY <1>0, <2>1, <2>2, <2>3, HandledStep DEF StepStatuses
<1>3. CASE LogEscalation(r)
  <2>1. /\ run[r].pc = "flagged" /\ run' = [run EXCEPT ![r].pc = "find", ![r].outcome = "failed"]
        /\ audit' = audit \union {Entry(r, "ESCALATED", "NONE")}
        /\ UNCHANGED <<def, stepStatus, incidents, filed, executions, resolves, rejections>>
    BY <1>3 DEF LogEscalation, Log, At
  <2>2. HandledAs(r, "failed")
    BY <2>1 DEF HandledAs
  <2> QED BY <1>0, <2>1, <2>2, HandledStep
<1>4. CASE HandleOther(r)
  <2>1. PICK outcome \in DispatchOutcomes(run[r].strategy) : Dispatched(r, outcome)
    BY <1>4 DEF HandleOther
  <2>2. /\ outcome \in Outcome
        /\ outcome # "failed" => run[r].strategy \in {"FALLBACK", "SKIP", "COMPENSATE"}
    BY <1>4, <2>1 DEF HandleOther, DispatchOutcomes
  <2>3. UNCHANGED <<def, stepStatus, incidents, filed, audit, executions, resolves, rejections>>
    BY <1>4 DEF HandleOther
  <2>4. HandledAs(r, outcome)
    BY <2>1, <2>3 DEF HandledAs, Dispatched, At
  <2> QED BY <1>0, <2>2, <2>3, <2>4, HandledStep
<1>5. CASE HandlerRejected(r)
  <2>1. /\ HandledAs(r, "failed") /\ rejections' = rejections + 1 /\ rejections < MaxRejections
        /\ UNCHANGED <<stepStatus, executions>>
    BY <1>5 DEF HandlerRejected, HandledAs, At
  <2>2. rejections' \in 0..MaxRejections
    BY <1>0, <2>1, RecoveryAssumption
  <2> QED BY <1>0, <2>1, <2>2, HandledStep
<1> QED BY <1>1, <1>2, <1>3, <1>4, <1>5

\* An escalation that has flagged the incidents and not logged it yet.
LEMMA EscalateStep == ASSUME IInv, NEW r \in Runs, HandleEscalate(r) PROVE IInv'
<1>1. /\ run[r].pc = "dispatch" /\ Goto(r, "flagged")
      /\ UNCHANGED <<def, stepStatus, filed, audit, executions, resolves, rejections>>
  BY DEF HandleEscalate, At
<1>2. /\ run' \in [Runs -> Locals] /\ run'[r].pc = "flagged" /\ run'[r].attempt = run[r].attempt
      /\ run'[r].strategy = run[r].strategy /\ run'[r].outcome = run[r].outcome
      /\ run'[r].failure = run[r].failure /\ run'[r].down = run[r].down
      /\ \A x \in Runs \ {r} : run'[x] = run[x]
  BY <1>1, RunTyped, GotoEffect DEF IInv, RunPcs
<1>3. incidents' \in Seq([resolved : BOOLEAN, escalated : BOOLEAN]) /\ Len(incidents') = Len(incidents)
  BY FlagEffect DEF IInv, TypeOK, HandleEscalate
<1>4. TypeOK'
  BY <1>1, <1>2, <1>3 DEF IInv, TypeOK, Locals
<1>5. StepOf(r) /\ Past(r)'
  <2>1. /\ UNCHANGED <<def, filed, audit>> /\ TypeOK /\ Past(r) /\ Len(incidents) <= Len(incidents')
        /\ \A x \in Runs \ {r} : run'[x] = run[x] /\ executions'[x] = executions[x]
    BY <1>1, <1>2, <1>3 DEF IInv, Good, TypeOK
  <2> QED BY <1>2, <1>3, <2>1, Moves
<1>6. Filing(r)'
  BY <1>1, <1>2, <1>5, NotFiledYet DEF IInv, Good, RunEnd, StepOf
<1>7. Failing(r)' /\ Sparing(r)'
  BY <1>1, <1>2 DEF IInv, Good, Failing, Sparing, Down, Recorded, InRecovery
<1>8. Logging(r)'
  BY <1>1, <1>2, NotAnsweredYet DEF IInv, Good, Recorded, InRecovery
<1>9. Counting(r)'
  BY <1>1, <1>2 DEF IInv, Good, Counting, InRecovery, RunEnd
<1> QED BY <1>4, <1>5, <1>6, <1>7, <1>8, <1>9, OneRun DEF Good

-----------------------------------------------------------------------------
(* Incidents and records *)

\* A run that finds an open incident, or none.
LEMMA FindStep == ASSUME IInv, NEW r \in Runs, FindIncident(r) PROVE IInv'
<1>1. /\ run[r].pc = "find"
      /\ UNCHANGED <<def, stepStatus, incidents, filed, audit, executions, resolves, rejections>>
  BY DEF FindIncident, At
<1>2. PICK pc \in {"create", "file"}, i \in 0..Len(incidents) :
        /\ run' = [run EXCEPT ![r].pc = pc, ![r].incident = i]
        /\ pc = "file" => i \in 1..Len(incidents)
  <2>1. run \in [Runs -> Locals] /\ run[r] \in Locals
    BY RunTyped DEF IInv
  <2>2. CASE Goto(r, "create")
    <3>1. run' = [run EXCEPT ![r].pc = "create", ![r].incident = run[r].incident]
      BY <2>1, <2>2 DEF Goto, Locals
    <3>2. run[r].incident \in 0..Len(incidents)
      BY <2>1 DEF Locals
    <3> QED BY <3>1, <3>2
  <2>3. CASE \E i \in OpenIncidents : run' = [run EXCEPT ![r].pc = "file", ![r].incident = i]
    <3>1. PICK i \in OpenIncidents : run' = [run EXCEPT ![r].pc = "file", ![r].incident = i]
      BY <2>3
    <3>2. i \in 1..Len(incidents) /\ i \in 0..Len(incidents)
      BY <3>1 DEF OpenIncidents, IInv, TypeOK
    <3> QED BY <3>1, <3>2
  <2> QED BY <2>2, <2>3 DEF FindIncident
<1> DEFINE moved == [run[r] EXCEPT !.pc = pc, !.incident = i]
<1>3. /\ run' \in [Runs -> Locals] /\ run'[r].pc = pc /\ run'[r].attempt = run[r].attempt
      /\ run'[r].incident = i /\ run'[r].outcome = run[r].outcome
      /\ run'[r].strategy = run[r].strategy
      /\ run'[r].failure = run[r].failure /\ run'[r].down = run[r].down
      /\ \A x \in Runs \ {r} : run'[x] = run[x]
  <2>1. run \in [Runs -> Locals] /\ run[r] \in Locals
    BY RunTyped DEF IInv
  <2>2. /\ moved \in Locals /\ moved.pc = pc /\ moved.attempt = run[r].attempt
        /\ moved.incident = i /\ moved.outcome = run[r].outcome
        /\ moved.strategy = run[r].strategy /\ moved.failure = run[r].failure /\ moved.down = run[r].down
    BY <2>1 DEF Locals, RunPcs
  <2>3. run' = [run EXCEPT ![r] = moved]
    BY <1>2, <2>1
  <2> QED BY <2>1, <2>2, <2>3
<1>4. TypeOK'
  BY <1>1, <1>3 DEF IInv, TypeOK, Locals
<1>5. StepOf(r)
  BY <1>1, <1>3 DEF StepOf, IInv, TypeOK
<1>6. Failing(r)' /\ Counting(r)' /\ Sparing(r)'
  BY <1>1, <1>3 DEF IInv, Good, Failing, Counting, Sparing, Down, Success, Recorded, InRecovery, RunEnd
<1>7. Filing(r)'
  <2>1. \A f \in filed : f.run = r =>
          f.attempt <= run[r].attempt /\ f.attempt # run[r].attempt /\ f.incident \in 1..Len(incidents)
    BY <1>1 DEF IInv, Good, Filing, RunEnd
  <2> QED BY <1>1, <1>2, <1>3, <2>1 DEF IInv, Good, Filing
<1>8. Logging(r)'
  BY <1>1, <1>3, NotAnsweredYet DEF IInv, Good, Recorded, InRecovery
<1>9. Past(r)'
  BY <1>3, <1>4, <1>5, PastKept DEF IInv, Good, TypeOK
<1> QED BY <1>4, <1>5, <1>6, <1>7, <1>8, <1>9, OneRun DEF Good

\* A new incident.
LEMMA CreateStep == ASSUME IInv, NEW r \in Runs, CreateIncident(r) PROVE IInv'
<1> DEFINE n == Len(incidents) + 1
           moved == [run[r] EXCEPT !.pc = "file", !.incident = n]
<1>1. /\ run[r].pc = "create" /\ run' = [run EXCEPT ![r].pc = "file", ![r].incident = n]
      /\ incidents' = Append(incidents, [resolved |-> FALSE, escalated |-> FALSE])
      /\ UNCHANGED <<def, stepStatus, filed, audit, executions, resolves, rejections>>
  BY DEF CreateIncident, At
<1>2. /\ Len(incidents) \in Nat /\ Len(incidents') = n
      /\ incidents' \in Seq([resolved : BOOLEAN, escalated : BOOLEAN])
  BY <1>1 DEF IInv, TypeOK
<1>3. /\ run' \in [Runs -> Locals'] /\ run'[r].pc = "file" /\ run'[r].attempt = run[r].attempt
      /\ run'[r].incident = n /\ run'[r].outcome = run[r].outcome
      /\ run'[r].strategy = run[r].strategy
      /\ run'[r].failure = run[r].failure /\ run'[r].down = run[r].down
      /\ \A x \in Runs \ {r} : run'[x] = run[x]
  <2>1. run \in [Runs -> Locals]
    BY RunTyped DEF IInv
  <2>2. Locals \subseteq Locals'
    BY <1>2 DEF Locals
  <2>3. run \in [Runs -> Locals'] /\ run[r] \in Locals'
    BY <2>1, <2>2
  <2>4. /\ moved \in Locals' /\ moved.pc = "file" /\ moved.attempt = run[r].attempt
        /\ moved.incident = n /\ moved.outcome = run[r].outcome
        /\ moved.strategy = run[r].strategy /\ moved.failure = run[r].failure /\ moved.down = run[r].down
    <3>1. n \in 0..Len(incidents')
      BY <1>2
    <3> HIDE DEF n
    <3> QED BY <2>3, <3>1 DEF Locals, RunPcs
  <2>5. run' = [run EXCEPT ![r] = moved]
    BY <1>1, <2>3
  <2> QED BY <2>3, <2>4, <2>5
<1>4. TypeOK'
  BY <1>1, <1>2, <1>3 DEF IInv, TypeOK, Locals
<1>5. StepOf(r)
  BY <1>1, <1>2, <1>3 DEF StepOf
<1>6. Failing(r)' /\ Counting(r)' /\ Sparing(r)'
  BY <1>1, <1>3 DEF IInv, Good, Failing, Counting, Sparing, Down, Success, Recorded, InRecovery, RunEnd
<1>7. Filing(r)'
  <2>1. \A f \in filed : f.run = r =>
          f.attempt <= run[r].attempt /\ f.attempt # run[r].attempt /\ f.incident \in 1..Len(incidents')
    <3>1. \A f \in filed : f.run = r =>
            f.attempt <= run[r].attempt /\ f.attempt # run[r].attempt /\ f.incident \in 1..Len(incidents)
      BY <1>1 DEF IInv, Good, Filing, RunEnd
    <3> QED BY <1>2, <3>1
  <2>2. run'[r].incident \in 1..Len(incidents')
    BY <1>2, <1>3
  <2> QED BY <1>1, <1>3, <2>1, <2>2 DEF IInv, Good, Filing
<1>8. Logging(r)'
  BY <1>1, <1>3, NotAnsweredYet DEF IInv, Good, Recorded, InRecovery
<1>9. Past(r)'
  BY <1>3, <1>4, <1>5, PastKept DEF IInv, Good, TypeOK
<1> QED BY <1>4, <1>5, <1>6, <1>7, <1>8, <1>9, OneRun DEF Good

\* The attempt is filed, once.
LEMMA FileStep == ASSUME IInv, NEW r \in Runs, FileAttempt(r) PROVE IInv'
<1> DEFINE row == [run |-> r, attempt |-> run[r].attempt, incident |-> run[r].incident,
                   success |-> Success(r), failure |-> run[r].failure]
<1>1. /\ run[r].pc = "file" /\ filed' = filed \union {row} /\ Goto(r, "log")
      /\ UNCHANGED <<def, stepStatus, incidents, audit, executions, resolves, rejections>>
  BY DEF FileAttempt, At
<1>2. /\ run' \in [Runs -> Locals] /\ run'[r].pc = "log" /\ run'[r].attempt = run[r].attempt
      /\ run'[r].strategy = run[r].strategy /\ run'[r].outcome = run[r].outcome
      /\ run'[r].incident = run[r].incident /\ run'[r].failure = run[r].failure
      /\ run'[r].down = run[r].down
      /\ \A x \in Runs \ {r} : run'[x] = run[x]
  BY <1>1, RunTyped, GotoEffect DEF IInv, RunPcs
<1>3. /\ run[r].failure \in FailureTypes /\ run[r].incident \in 1..Len(incidents)
      /\ run[r].attempt \in Nat /\ Len(incidents) \in Nat
  <2>1. run[r].attempt \in Nat /\ Len(incidents) \in Nat
    BY RunTyped DEF IInv, TypeOK
  <2>2. run[r].failure \in FailureTypes
    BY <1>1 DEF IInv, Good, Failing, Recorded, InRecovery
  <2>3. run[r].incident \in 1..Len(incidents)
    BY <1>1 DEF IInv, Good, Filing
  <2> QED BY <2>1, <2>2, <2>3
<1>4. row \in [run : Runs, attempt : Nat, incident : Nat, success : BOOLEAN, failure : FailureTypes]
  BY <1>3 DEF Success
<1>5. row.run = r /\ row.attempt = run[r].attempt /\ row.incident = run[r].incident
  OBVIOUS
<1>6. row = [run |-> r, attempt |-> run'[r].attempt, incident |-> run'[r].incident,
             success |-> Success(r)', failure |-> run'[r].failure]
  BY <1>2 DEF Success
<1> HIDE DEF row
<1>7. TypeOK'
  BY <1>1, <1>2, <1>4 DEF IInv, TypeOK, Locals
<1>8. StepOf(r)
  BY <1>1, <1>2, <1>3, <1>5 DEF StepOf
<1>9. Failing(r)' /\ Counting(r)' /\ Sparing(r)'
  BY <1>1, <1>2 DEF IInv, Good, Failing, Counting, Sparing, Down, Success, Recorded, InRecovery, RunEnd
<1>10. Filing(r)'
  <2>1. \A f \in filed : f.run = r =>
          f.attempt <= run[r].attempt /\ f.attempt # run[r].attempt /\ f.incident \in 1..Len(incidents)
    BY <1>1 DEF IInv, Good, Filing, RunEnd
  <2>2. \A f, g \in filed : f.run = r /\ g.run = r /\ f.attempt = g.attempt => f = g
    BY DEF IInv, Good, Filing
  <2>3. \A f, g \in filed' : f.run = r /\ g.run = r /\ f.attempt = g.attempt => f = g
    BY <1>1, <1>5, <2>1, <2>2
  <2>4. \A f \in filed' : f.run = r => f.attempt <= run[r].attempt /\ f.incident \in 1..Len(incidents)
    BY <1>1, <1>3, <1>5, <2>1
  <2> QED BY <1>1, <1>2, <1>6, <2>3, <2>4 DEF Filing
<1>11. Logging(r)'
  BY <1>1, <1>2, NotAnsweredYet DEF IInv, Good, Recorded, InRecovery
<1>12. Past(r)'
  BY <1>2, <1>7, <1>8, PastKept DEF IInv, Good, TypeOK
<1> QED BY <1>7, <1>8, <1>9, <1>10, <1>11, <1>12, OneRun DEF Good

\* The outcome of recovery is logged.
LEMMA LogRecoveryStep == ASSUME IInv, NEW r \in Runs, LogRecovery(r) PROVE IInv'
<1> DEFINE action == IF Success(r) THEN "RECOVERY_SUCCEEDED" ELSE "RECOVERY_FAILED"
<1>1. /\ run[r].pc = "log" /\ audit' = audit \union {Entry(r, action, "NONE")} /\ Goto(r, "answer")
      /\ UNCHANGED <<def, stepStatus, incidents, filed, executions, resolves, rejections>>
  BY DEF LogRecovery, At, Log
<1>2. /\ run' \in [Runs -> Locals] /\ run'[r].pc = "answer" /\ run'[r].attempt = run[r].attempt
      /\ run'[r].strategy = run[r].strategy /\ run'[r].outcome = run[r].outcome
      /\ run'[r].incident = run[r].incident /\ run'[r].failure = run[r].failure
      /\ run'[r].down = run[r].down
      /\ \A x \in Runs \ {r} : run'[x] = run[x]
  BY <1>1, RunTyped, GotoEffect DEF IInv, RunPcs
<1>3. /\ audit \subseteq audit' /\ Entry(r, action, "NONE") \in audit'
      /\ \A a \in audit' \ audit : a.run = r /\ a.attempt = run[r].attempt /\ a.action = action
      /\ audit' \subseteq [run : Runs, attempt : Nat, action : AuditActions,
                           failure : FailureTypes \union {"NONE"}]
  BY <1>1, LogEffect DEF IInv, AuditActions
<1>4. TypeOK'
  BY <1>1, <1>2, <1>3 DEF IInv, TypeOK, Locals
<1>5. StepOf(r)
  BY <1>1, <1>2, <1>3 DEF StepOf, IInv, TypeOK
<1>6. Failing(r)' /\ Counting(r)' /\ Sparing(r)'
  BY <1>1, <1>2 DEF IInv, Good, Failing, Counting, Sparing, Down, Success, Recorded, InRecovery, RunEnd
<1>7. Filing(r)'
  BY <1>1, <1>2 DEF IInv, Good, Filing, Success, RunEnd
<1>8. Logging(r)'
  <2>1. Entry(r, "FAILURE_DETECTED", run[r].failure)' \in audit'
    BY <1>1, <1>2, <1>3 DEF IInv, Good, Logging, Entry, Recorded, InRecovery
  <2>2. \A a \in audit : a.run = r /\ a.attempt = run[r].attempt => a.action # "RECOVERY_SUCCEEDED"
    BY <1>1 DEF IInv, Good, Logging, RunEnd
  <2>3. \A a \in audit' : a.run = r => a.attempt <= run[r].attempt
    BY <1>3, RunTyped DEF IInv, Good, Logging
  <2>4. Logged(r, run[r].attempt, "RECOVERY_SUCCEEDED")' <=> Success(r)'
    <3>1. Success(r)' <=> Success(r)
      BY <1>2 DEF Success
    <3>2. CASE Success(r)
      BY <1>2, <1>3, <3>1, <3>2 DEF Logged, Entry
    <3>3. CASE ~Success(r)
      BY <1>2, <1>3, <2>2, <3>1, <3>3 DEF Logged
    <3> QED BY <3>2, <3>3
  <2> QED BY <1>2, <2>1, <2>3, <2>4 DEF Logging, Recorded, InRecovery
<1>9. Past(r)'
  BY <1>2, <1>4, <1>5, PastKept DEF IInv, Good, TypeOK
<1> QED BY <1>4, <1>5, <1>6, <1>7, <1>8, <1>9, OneRun DEF Good

-----------------------------------------------------------------------------
(* What the loop makes of the answer *)

\* At "answer" the current attempt is on record.
LEMMA AnswerOnRecord ==
  ASSUME TypeOK, NEW r \in Runs, Good(r), run[r].pc = "answer"
  PROVE  OnRecord(r, run[r].attempt)
<1> DEFINE row == [run |-> r, attempt |-> run[r].attempt, incident |-> run[r].incident,
                   success |-> Success(r), failure |-> run[r].failure]
<1>1. /\ row \in filed /\ row.run = r /\ row.attempt = run[r].attempt /\ row.failure = run[r].failure
      /\ row.success = Success(r)
  BY DEF Good, Filing
<1> HIDE DEF row
<1>2. row.incident \in DOMAIN incidents
  BY <1>1 DEF Good, Filing, TypeOK
<1>3. row.success <=> Logged(r, run[r].attempt, "RECOVERY_SUCCEEDED")
  BY <1>1 DEF Good, Logging
<1>4. \E a \in audit : /\ a.run = r /\ a.attempt = run[r].attempt
                       /\ a.action = "FAILURE_DETECTED" /\ a.failure = row.failure
  <2>1. Entry(r, "FAILURE_DETECTED", run[r].failure) \in audit
    BY DEF Good, Logging, Recorded, InRecovery
  <2> QED BY <1>1, <2>1 DEF Entry
<1>5. \A g \in filed : g.run = r /\ g.attempt = run[r].attempt => g = row
  BY <1>1 DEF Good, Filing
<1> QED BY <1>1, <1>2, <1>3, <1>4, <1>5 DEF OnRecord

\* What follows an answer adds no row and no entry, and leaves only what is on
\* record behind.
LEMMA AnswerLeft ==
  ASSUME IInv, NEW r \in Runs, run[r].pc = "answer",
         UNCHANGED <<def, incidents, filed, audit, executions>>,
         \A x \in Runs \ {r} : run'[x] = run[x],
         run'[r].attempt \in run[r].attempt..(run[r].attempt + 1)
  PROVE  StepOf(r) /\ Past(r)'
<1>1. StepOf(r)
  BY DEF StepOf, IInv, TypeOK
<1>2. run[r].attempt \in Nat
  BY RunTyped DEF IInv
<1>3. ASSUME NEW n \in Nat, LeftBehind(r, n)' PROVE OnRecord(r, n)'
  <2>1. OnRecord(r, n)' <=> OnRecord(r, n)
    BY DEF OnRecord, Logged
  <2>2. Logged(r, n, "FAILURE_DETECTED")
    BY <1>3 DEF LeftBehind, Logged
  <2>3. n <= run[r].attempt
    BY <2>2 DEF Logged, IInv, Good, Logging
  <2>4. CASE n = run[r].attempt
    BY <2>1, <2>4, AnswerOnRecord DEF IInv
  <2>5. CASE n # run[r].attempt
    <3>1. LeftBehind(r, n)
      BY <1>2, <2>2, <2>3, <2>5 DEF LeftBehind
    <3> QED BY <2>1, <3>1 DEF IInv, Good, Past
  <2> QED BY <2>4, <2>5
<1> QED BY <1>1, <1>3 DEF Past

\* The step is settled, or given up.
LEMMA EndStep == ASSUME IInv, NEW r \in Runs, SettleStep(r) \/ Exhaust(r) PROVE IInv'
<1>1. PICK pc \in {"settled", "exhausted"} :
        /\ run[r].pc = "answer" /\ Goto(r, pc) /\ (pc = "settled" => Success(r))
        /\ stepStatus' \in StepStatuses
        /\ UNCHANGED <<def, incidents, filed, audit, executions, resolves, rejections>>
  BY DEF SettleStep, Exhaust, At, IInv, TypeOK, StepStatuses
<1>2. /\ run' \in [Runs -> Locals] /\ run'[r].pc = pc /\ run'[r].attempt = run[r].attempt
      /\ run'[r].strategy = run[r].strategy /\ run'[r].outcome = run[r].outcome
      /\ run'[r].failure = run[r].failure /\ run'[r].down = run[r].down
      /\ \A x \in Runs \ {r} : run'[x] = run[x]
  BY <1>1, RunTyped, GotoEffect DEF IInv, RunPcs
<1>3. TypeOK'
  BY <1>1, <1>2 DEF IInv, TypeOK, Locals
<1>4. StepOf(r) /\ Past(r)'
  BY <1>1, <1>2, RunTyped, AnswerLeft DEF IInv
<1>5. Failing(r)' /\ Counting(r)' /\ Sparing(r)'
  BY <1>1, <1>2 DEF IInv, Good, Failing, Counting, Sparing, Down, Success, Recorded, InRecovery, RunEnd
<1>6. Filing(r)'
  BY <1>1, <1>2 DEF IInv, Good, Filing, RunEnd
<1>7. Logging(r)'
  BY <1>1, <1>2 DEF IInv, Good, Logging, Logged, Recorded, InRecovery, RunEnd
<1> QED BY <1>3, <1>4, <1>5, <1>6, <1>7, OneRun DEF Good

\* The next attempt begins, with what recovery has hinted at.
LEMMA NextAttemptStep == ASSUME IInv, NEW r \in Runs, NextAttempt(r) PROVE IInv'
<1> DEFINE hint  == Hinted(run[r].hint, run[r].strategy)
           moved == [run[r] EXCEPT !.pc = "execute", !.attempt = @ + 1, !.hint = hint]
<1>1. /\ run[r].pc = "answer" /\ ~LastAttempt(r)
      /\ run' = [run EXCEPT ![r].pc = "execute", ![r].attempt = @ + 1, ![r].hint = hint]
      /\ UNCHANGED <<def, stepStatus, incidents, filed, audit, executions, resolves, rejections>>
  BY DEF NextAttempt, At
<1>2. /\ run[r].attempt \in Nat /\ run[r].attempt + 1 <= MaxAttempts(def.policy)
      /\ run[r].attempt + 1 \in 1..(MaxRetriesAllowed + 1)
  <2>1. MaxAttempts(def.policy) \in 1..(MaxRetriesAllowed + 1)
    BY DefFacts DEF IInv, TypeOK
  <2>2. run[r].attempt \in Nat
    BY RunTyped DEF IInv
  <2> QED BY <1>1, <2>1, <2>2 DEF LastAttempt, MaxRetriesAllowed
<1>3. /\ run' \in [Runs -> Locals] /\ run'[r].pc = "execute" /\ run'[r].attempt = run[r].attempt + 1
      /\ run'[r].down = run[r].down /\ \A x \in Runs \ {r} : run'[x] = run[x]
  <2>1. run \in [Runs -> Locals] /\ run[r] \in Locals
    BY RunTyped DEF IInv
  <2>2. hint \in Hints
    <3>1. run[r].hint \in Hints /\ def.nextModel \in Models \union {"none"}
      BY <2>1, DefFacts DEF Locals, IInv, TypeOK
    <3> QED BY <3>1 DEF Hinted, Hints
  <2> HIDE DEF hint
  <2>3. /\ moved \in Locals /\ moved.pc = "execute" /\ moved.attempt = run[r].attempt + 1
        /\ moved.down = run[r].down
    BY <1>2, <2>1, <2>2 DEF Locals, RunPcs
  <2>4. run' = [run EXCEPT ![r] = moved]
    BY <1>1, <2>1
  <2> QED BY <2>1, <2>3, <2>4
<1>4. TypeOK'
  BY <1>1, <1>3 DEF IInv, TypeOK, Locals
<1>5. StepOf(r) /\ Past(r)'
  <2>1. run'[r].attempt \in run[r].attempt..(run[r].attempt + 1)
    BY <1>2, <1>3
  <2> QED BY <1>1, <1>3, <2>1, AnswerLeft
<1>6. Failing(r)' /\ Sparing(r)'
  BY <1>1, <1>3 DEF Failing, Sparing, Recorded, InRecovery
<1>7. Counting(r)'
  BY <1>1, <1>2, <1>3 DEF IInv, Good, Counting, InRecovery, RunEnd
<1>8. Filing(r)'
  <2>1. \A f \in filed : f.run = r =>
          f.attempt <= run'[r].attempt /\ f.attempt # run'[r].attempt /\ f.incident \in 1..Len(incidents)
    <3>1. ASSUME NEW f \in filed, f.run = r
          PROVE  f.attempt \in Nat /\ f.attempt <= run[r].attempt /\ f.incident \in 1..Len(incidents)
      <4>1. f.attempt \in Nat
        BY DEF IInv, TypeOK
      <4> QED BY <3>1, <4>1 DEF IInv, Good, Filing
    <3> QED BY <1>2, <1>3, <3>1
  <2> QED BY <1>1, <1>3, <2>1 DEF IInv, Good, Filing
<1>9. Logging(r)'
  <2>1. \A a \in audit : a.run = r => a.attempt <= run'[r].attempt /\ a.attempt # run'[r].attempt
    BY <1>2, <1>3 DEF IInv, TypeOK, Good, Logging
  <2> QED BY <1>1, <1>3, <2>1 DEF Logging, Recorded, InRecovery
<1> QED BY <1>4, <1>5, <1>6, <1>7, <1>8, <1>9, OneRun DEF Good

-----------------------------------------------------------------------------
(* Faults and operators *)

\* A rejected call breaks off one run.
LEMMA RejectStep == ASSUME IInv, NEW r \in Runs, RejectedCall(r) PROVE IInv'
<1>1. /\ run[r].pc \in RunPcs \ (RunEnd \union {"idle", "persisted", "flagged"}) /\ Goto(r, "aborted")
      /\ rejections' \in 0..MaxRejections
      /\ UNCHANGED <<def, stepStatus, incidents, filed, audit, executions, resolves>>
  BY RecoveryAssumption DEF RejectedCall, IInv, TypeOK
<1>2. /\ run' \in [Runs -> Locals] /\ run'[r].pc = "aborted" /\ run'[r].attempt = run[r].attempt
      /\ run'[r].down = run[r].down
      /\ \A x \in Runs \ {r} : run'[x] = run[x]
  BY <1>1, RunTyped, GotoEffect DEF IInv, RunPcs
<1>3. TypeOK'
  BY <1>1, <1>2 DEF IInv, TypeOK, Locals
<1>4. StepOf(r)
  BY <1>1, <1>2 DEF StepOf, IInv, TypeOK
<1>5. Failing(r)' /\ Sparing(r)'
  BY <1>1, <1>2 DEF Failing, Sparing, Recorded, InRecovery
<1>6. Counting(r)'
  <2>1. /\ executions[r].handler \in Nat /\ executions[r].simulator \in Nat /\ run[r].attempt \in Nat
    BY RunTyped DEF IInv, TypeOK
  <2>2. executions[r].handler <= run[r].attempt /\ executions[r].simulator <= run[r].attempt
    BY <2>1 DEF IInv, Good, Counting
  <2> QED BY <1>1, <1>2, <2>1, <2>2 DEF IInv, Good, Counting, InRecovery, RunEnd
<1>7. Filing(r)'
  BY <1>1, <1>2 DEF IInv, Good, Filing, RunEnd
<1>8. Logging(r)'
  BY <1>1, <1>2 DEF IInv, Good, Logging, Recorded, InRecovery, RunEnd
<1>9. Past(r)'
  BY <1>2, <1>3, <1>4, PastKept DEF IInv, Good, TypeOK
<1> QED BY <1>3, <1>4, <1>5, <1>6, <1>7, <1>8, <1>9, OneRun DEF Good

\* Replacing an element of a sequence.
LEMMA ExceptSeq ==
  ASSUME NEW S, NEW s \in Seq(S), NEW i \in DOMAIN s, NEW x \in S
  PROVE  /\ [s EXCEPT ![i] = x] \in Seq(S) /\ Len([s EXCEPT ![i] = x]) = Len(s)
         /\ DOMAIN [s EXCEPT ![i] = x] = DOMAIN s /\ s[i] \in S
OBVIOUS

\* An operator resolves an incident, under which rows may be filed.
LEMMA ResolveStep == ASSUME IInv, NEW i \in DOMAIN incidents, ResolveIncident(i) PROVE IInv'
<1>1. /\ resolves' \in 0..MaxResolves
      /\ UNCHANGED <<def, stepStatus, filed, audit, run, executions, rejections>>
  BY RecoveryAssumption DEF ResolveIncident, IInv, TypeOK
<1>2. /\ incidents' \in Seq([resolved : BOOLEAN, escalated : BOOLEAN])
      /\ Len(incidents') = Len(incidents) /\ DOMAIN incidents' = DOMAIN incidents
  <2>1. incidents' = [incidents EXCEPT ![i].resolved = TRUE]
    BY DEF ResolveIncident
  <2>2. incidents \in Seq([resolved : BOOLEAN, escalated : BOOLEAN])
    BY DEF IInv, TypeOK
  <2>3. [incidents[i] EXCEPT !.resolved = TRUE] \in [resolved : BOOLEAN, escalated : BOOLEAN]
    <3>1. [resolved |-> TRUE, escalated |-> TRUE] \in [resolved : BOOLEAN, escalated : BOOLEAN]
      OBVIOUS
    <3>2. incidents[i] \in [resolved : BOOLEAN, escalated : BOOLEAN]
      BY <2>2, <3>1, ExceptSeq
    <3> QED BY <3>2
  <2>4. incidents' = [incidents EXCEPT ![i] = [incidents[i] EXCEPT !.resolved = TRUE]]
    BY <2>1, <2>2
  <2> QED BY <2>2, <2>3, <2>4, ExceptSeq
<1>3. TypeOK'
  BY <1>1, <1>2 DEF IInv, TypeOK
<1>4. ASSUME NEW r \in Runs PROVE Good(r)'
  <2>1. Failing(r)' /\ Counting(r)' /\ Sparing(r)'
    BY <1>1 DEF IInv, Good, Failing, Counting, Sparing, Down, Success
  <2>2. Filing(r)'
    BY <1>1, <1>2 DEF IInv, Good, Filing, Success
  <2>3. Logging(r)'
    BY <1>1 DEF IInv, Good, Logging, Logged, Entry, Success
  <2>4. Past(r)'
    BY <1>1, <1>2 DEF IInv, Good, Past, LeftBehind, OnRecord, Logged
  <2> QED BY <2>1, <2>2, <2>3, <2>4 DEF Good
<1> QED BY <1>3, <1>4 DEF IInv

\* Where nothing changes, nothing is lost.
LEMMA StutterStep == ASSUME IInv, UNCHANGED vars PROVE IInv'
<1>1. TypeOK'
  BY DEF vars, IInv, TypeOK
<1>2. ASSUME NEW r \in Runs PROVE Good(r)'
  BY DEF vars, IInv, Good, Failing, Filing, Logging, Counting, Sparing, Down, Past, LeftBehind,
         OnRecord, Logged, Entry, Success
<1> QED BY <1>1, <1>2 DEF IInv

\* Every step preserves the invariant.
LEMMA NextStep == ASSUME IInv, [Next]_vars PROVE IInv'
BY StartStep, SucceedStep, LogCompletedStep, FailStep, LogFailureStep, RecordStep, EndStep,
   NextAttemptStep, DispatchStep, EscalateStep, FindStep, CreateStep, FileStep, LogRecoveryStep, CatchStep,
   RejectStep, ResolveStep, StutterStep
   DEF Next, Loop, Recover, Fault

-----------------------------------------------------------------------------
(* Theorems *)

\* The invariant is inductive.
THEOREM Inductive == Spec => []IInv
BY InitInvariant, NextStep, PTL DEF Spec

\* Type correctness, for every value of the constants.
THEOREM TypeCorrect == Spec => []TypeOK
BY Inductive, PTL DEF IInv

\* Every failure that was left behind is on record exactly once.
THEOREM Answered == Spec => []FailuresAreAnswered
<1>1. IInv => FailuresAreAnswered
  <2> SUFFICES ASSUME IInv, NEW r \in Runs, NEW n \in 1..(MaxRetriesAllowed + 1), LeftBehind(r, n)
               PROVE  OnRecord(r, n)
    BY DEF FailuresAreAnswered, OnRecord
  <2>1. n \in Nat
    BY DEF MaxRetriesAllowed
  <2> QED BY <2>1 DEF IInv, Good, Past
<1> QED BY <1>1, Inductive, PTL

\* The step's handler and its simulation are called as often as the policy
\* allows, at most.
THEOREM Bounded == Spec => []ExecutionsBounded
<1>1. IInv => ExecutionsBounded
  <2> SUFFICES ASSUME IInv, NEW r \in Runs
               PROVE  /\ executions[r].handler <= MaxAttempts(def.policy)
                      /\ executions[r].simulator <= def.policy.maxRetries
    BY DEF ExecutionsBounded
  <2>1. /\ run[r].attempt \in Nat /\ MaxAttempts(def.policy) \in Nat /\ executions[r].handler \in Nat
    <3>1. TypeOK /\ def \in StepDefs /\ executions[r].handler \in Nat
      BY DEF IInv, TypeOK
    <3>2. MaxAttempts(def.policy) \in 1..(MaxRetriesAllowed + 1)
      BY <3>1, DefFacts
    <3>3. run[r].attempt \in Nat
      BY <3>1, RunTyped
    <3> QED BY <3>1, <3>2, <3>3 DEF MaxRetriesAllowed
  <2> QED BY <2>1 DEF IInv, Good, Counting
<1> QED BY <1>1, Inductive, PTL

\* Who settles a step has a success in the audit log.
THEOREM Settled == Spec => []SettledForAReason
<1>1. IInv => SettledForAReason
  BY DEF IInv, Good, Logging, SettledForAReason, At
<1> QED BY <1>1, Inductive, PTL

\* A service that was down is not used to settle a step.
THEOREM DownIsSpared == Spec => []DownServiceIsNotUsed
<1>1. IInv => DownServiceIsNotUsed
  BY DEF IInv, Good, Sparing, Down, DownServiceIsNotUsed, At
<1> QED BY <1>1, Inductive, PTL

-----------------------------------------------------------------------------
(* The loop implements the contract *)

\* What the contract sees of a run.
PhaseOf(r) == Phase(run[r].pc)
TriesOf(r) == IF At(r, "idle") THEN 0 ELSE run[r].attempt

\* Init implements the contract's.
LEMMA ContractInit == Init => Contract!Init
<1> SUFFICES ASSUME Init PROVE Contract!Init
  OBVIOUS
<1>1. MaxAttempts(def.policy) \in Nat \ {0}
  <2>1. MaxAttempts(def.policy) \in 1..(MaxRetriesAllowed + 1)
    BY DefFacts DEF Init
  <2> QED BY <2>1 DEF MaxRetriesAllowed
<1> QED BY <1>1 DEF Init, IdleRun, At, Phase, RunEnd, Contract!Init

\* A step of run r is the contract's, if the phases it joins are.
LEMMA ContractMove ==
  ASSUME NEW r \in Runs, def' = def, run' = [run EXCEPT ![r] = run'[r]], run \in [Runs -> Locals],
         run[r].attempt \in Nat, run'[r].attempt \in Nat, MaxAttempts(def.policy) \in Nat,
         \/ /\ PhaseOf(r) \in {"waiting", "failed"} /\ PhaseOf(r)' = "trying"
            /\ TriesOf(r) < MaxAttempts(def.policy) /\ TriesOf(r)' = TriesOf(r) + 1
         \/ /\ TriesOf(r)' = TriesOf(r)
            /\ \/ PhaseOf(r) = "trying" /\ PhaseOf(r)' \in {"settled", "failed", "aborted"}
               \/ PhaseOf(r) = "failed" /\ PhaseOf(r)' \in {"settled", "aborted"}
               \/ /\ PhaseOf(r) = "failed" /\ PhaseOf(r)' = "exhausted"
                  /\ TriesOf(r) = MaxAttempts(def.policy)
               \/ PhaseOf(r)' = PhaseOf(r)
  PROVE  [Contract!Next]_(Contract!contract)
<1> DEFINE phase == [x \in Runs |-> Phase(run[x].pc)]
           tries == [x \in Runs |-> IF At(x, "idle") THEN 0 ELSE run[x].attempt]
           limit == MaxAttempts(def.policy)
<1>1. /\ phase[r] = PhaseOf(r) /\ tries[r] = TriesOf(r) /\ limit' = limit
      /\ phase' = [phase EXCEPT ![r] = PhaseOf(r)'] /\ tries' = [tries EXCEPT ![r] = TriesOf(r)']
      /\ phase = [x \in Runs |-> phase[x]] /\ tries = [x \in Runs |-> tries[x]]
      /\ TriesOf(r) \in Nat
  BY DEF PhaseOf, TriesOf, At
<1> HIDE DEF phase, tries, limit
<1>2. CASE /\ PhaseOf(r) \in {"waiting", "failed"} /\ PhaseOf(r)' = "trying"
           /\ TriesOf(r) < limit /\ TriesOf(r)' = TriesOf(r) + 1
  <2>1. tries' = [tries EXCEPT ![r] = @ + 1] /\ phase' = [phase EXCEPT ![r] = "trying"]
        /\ phase[r] \in {"waiting", "failed"} /\ tries[r] < limit /\ limit' = limit
    BY <1>1, <1>2
  <2>2. Contract!Try(r)
    BY <2>1 DEF Contract!Try, Contract!Becomes, phase, tries, limit
  <2> QED BY <2>2 DEF Contract!Next
<1>3. CASE TriesOf(r)' = TriesOf(r)
  <2>1. tries' = tries /\ limit' = limit
    BY <1>1, <1>3
  <2>2. CASE phase[r] = "trying" /\ phase' = [phase EXCEPT ![r] = "settled"]
    <3>1. Contract!Succeed(r)
      BY <2>1, <2>2 DEF Contract!Succeed, Contract!Becomes, phase, tries, limit
    <3> QED BY <3>1 DEF Contract!Next
  <2>3. CASE phase[r] = "trying" /\ phase' = [phase EXCEPT ![r] = "failed"]
    <3>1. Contract!Fail(r)
      BY <2>1, <2>3 DEF Contract!Fail, Contract!Becomes, phase, tries, limit
    <3> QED BY <3>1 DEF Contract!Next
  <2>4. CASE phase[r] = "failed" /\ phase' = [phase EXCEPT ![r] = "settled"]
    <3>1. Contract!Settle(r)
      BY <2>1, <2>4 DEF Contract!Settle, Contract!Becomes, phase, tries, limit
    <3> QED BY <3>1 DEF Contract!Next
  <2>5. CASE phase[r] = "failed" /\ phase' = [phase EXCEPT ![r] = "exhausted"] /\ tries[r] = limit
    <3>1. Contract!GiveUp(r)
      BY <2>1, <2>5 DEF Contract!GiveUp, Contract!Becomes, phase, tries, limit
    <3> QED BY <3>1 DEF Contract!Next
  <2>6. CASE phase[r] \in {"trying", "failed"} /\ phase' = [phase EXCEPT ![r] = "aborted"]
    <3>1. Contract!Abort(r)
      BY <2>1, <2>6 DEF Contract!Abort, Contract!Becomes, phase, tries, limit
    <3> QED BY <3>1 DEF Contract!Next
  <2>7. CASE PhaseOf(r)' = PhaseOf(r)
    <3>1. phase' = phase
      BY <1>1, <2>7
    <3> QED BY <2>1, <3>1 DEF Contract!contract, phase, tries, limit
  <2>8. \/ phase[r] = "trying" /\ PhaseOf(r)' \in {"settled", "failed", "aborted"}
        \/ phase[r] = "failed" /\ PhaseOf(r)' \in {"settled", "aborted"}
        \/ phase[r] = "failed" /\ PhaseOf(r)' = "exhausted" /\ tries[r] = limit
        \/ PhaseOf(r)' = PhaseOf(r)
    BY <1>1, <1>3 DEF limit
  <2>9. phase' = [phase EXCEPT ![r] = PhaseOf(r)']
    BY <1>1
  <2> QED BY <2>2, <2>3, <2>4, <2>5, <2>6, <2>7, <2>8, <2>9
<1> QED BY <1>2, <1>3 DEF limit

\* Every step of the loop is a step of the contract, or invisible.
LEMMA ContractStep == ASSUME IInv, [Next]_vars PROVE [Contract!Next]_(Contract!contract)
<1>1. CASE UNCHANGED <<def, run>>
  BY <1>1 DEF Contract!contract, At, Phase
<1>2. CASE ~UNCHANGED <<def, run>>
  <2>1. PICK r \in Runs : MarkStepRunning(r) \/ Loop(r) \/ Recover(r) \/ Fault(r)
    BY <1>2 DEF Next, vars, ResolveIncident
  <2>2. /\ run \in [Runs -> Locals] /\ run[r] \in Locals /\ run[r].attempt \in Nat \ {0}
        /\ MaxAttempts(def.policy) \in Nat /\ run[r].attempt <= MaxAttempts(def.policy)
        /\ run[r].pc = "idle" => run[r].attempt = 1
    <3>1. MaxAttempts(def.policy) \in 1..(MaxRetriesAllowed + 1)
      BY DefFacts DEF IInv, TypeOK
    <3>2. MaxAttempts(def.policy) \in Nat
      BY <3>1 DEF MaxRetriesAllowed
    <3> QED BY <3>2, RunTyped DEF IInv, Good, Counting
  <2>3. CASE MarkStepRunning(r)
    <3>1. /\ run[r].pc = "idle" /\ run'[r].pc = "execute" /\ def' = def
          /\ run'[r].attempt = run[r].attempt /\ run' = [run EXCEPT ![r] = run'[r]]
      <4>1. PICK down \in BOOLEAN : run' = [run EXCEPT ![r].pc = "execute", ![r].down = down]
        BY <2>3 DEF MarkStepRunning
      <4> QED BY <2>2, <2>3, <4>1 DEF MarkStepRunning, At, Locals
    <3>2. PhaseOf(r) = "waiting" /\ PhaseOf(r)' = "trying"
      BY <3>1 DEF PhaseOf, Phase, RunEnd
    <3>3. TriesOf(r) = 0 /\ TriesOf(r)' = 1
      BY <2>2, <3>1 DEF TriesOf, At
    <3> QED BY <2>2, <3>1, <3>2, <3>3, ContractMove
  <2>4. CASE NextAttempt(r)
    <3>1. /\ run[r].pc = "answer" /\ run'[r].pc = "execute" /\ def' = def
          /\ run'[r].attempt = run[r].attempt + 1 /\ run' = [run EXCEPT ![r] = run'[r]]
          /\ run[r].attempt < MaxAttempts(def.policy)
      <4>1. PICK hint : run' = [run EXCEPT ![r].pc = "execute", ![r].attempt = @ + 1, ![r].hint = hint]
        BY <2>4 DEF NextAttempt
      <4>2. /\ run'[r].pc = "execute" /\ run'[r].attempt = run[r].attempt + 1
            /\ run' = [run EXCEPT ![r] = run'[r]]
        BY <2>2, <4>1 DEF Locals
      <4>3. run[r].pc = "answer" /\ def' = def /\ run[r].attempt < MaxAttempts(def.policy)
        BY <2>2, <2>4 DEF NextAttempt, LastAttempt, At
      <4> QED BY <4>2, <4>3
    <3>2. /\ PhaseOf(r) = "failed" /\ PhaseOf(r)' = "trying"
          /\ TriesOf(r) = run[r].attempt /\ TriesOf(r)' = run[r].attempt + 1
      BY <2>2, <3>1 DEF PhaseOf, TriesOf, At, Phase, RunEnd
    <3> QED BY <2>2, <3>1, <3>2, ContractMove
  <2>5. ASSUME run' = [run EXCEPT ![r] = run'[r]], def' = def, run'[r].attempt = run[r].attempt,
               run[r].pc # "idle", run'[r].pc # "idle",
               \/ PhaseOf(r) = "trying" /\ PhaseOf(r)' \in {"settled", "failed", "aborted"}
               \/ PhaseOf(r) = "failed" /\ PhaseOf(r)' \in {"settled", "aborted"}
               \/ /\ PhaseOf(r) = "failed" /\ PhaseOf(r)' = "exhausted"
                  /\ run[r].attempt = MaxAttempts(def.policy)
               \/ PhaseOf(r)' = PhaseOf(r)
        PROVE  [Contract!Next]_(Contract!contract)
    <3>1. TriesOf(r) = run[r].attempt /\ TriesOf(r)' = run[r].attempt
      BY <2>5 DEF TriesOf, At
    <3> QED BY <2>2, <2>5, <3>1, ContractMove
  <2>6. ASSUME NEW pc \in RunPcs, Goto(r, pc)
        PROVE  run' = [run EXCEPT ![r] = run'[r]] /\ run'[r].attempt = run[r].attempt /\ run'[r].pc = pc
    BY <2>2, <2>6 DEF Goto, Locals
  <2>7. CASE HandlerSucceeds(r) \/ LogCompleted(r) \/ LogFailure(r) \/ FileAttempt(r) \/ LogRecovery(r)
    <3>1. /\ run[r].pc \in {"execute", "persisted", "caught", "file", "log"} /\ def' = def
          /\ run' = [run EXCEPT ![r] = run'[r]] /\ run'[r].attempt = run[r].attempt
          /\ run'[r].pc = CASE run[r].pc = "execute" -> "persisted" [] run[r].pc = "persisted" -> "settled"
                            [] run[r].pc = "caught" -> "record" [] run[r].pc = "file" -> "log"
                            [] OTHER -> "answer"
      BY <2>6, <2>7 DEF HandlerSucceeds, LogCompleted, LogFailure, FileAttempt, LogRecovery, Execute,
                        At, RunPcs
    <3> QED BY <2>5, <3>1 DEF PhaseOf, Phase, RunEnd
  <2>8. CASE SettleStep(r) \/ Exhaust(r) \/ RejectedCall(r)
    <3>1. /\ run[r].pc \notin RunEnd \union {"idle", "persisted"} /\ def' = def
          /\ run' = [run EXCEPT ![r] = run'[r]] /\ run'[r].attempt = run[r].attempt
          /\ \/ run[r].pc = "answer" /\ run'[r].pc = "settled"
             \/ run[r].pc = "answer" /\ run'[r].pc = "exhausted" /\ run[r].attempt >= MaxAttempts(def.policy)
             \/ run'[r].pc = "aborted"
      BY <2>6, <2>8 DEF SettleStep, Exhaust, RejectedCall, LastAttempt, At, RunPcs, RunEnd
    <3> QED BY <2>2, <2>5, <3>1 DEF PhaseOf, Phase, RunEnd
  <2>9. CASE HandlerFails(r) \/ CatchAfterPersist(r) \/ RecordFailure(r) \/ HandleRetry(r) \/ HandleSkip(r)
               \/ HandleEscalate(r) \/ LogEscalation(r) \/ HandleOther(r) \/ HandlerRejected(r)
               \/ FindIncident(r) \/ CreateIncident(r)
    <3>1. /\ run[r].pc \in {"execute", "persisted", "record", "dispatch", "flagged", "find", "create"}
          /\ def' = def /\ run'[r].pc \in {"caught", "dispatch", "flagged", "find", "create", "file"}
          /\ run'[r].attempt = run[r].attempt /\ run' = [run EXCEPT ![r] = run'[r]]
      <4>1. CASE HandlerFails(r) \/ CatchAfterPersist(r)
        BY <2>2, <4>1 DEF HandlerFails, CatchAfterPersist, Execute, At, Locals
      <4>2. CASE RecordFailure(r)
        BY <2>2, <4>2 DEF RecordFailure, At, Locals
      <4>3. CASE \/ HandleRetry(r) \/ HandleSkip(r) \/ LogEscalation(r) \/ HandleOther(r)
                 \/ HandlerRejected(r)
        BY <2>2, <4>3 DEF HandleRetry, HandleSkip, LogEscalation, HandleOther, HandlerRejected,
                          Dispatched, At, Locals
      <4>5. CASE HandleEscalate(r)
        BY <2>2, <4>5 DEF HandleEscalate, Goto, At, Locals
      <4>4. CASE FindIncident(r) \/ CreateIncident(r)
        BY <2>2, <4>4 DEF FindIncident, CreateIncident, Goto, At, Locals
      <4> QED BY <2>9, <4>1, <4>2, <4>3, <4>4, <4>5
    <3> QED BY <2>5, <3>1 DEF PhaseOf, Phase, RunEnd
  <2> QED BY <2>1, <2>3, <2>4, <2>7, <2>8, <2>9 DEF Loop, Recover, Fault
<1> QED BY <1>1, <1>2

\* The attempt loop with all of RecoveryService implements StepContract.
THEOREM Implements == Spec => ImplementsContract
<1>1. Init => Contract!Init
  BY ContractInit
<1>2. IInv /\ [Next]_vars => [Contract!Next]_(Contract!contract)
  BY ContractStep
<1> QED BY <1>1, <1>2, Inductive, PTL DEF Spec, ImplementsContract, Contract!Spec
=============================================================================
