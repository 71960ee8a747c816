------------------------- MODULE StepIncidentProofs -------------------------
(***************************************************************************)
(* More proofs about the recovery of a step, for every number of runs and  *)
(* however they overlap: what a hint does, which incidents an escalation   *)
(* has flagged, how many incidents can be open, what recovery answers, and *)
(* that no run goes on forever.                                            *)
(***************************************************************************)
EXTENDS StepRecoveryProofs, FiniteSetTheorems

-----------------------------------------------------------------------------
(* Hints *)

Answering == {"dispatch", "flagged"} \union InRecovery

\* The strategy is the policy's until the last attempt, and what its handler
\* hints at stays for every later attempt.
Hinting(r) ==
  /\ run[r].pc \in Answering => run[r].strategy = SelectStrategy(def.policy, run[r].attempt)
  /\ run[r].pc = "flagged" => run[r].strategy = "ESCALATE"
  /\ run[r].attempt > 1 =>
       /\ def.policy.strategy = "SWITCH_MODEL" /\ def.nextModel # "none" =>
            run[r].hint.model = def.nextModel
       /\ def.policy.strategy = "REDUCE_CONTEXT" => run[r].hint.reduce

HInv == \A r \in Runs : Hinting(r)

\* What a step can do to the locals that matter to a hint.
Keeps(r) ==
  /\ run'[r].hint = run[r].hint /\ run'[r].attempt = run[r].attempt
  /\ run'[r].strategy = run[r].strategy
  /\ run'[r].pc \in Answering => run[r].pc \in Answering
  /\ run'[r].pc = "flagged" => run[r].pc = "flagged" \/ run[r].strategy = "ESCALATE"

Selects(r) ==
  /\ run'[r].hint = run[r].hint /\ run'[r].attempt = run[r].attempt
  /\ run'[r].strategy = SelectStrategy(def.policy, run[r].attempt) /\ run'[r].pc # "flagged"

Repeats(r) ==
  /\ run[r].pc = "answer" /\ run[r].attempt < MaxAttempts(def.policy)
  /\ run'[r].pc = "execute" /\ run'[r].attempt = run[r].attempt + 1
  /\ run'[r].hint = Hinted(run[r].hint, run[r].strategy)

LEMMA HintEffect ==
  ASSUME IInv, [Next]_vars, NEW r \in Runs
  PROVE  Keeps(r) \/ Selects(r) \/ Repeats(r)
<1>1. TypeOK /\ run \in [Runs -> Locals] /\ run[r].attempt \in Nat
  BY RunTyped DEF IInv
<1>2. MaxAttempts(def.policy) \in Nat
  BY <1>1, DefFacts DEF TypeOK, MaxAttempts
<1>3. CASE run'[r] = run[r]
  BY <1>3 DEF Keeps
<1>4. ASSUME NEW pc \in {"execute", "persisted", "caught", "record", "settled", "exhausted", "aborted"},
             run' = [run EXCEPT ![r].pc = pc]
      PROVE  Keeps(r)
  BY <1>1, <1>4 DEF Keeps, Answering, InRecovery, Locals
<1>5. ASSUME NEW pc \in {"flagged", "create", "log", "answer"}, run[r].pc \in Answering,
             pc = "flagged" => run[r].strategy = "ESCALATE", run' = [run EXCEPT ![r].pc = pc]
      PROVE  Keeps(r)
  BY <1>1, <1>5 DEF Keeps, Locals
<1>6. CASE MarkStepRunning(r)
  <2>1. PICK down \in BOOLEAN : run' = [run EXCEPT ![r].pc = "execute", ![r].down = down]
    BY <1>6 DEF MarkStepRunning
  <2> QED BY <1>1, <2>1 DEF Keeps, Answering, InRecovery, Locals
<1>7. CASE HandlerSucceeds(r) \/ LogCompleted(r) \/ LogFailure(r) \/ SettleStep(r)
           \/ Exhaust(r) \/ RejectedCall(r)
  BY <1>4, <1>7 DEF HandlerSucceeds, LogCompleted, LogFailure, SettleStep, Exhaust, RejectedCall, Goto
<1>8. CASE HandlerFails(r) \/ CatchAfterPersist(r)
  <2>1. PICK failure : run' = [run EXCEPT ![r].pc = "caught", ![r].failure = failure]
    BY <1>8 DEF HandlerFails, CatchAfterPersist
  <2> QED BY <1>1, <2>1 DEF Keeps, Answering, InRecovery, Locals
<1>9. CASE RecordFailure(r)
  BY <1>1, <1>9 DEF RecordFailure, Selects, Locals
<1>10. CASE \/ HandleRetry(r) \/ HandleSkip(r) \/ LogEscalation(r) \/ HandleOther(r)
            \/ HandlerRejected(r)
  <2>1. PICK outcome : run' = [run EXCEPT ![r].pc = "find", ![r].outcome = outcome]
    BY <1>10 DEF HandleRetry, HandleSkip, LogEscalation, HandleOther, HandlerRejected, Dispatched
  <2>2. run[r].pc \in {"dispatch", "flagged"}
    BY <1>10 DEF HandleRetry, HandleSkip, LogEscalation, HandleOther, HandlerRejected, Dispatched, At
  <2> QED BY <1>1, <2>1, <2>2 DEF Keeps, Answering, Locals
<1>11. CASE FindIncident(r) \/ CreateIncident(r)
  <2>1. run[r].pc \in Answering
    BY <1>11 DEF FindIncident, CreateIncident, At, Answering, InRecovery
  <2>2. CASE Goto(r, "create")
    BY <1>5, <2>1, <2>2 DEF Goto
  <2>3. ASSUME NEW i, run' = [run EXCEPT ![r].pc = "file", ![r].incident = i]
        PROVE  Keeps(r)
    BY <1>1, <2>1, <2>3 DEF Keeps, Locals
  <2> QED BY <1>11, <2>2, <2>3 DEF FindIncident, CreateIncident
<1>12. CASE FileAttempt(r) \/ LogRecovery(r) \/ HandleEscalate(r)
  BY <1>5, <1>12 DEF FileAttempt, LogRecovery, HandleEscalate, Goto, At, Answering, InRecovery
<1>13. CASE NextAttempt(r)
  <2>1. /\ At(r, "answer") /\ ~LastAttempt(r)
        /\ run' = [run EXCEPT ![r].pc = "execute", ![r].attempt = @ + 1,
                              ![r].hint = Hinted(@, run[r].strategy)]
    BY <1>13 DEF NextAttempt
  <2>2. run[r].attempt < MaxAttempts(def.policy)
    BY <1>1, <1>2, <2>1 DEF LastAttempt
  <2> QED BY <1>1, <2>1, <2>2 DEF Repeats, At, Locals
<1>14. ASSUME NEW x \in Runs \ {r}, MarkStepRunning(x) \/ Loop(x) \/ Recover(x) \/ Fault(x)
       PROVE  run'[r] = run[r]
  BY <1>1, <1>14
  DEF MarkStepRunning, Loop, Recover, Fault, HandlerSucceeds, LogCompleted, LogFailure, SettleStep,
      Exhaust, RejectedCall, HandlerFails, CatchAfterPersist, RecordFailure, HandleRetry, HandleSkip,
      HandleEscalate, LogEscalation, HandleOther, HandlerRejected, Dispatched, FindIncident, CreateIncident,
      FileAttempt, LogRecovery, NextAttempt, Goto
<1>15. CASE \E i \in DOMAIN incidents : ResolveIncident(i)
  BY <1>3, <1>15 DEF ResolveIncident
<1>16. CASE UNCHANGED vars
  BY <1>3, <1>16 DEF vars
<1> QED BY <1>3, <1>6, <1>7, <1>8, <1>9, <1>10, <1>11, <1>12, <1>13, <1>14, <1>15, <1>16
        DEF Next, Loop, Recover, Fault

LEMMA DefStays == ASSUME [Next]_vars PROVE def' = def
BY DEF Next, vars, MarkStepRunning, Loop, Recover, Fault, HandlerSucceeds, LogCompleted, LogFailure,
   SettleStep, Exhaust, RejectedCall, HandlerFails, CatchAfterPersist, RecordFailure, HandleRetry,
   HandleSkip, HandleEscalate, LogEscalation, HandleOther, HandlerRejected, FindIncident, CreateIncident,
   FileAttempt, LogRecovery, NextAttempt, ResolveIncident

LEMMA HintStep == ASSUME IInv, HInv, [Next]_vars PROVE HInv'
<1> SUFFICES ASSUME NEW r \in Runs
             PROVE  Hinting(r)'
  BY DEF HInv
<1>1. Hinting(r) /\ def' = def /\ run[r].attempt \in Nat /\ run[r] \in Locals
  BY DefStays, RunTyped DEF HInv, IInv
<1>2. CASE Keeps(r)
  BY <1>1, <1>2 DEF Keeps, Hinting
<1>3. CASE Selects(r)
  BY <1>1, <1>3 DEF Selects, Hinting
<1>4. CASE Repeats(r)
  <2>1. def.policy.strategy \in {"SWITCH_MODEL", "REDUCE_CONTEXT"} =>
          run[r].strategy = def.policy.strategy
    <3> SUFFICES ASSUME def.policy.strategy \in {"SWITCH_MODEL", "REDUCE_CONTEXT"}
                 PROVE  run[r].strategy = def.policy.strategy
      OBVIOUS
    <3>1. def.policy # NoPolicy
      BY DEF NoPolicy
    <3>2. ~(run[r].attempt > def.policy.maxRetries)
      BY <1>1, <1>4, DefFacts DEF Repeats, MaxAttempts, IInv, TypeOK
    <3> QED BY <1>1, <1>4, <3>1, <3>2 DEF Repeats, Hinting, SelectStrategy, Answering, InRecovery
  <2>2. run[r].hint \in Hints
    BY <1>1 DEF Locals
  <2>3. /\ def.policy.strategy = "SWITCH_MODEL" /\ def.nextModel # "none" =>
             run'[r].hint.model = def.nextModel
        /\ def.policy.strategy = "REDUCE_CONTEXT" => run'[r].hint.reduce
    BY <1>4, <2>1, <2>2 DEF Repeats, Hinted, Hints
  <2> QED BY <1>1, <1>4, <2>3 DEF Repeats, Hinting, Answering, InRecovery
<1> QED BY <1>2, <1>3, <1>4, HintEffect

\* However often a step is tried, and by however many overlapping deliveries,
\* the second and every later call is the one recovery asked for (worker
\* 321-323; llm-call 83-93).
THEOREM HintsAreHeeded == Spec => HintsReachTheCall
<1> DEFINE Heeded == \A r \in Runs :
      executions'[r].handler # executions[r].handler /\ run[r].attempt > 1 =>
        /\ def.policy.strategy = "SWITCH_MODEL" /\ def.nextModel # "none" =>
             ModelOf(def.cfg, run[r].hint) = def.nextModel
        /\ def.policy.strategy = "REDUCE_CONTEXT" => PromptOf(def.cfg, run[r].hint) # "long"
<1>1. Init => HInv
  BY DEF Init, HInv, Hinting, IdleRun, Answering, InRecovery
<1>2. HInv => Heeded
  BY DEF HInv, Hinting, ModelOf, PromptOf
<1>3. IInv /\ HInv /\ [Next]_vars => HInv'
  BY HintStep
<1>4. HInv => [Heeded]_vars
  BY <1>2
<1> QED BY <1>1, <1>3, <1>4, Inductive, PTL DEF Spec, HintsReachTheCall

-----------------------------------------------------------------------------
(* Incidents *)

LEMMA IncidentsTyped ==
  ASSUME incidents \in Seq([resolved : BOOLEAN, escalated : BOOLEAN])
  PROVE  /\ DOMAIN incidents = 1..Len(incidents) /\ Len(incidents) \in Nat
         /\ \A i \in DOMAIN incidents : incidents[i] \in [resolved : BOOLEAN, escalated : BOOLEAN]
<1>1. ASSUME NEW S, NEW s \in Seq(S)
      PROVE  DOMAIN s = 1..Len(s) /\ Len(s) \in Nat /\ s \in [1..Len(s) -> S]
  OBVIOUS
<1>2. ASSUME NEW S, NEW s \in Seq(S), NEW i \in DOMAIN s
      PROVE  s[i] \in S
  BY <1>1
<1> QED BY <1>1, <1>2

\* A step of run x writes the locals of x only, and rows and entries in its name.
Apart(x, r) ==
  /\ run'[r] = run[r]
  /\ \A a \in audit' \ audit : a.run = x
  /\ \A f \in filed' \ filed : f.run = x

LEMMA ApartFacts ==
  ASSUME IInv, NEW x \in Runs, MarkStepRunning(x) \/ Loop(x) \/ Recover(x) \/ Fault(x),
         NEW r \in Runs \ {x}
  PROVE  Apart(x, r)
<1>1. run \in [Runs -> Locals]
  BY RunTyped DEF IInv
<1>2. run'[r] = run[r]
  BY <1>1
  DEF MarkStepRunning, Loop, Recover, Fault, HandlerSucceeds, LogCompleted, LogFailure, SettleStep,
      Exhaust, RejectedCall, HandlerFails, CatchAfterPersist, RecordFailure, HandleRetry, HandleSkip,
      HandleEscalate, LogEscalation, HandleOther, HandlerRejected, Dispatched, FindIncident,
      CreateIncident, FileAttempt, LogRecovery, NextAttempt, Goto
<1>3. \A a \in audit' \ audit : a.run = x
  BY DEF MarkStepRunning, Loop, Recover, Fault, HandlerSucceeds, LogCompleted, LogFailure, SettleStep,
      Exhaust, RejectedCall, HandlerFails, CatchAfterPersist, RecordFailure, HandleRetry, HandleSkip,
      HandleEscalate, LogEscalation, HandleOther, HandlerRejected, FindIncident, CreateIncident,
      FileAttempt, LogRecovery, NextAttempt, Log, Entry
<1>4. \A f \in filed' \ filed : f.run = x
  BY DEF MarkStepRunning, Loop, Recover, Fault, HandlerSucceeds, LogCompleted, LogFailure, SettleStep,
      Exhaust, RejectedCall, HandlerFails, CatchAfterPersist, RecordFailure, HandleRetry, HandleSkip,
      HandleEscalate, LogEscalation, HandleOther, HandlerRejected, FindIncident, CreateIncident,
      FileAttempt, LogRecovery, NextAttempt
<1> QED BY <1>2, <1>3, <1>4 DEF Apart

\* An incident that needs no further review, because it is flagged or resolved.
Seen(i) == incidents[i].escalated \/ incidents[i].resolved

\* Incidents are added at the end, and none loses its flag or its resolution.
LEMMA IncidentsStay ==
  ASSUME IInv, [Next]_vars, NEW i \in 1..Len(incidents)
  PROVE  Seen(i) => Seen(i)'
<1>1. /\ incidents \in Seq([resolved : BOOLEAN, escalated : BOOLEAN]) /\ i \in DOMAIN incidents
      /\ Len(incidents) \in Nat
  BY IncidentsTyped DEF IInv, TypeOK
<1>2. CASE incidents' = incidents
  BY <1>2 DEF Seen
<1>3. CASE \E r \in Runs : HandleEscalate(r)
  <2>1. incidents'[i] = IF i \in OpenIncidents THEN [incidents[i] EXCEPT !.escalated = TRUE] ELSE incidents[i]
    BY <1>1, <1>3 DEF HandleEscalate, FlagIncidents
  <2> QED BY <1>1, <2>1, IncidentsTyped DEF Seen
<1>4. CASE \E r \in Runs : CreateIncident(r)
  <2>1. incidents'[i] = incidents[i]
    BY <1>1, <1>4 DEF CreateIncident
  <2> QED BY <2>1 DEF Seen
<1>5. ASSUME NEW j \in DOMAIN incidents, ResolveIncident(j) PROVE Seen(i) => Seen(i)'
  <2>1. incidents' = [incidents EXCEPT ![j].resolved = TRUE]
    BY <1>5 DEF ResolveIncident
  <2> QED BY <1>1, <2>1, IncidentsTyped DEF Seen
<1>6. incidents' = incidents \/ (\E r \in Runs : HandleEscalate(r) \/ CreateIncident(r))
        \/ (\E j \in DOMAIN incidents : ResolveIncident(j))
  BY DEF Next, vars, MarkStepRunning, Loop, Recover, Fault, HandlerSucceeds, LogCompleted, LogFailure,
      SettleStep, Exhaust, RejectedCall, HandlerFails, CatchAfterPersist, RecordFailure, HandleRetry,
      HandleSkip, LogEscalation, HandleOther, HandlerRejected, FindIncident,
      FileAttempt, LogRecovery, NextAttempt
<1> QED BY <1>2, <1>3, <1>4, <1>5, <1>6

\* The incidents of the attempts a run had filed when it escalated: all of them
\* were flagged before the escalation is logged.
Flagging(r) ==
  \A f \in filed : f.run = r =>
    /\ run[r].pc = "flagged" => Seen(f.incident)
    /\ \A a \in audit : a.run = r /\ a.action = "ESCALATED" /\ f.attempt < a.attempt => Seen(f.incident)

FInv == \A r \in Runs : Flagging(r)

\* A step that neither files a row nor logs an escalation nor is about to.
LEMMA FlaggingKept ==
  ASSUME IInv, [Next]_vars, NEW r \in Runs, Flagging(r),
         \A f \in filed' \ filed : f.run # r,
         \A a \in audit' \ audit : a.run # r \/ a.action # "ESCALATED",
         run'[r].pc = "flagged" => run[r].pc = "flagged"
  PROVE  Flagging(r)'
<1> SUFFICES ASSUME NEW f \in filed', f.run = r
             PROVE  /\ run'[r].pc = "flagged" => Seen(f.incident)'
                    /\ \A a \in audit' : a.run = r /\ a.action = "ESCALATED" /\ f.attempt < a.attempt =>
                         Seen(f.incident)'
  BY DEF Flagging
<1>1. f \in filed /\ f.incident \in 1..Len(incidents)
  BY DEF IInv, Good, Filing
<1>2. Seen(f.incident) => Seen(f.incident)'
  BY <1>1, IncidentsStay
<1>3. run[r].pc = "flagged" => Seen(f.incident)
  BY <1>1 DEF Flagging
<1>4. ASSUME NEW a \in audit', a.run = r, a.action = "ESCALATED", f.attempt < a.attempt
      PROVE  Seen(f.incident)
  BY <1>1, <1>4 DEF Flagging
<1> QED BY <1>2, <1>3, <1>4

\* The three steps that FlaggingKept leaves aside.
LEMMA EscalationFlags ==
  ASSUME IInv, IInv', NEW r \in Runs, Flagging(r), HandleEscalate(r)
  PROVE  Flagging(r)'
<1> SUFFICES ASSUME NEW f \in filed', f.run = r PROVE Seen(f.incident)'
  BY DEF Flagging
<1>1. f.incident \in DOMAIN incidents /\ incidents[f.incident] \in [resolved : BOOLEAN, escalated : BOOLEAN]
  <2>1. f.incident \in 1..Len(incidents)
    BY DEF IInv, Good, Filing, HandleEscalate
  <2> QED BY <2>1, IncidentsTyped DEF IInv, TypeOK
<1>2. incidents'[f.incident] = IF f.incident \in OpenIncidents
                               THEN [incidents[f.incident] EXCEPT !.escalated = TRUE]
                               ELSE incidents[f.incident]
  BY <1>1 DEF HandleEscalate, FlagIncidents
<1> QED BY <1>1, <1>2 DEF Seen, OpenIncidents

LEMMA EscalationLogged ==
  ASSUME IInv, NEW r \in Runs, Flagging(r), LogEscalation(r)
  PROVE  Flagging(r)'
<1> SUFFICES ASSUME NEW f \in filed', f.run = r PROVE Seen(f.incident)'
  BY DEF Flagging
<1>1. f \in filed /\ run[r].pc = "flagged" /\ incidents' = incidents
  BY DEF LogEscalation, At
<1>2. Seen(f.incident)
  BY <1>1 DEF Flagging
<1> QED BY <1>1, <1>2 DEF Seen

LEMMA FiledAfterEscalation ==
  ASSUME IInv, NEW r \in Runs, Flagging(r), FileAttempt(r)
  PROVE  Flagging(r)'
<1>1. /\ run \in [Runs -> Locals] /\ run[r].attempt \in Nat /\ UNCHANGED <<audit, incidents>>
      /\ Goto(r, "log")
      /\ \A f \in filed' \ filed : f.attempt = run[r].attempt
  BY RunTyped DEF FileAttempt, IInv
<1>2. run'[r].pc = "log"
  BY <1>1 DEF Goto, Locals
<1>3. ASSUME NEW f \in filed', f.run = r,
             NEW a \in audit, a.run = r, a.action = "ESCALATED", f.attempt < a.attempt
      PROVE  Seen(f.incident)
  <2>1. a.attempt <= run[r].attempt /\ a.attempt \in Nat
    BY <1>3 DEF IInv, TypeOK, Good, Logging
  <2>2. f \in filed
    BY <1>1, <1>3, <2>1
  <2> QED BY <1>3, <2>2 DEF Flagging
<1> QED BY <1>1, <1>2, <1>3 DEF Flagging, Seen

LEMMA FlagsStep == ASSUME IInv, IInv', FInv, [Next]_vars PROVE FInv'
<1> SUFFICES ASSUME NEW r \in Runs PROVE Flagging(r)'
  BY DEF FInv
<1>1. Flagging(r) /\ run \in [Runs -> Locals]
  BY RunTyped DEF FInv, IInv
<1>2. ASSUME UNCHANGED <<filed, audit, run>> PROVE Flagging(r)'
  BY <1>1, <1>2, FlaggingKept
<1>3. CASE HandleEscalate(r) \/ LogEscalation(r) \/ FileAttempt(r)
  BY <1>1, <1>3, EscalationFlags, EscalationLogged, FiledAfterEscalation
<1>4. ASSUME MarkStepRunning(r) \/ Loop(r) \/ Recover(r) \/ Fault(r),
             ~(HandleEscalate(r) \/ LogEscalation(r) \/ FileAttempt(r))
      PROVE  Flagging(r)'
  <2>1. filed' = filed
    BY <1>4 DEF MarkStepRunning, Loop, Recover, Fault, HandlerSucceeds, LogCompleted, LogFailure, SettleStep,
      Exhaust, RejectedCall, HandlerFails, CatchAfterPersist, RecordFailure, HandleRetry, HandleSkip,
      HandleOther, HandlerRejected, FindIncident, CreateIncident, LogRecovery, NextAttempt
  <2>2. \A a \in audit' \ audit : a.action # "ESCALATED"
    BY <1>4 DEF MarkStepRunning, Loop, Recover, Fault, HandlerSucceeds, LogCompleted, LogFailure, SettleStep,
      Exhaust, RejectedCall, HandlerFails, CatchAfterPersist, RecordFailure, HandleRetry, HandleSkip,
      HandleOther, HandlerRejected, FindIncident, CreateIncident, LogRecovery, NextAttempt, Log, Entry
  <2>3. run'[r].pc # "flagged"
    BY <1>1, <1>4 DEF MarkStepRunning, Loop, Recover, Fault, HandlerSucceeds, LogCompleted, LogFailure,
      SettleStep, Exhaust, RejectedCall, HandlerFails, CatchAfterPersist, RecordFailure, HandleRetry,
      HandleSkip, HandleOther, HandlerRejected, Dispatched, FindIncident, CreateIncident, LogRecovery,
      NextAttempt, Goto, Locals
  <2> QED BY <1>1, <2>1, <2>2, <2>3, FlaggingKept
<1>5. ASSUME NEW x \in Runs \ {r}, MarkStepRunning(x) \/ Loop(x) \/ Recover(x) \/ Fault(x)
      PROVE  Flagging(r)'
  <2>1. Apart(x, r)
    BY <1>5, ApartFacts
  <2> QED BY <1>1, <2>1, FlaggingKept DEF Apart
<1>6. UNCHANGED vars \/ (\E i \in DOMAIN incidents : ResolveIncident(i)) => UNCHANGED <<filed, audit, run>>
  BY DEF vars, ResolveIncident
<1> QED BY <1>2, <1>3, <1>4, <1>5, <1>6 DEF Next

\* However many deliveries of a step overlap and leave incidents open, and
\* whatever operators resolve, an escalation that is logged has flagged every
\* incident of its delivery's earlier attempts, or found it resolved
\* (recovery.service 280-314).
THEOREM EscalationsAreFlagged == Spec => []LoggedEscalationIsFlagged
<1>1. Init => FInv
  BY DEF Init, FInv, Flagging
<1>2. IInv /\ FInv => LoggedEscalationIsFlagged
  <2> SUFFICES ASSUME IInv, FInv, NEW f \in filed, NEW a \in audit,
                      a.action = "ESCALATED", f.run = a.run, f.attempt < a.attempt
               PROVE  Seen(f.incident)
    BY DEF LoggedEscalationIsFlagged, Seen
  <2>1. a.run \in Runs
    BY DEF IInv, TypeOK
  <2> QED BY <2>1 DEF FInv, Flagging
<1>3. IInv /\ IInv' /\ FInv /\ [Next]_vars => FInv'
  BY FlagsStep
<1> QED BY <1>1, <1>2, <1>3, Inductive, PTL DEF Spec

-----------------------------------------------------------------------------
(* How many incidents are open *)

\* The runs that have found no open incident and are about to create one.
Opening == {r \in Runs : At(r, "create")}

\* Whoever is about to create an incident counts as if it were open.
CInv ==
  /\ IsFiniteSet(Begun) /\ IsFiniteSet(OpenIncidents)
  /\ Cardinality(OpenIncidents) + Cardinality(Opening) <= Cardinality(Begun)

LEMMA OpeningHasBegun == Opening \subseteq Begun
BY DEF Opening, Begun, At

\* The four things that a step can do to these sets.
Undone == /\ OpenIncidents' \subseteq OpenIncidents /\ Opening' \subseteq Opening /\ Begun' = Begun
Starts(r) == /\ OpenIncidents' = OpenIncidents /\ Opening' = Opening /\ Begun' = Begun \union {r}
Misses == OpenIncidents = {} /\ OpenIncidents' = {} /\ Begun' = Begun
Creates(r) ==
  /\ OpenIncidents' = OpenIncidents \union {Len(incidents) + 1}
  /\ r \in Opening /\ Opening' = Opening \ {r} /\ Begun' = Begun

LEMMA CountEffect ==
  ASSUME IInv, NEW r \in Runs, MarkStepRunning(r) \/ Loop(r) \/ Recover(r) \/ Fault(r)
  PROVE  Undone \/ Starts(r) \/ Misses \/ Creates(r)
<1>1. /\ run \in [Runs -> Locals] /\ incidents \in Seq([resolved : BOOLEAN, escalated : BOOLEAN])
      /\ DOMAIN incidents = 1..Len(incidents) /\ Len(incidents) \in Nat
      /\ \A i \in DOMAIN incidents : incidents[i] \in [resolved : BOOLEAN, escalated : BOOLEAN]
  BY RunTyped, IncidentsTyped DEF IInv, TypeOK
<1>2. \A x \in Runs \ {r} : run'[x] = run[x]
  BY ApartFacts DEF Apart
<1>3. CASE MarkStepRunning(r)
  <2>1. run[r].pc = "idle" /\ run'[r].pc = "execute" /\ incidents' = incidents
    BY <1>1, <1>3 DEF MarkStepRunning, At, Locals
  <2>2. OpenIncidents' = OpenIncidents
    BY <2>1 DEF OpenIncidents
  <2>3. Opening' = Opening /\ Begun' = Begun \union {r}
    BY <1>2, <2>1 DEF Opening, Begun, At
  <2> QED BY <2>2, <2>3 DEF Starts
<1>4. CASE CreateIncident(r)
  <2>1. /\ run[r].pc = "create" /\ run'[r].pc = "file"
        /\ incidents' = Append(incidents, [resolved |-> FALSE, escalated |-> FALSE])
    BY <1>1, <1>4 DEF CreateIncident, At, Locals
  <2>2. /\ DOMAIN incidents' = DOMAIN incidents \union {Len(incidents) + 1}
        /\ \A i \in DOMAIN incidents : incidents'[i] = incidents[i]
        /\ incidents'[Len(incidents) + 1] = [resolved |-> FALSE, escalated |-> FALSE]
    BY <1>1, <2>1
  <2>3. OpenIncidents' = OpenIncidents \union {Len(incidents) + 1}
    BY <1>1, <2>2 DEF OpenIncidents
  <2>4. r \in Opening /\ Opening' = Opening \ {r} /\ Begun' = Begun
    BY <1>2, <2>1 DEF Opening, Begun, At
  <2> QED BY <2>3, <2>4 DEF Creates
<1>5. CASE ~MarkStepRunning(r) /\ ~CreateIncident(r)
  <2>1. OpenIncidents' = OpenIncidents
    <3>1. CASE incidents' = incidents
      BY <3>1 DEF OpenIncidents
    <3>2. CASE HandleEscalate(r)
      <4>1. /\ DOMAIN incidents' = DOMAIN incidents
            /\ \A i \in DOMAIN incidents : incidents'[i].resolved = incidents[i].resolved
        BY <1>1, <3>2 DEF HandleEscalate, FlagIncidents
      <4> QED BY <4>1 DEF OpenIncidents
    <3>3. incidents' = incidents \/ HandleEscalate(r)
      BY <1>5 DEF Loop, Recover, Fault, HandlerSucceeds, LogCompleted, LogFailure,
        SettleStep, Exhaust, RejectedCall, HandlerFails, CatchAfterPersist, RecordFailure, HandleRetry,
        HandleSkip, LogEscalation, HandleOther, HandlerRejected, FindIncident,
        FileAttempt, LogRecovery, NextAttempt
    <3> QED BY <3>1, <3>2, <3>3
  <2>2. /\ run[r].pc # "idle" /\ run'[r].pc # "idle"
        /\ run'[r].pc = "create" => OpenIncidents = {}
    BY <1>1, <1>5 DEF Loop, Recover, Fault, HandlerSucceeds, LogCompleted, LogFailure,
        SettleStep, Exhaust, RejectedCall, HandlerFails, CatchAfterPersist, RecordFailure, HandleRetry,
        HandleSkip, HandleEscalate, LogEscalation, HandleOther, HandlerRejected, Dispatched, FindIncident,
        FileAttempt, LogRecovery, NextAttempt, Execute, Goto, At, Locals, RunEnd
  <2>3. Begun' = Begun
    BY <1>2, <2>2 DEF Begun, At
  <2>4. CASE run'[r].pc = "create"
    BY <2>1, <2>2, <2>3, <2>4 DEF Misses
  <2>5. CASE run'[r].pc # "create"
    <3>1. Opening' \subseteq Opening
      BY <1>2, <2>5 DEF Opening, At
    <3> QED BY <2>1, <2>3, <3>1 DEF Undone
  <2> QED BY <2>4, <2>5
<1> QED BY <1>3, <1>4, <1>5

\* All that has to be known of cardinalities.
LEMMA Counts ==
  ASSUME NEW S, NEW T, NEW x, IsFiniteSet(S)
  PROVE  /\ Cardinality(S) \in Nat /\ IsFiniteSet(S \union {x})
         /\ Cardinality(S \union {x}) \in Nat
         /\ Cardinality(S \union {x}) <= Cardinality(S) + 1
         /\ Cardinality(S) <= Cardinality(S \union {x})
         /\ x \in S => Cardinality(S \ {x}) = Cardinality(S) - 1
         /\ T \subseteq S => /\ IsFiniteSet(T) /\ Cardinality(T) \in Nat
                             /\ Cardinality(T) <= Cardinality(S)
<1>1. Cardinality(S) \in Nat
  BY FS_CardinalityType
<1>2. /\ IsFiniteSet(S \union {x})
      /\ Cardinality(S \union {x}) = IF x \in S THEN Cardinality(S) ELSE Cardinality(S) + 1
  BY FS_AddElement
<1>3. x \in S => Cardinality(S \ {x}) = Cardinality(S) - 1
  BY FS_RemoveElement
<1>4. T \subseteq S => /\ IsFiniteSet(T) /\ Cardinality(T) \in Nat
                       /\ Cardinality(T) <= Cardinality(S)
  <2> SUFFICES ASSUME T \subseteq S
               PROVE  IsFiniteSet(T) /\ Cardinality(T) \in Nat /\ Cardinality(T) <= Cardinality(S)
    OBVIOUS
  <2>1. T \in SUBSET S
    OBVIOUS
  <2>2. IsFiniteSet(T) /\ Cardinality(T) <= Cardinality(S)
    BY <2>1, FS_Subset
  <2> QED BY <2>2, FS_CardinalityType
<1> QED BY <1>1, <1>2, <1>3, <1>4

LEMMA CountStep == ASSUME IInv, CInv, [Next]_vars PROVE CInv'
<1>1. /\ IsFiniteSet(Begun) /\ IsFiniteSet(OpenIncidents) /\ IsFiniteSet(Opening)
      /\ Cardinality(Begun) \in Nat /\ Cardinality(OpenIncidents) \in Nat /\ Cardinality(Opening) \in Nat
      /\ Cardinality(OpenIncidents) + Cardinality(Opening) <= Cardinality(Begun)
  BY OpeningHasBegun, Counts DEF CInv
<1>2. CASE Undone
  <2>1. /\ IsFiniteSet(OpenIncidents') /\ Cardinality(OpenIncidents') <= Cardinality(OpenIncidents)
        /\ Cardinality(OpenIncidents') \in Nat
    BY <1>1, <1>2, Counts DEF Undone
  <2>2. Cardinality(Opening') \in Nat /\ Cardinality(Opening') <= Cardinality(Opening)
    BY <1>1, <1>2, Counts DEF Undone
  <2>3. Begun' = Begun
    BY <1>2 DEF Undone
  <2> QED BY <1>1, <2>1, <2>2, <2>3 DEF CInv
<1>3. ASSUME NEW r \in Runs, Starts(r) PROVE CInv'
  <2>1. /\ IsFiniteSet(Begun') /\ Cardinality(Begun') \in Nat
        /\ Cardinality(Begun) <= Cardinality(Begun')
    BY <1>1, <1>3, Counts DEF Starts
  <2>2. OpenIncidents' = OpenIncidents /\ Opening' = Opening
    BY <1>3 DEF Starts
  <2> QED BY <1>1, <2>1, <2>2 DEF CInv
<1>4. CASE Misses
  <2>1. OpenIncidents' = {} /\ Begun' = Begun
    BY <1>4 DEF Misses
  <2>2. Opening' \subseteq Begun
    BY <2>1 DEF Opening, Begun, At
  <2>3. Cardinality(Opening') \in Nat /\ Cardinality(Opening') <= Cardinality(Begun)
    BY <1>1, <2>2, Counts
  <2>4. IsFiniteSet(OpenIncidents') /\ Cardinality(OpenIncidents') = 0
    BY <2>1, FS_EmptySet
  <2> QED BY <1>1, <2>1, <2>3, <2>4 DEF CInv
<1>5. ASSUME NEW r \in Runs, Creates(r) PROVE CInv'
  <2>1. /\ IsFiniteSet(OpenIncidents') /\ Cardinality(OpenIncidents') \in Nat
        /\ Cardinality(OpenIncidents') <= Cardinality(OpenIncidents) + 1
    BY <1>1, <1>5, Counts DEF Creates
  <2>2. Cardinality(Opening') = Cardinality(Opening) - 1
    BY <1>1, <1>5, Counts DEF Creates
  <2>3. Begun' = Begun
    BY <1>5 DEF Creates
  <2> QED BY <1>1, <2>1, <2>2, <2>3 DEF CInv
<1>6. ASSUME NEW i \in DOMAIN incidents, ResolveIncident(i) PROVE Undone
  <2>1. /\ incidents \in Seq([resolved : BOOLEAN, escalated : BOOLEAN]) /\ run' = run
        /\ incidents' = [incidents EXCEPT ![i].resolved = TRUE]
    BY <1>6 DEF IInv, TypeOK, ResolveIncident
  <2>2. OpenIncidents' \subseteq OpenIncidents
    BY <2>1, IncidentsTyped DEF OpenIncidents
  <2> QED BY <2>1, <2>2 DEF Undone, Opening, Begun, At
<1>7. UNCHANGED vars => Undone
  BY DEF vars, Undone, Opening, Begun, At, OpenIncidents
<1> QED BY <1>2, <1>3, <1>4, <1>5, <1>6, <1>7, CountEffect DEF Next

\* However its deliveries overlap, however often they try and whoever resolves
\* which incident when: a step never has more incidents open than it had
\* deliveries, so that only the race of two deliveries between the read and the
\* create of upsertIncident can leave two (recovery.service 299-314).
THEOREM OneIncidentEach == Spec => []OneIncidentPerDelivery
<1>1. Init => CInv
  <2> SUFFICES ASSUME Init PROVE CInv
    OBVIOUS
  <2>1. OpenIncidents = {} /\ Opening = {} /\ Begun = {}
    BY DEF Init, OpenIncidents, Opening, Begun, At, IdleRun
  <2> QED BY <2>1, FS_EmptySet DEF CInv
<1>2. CInv => OneIncidentPerDelivery
  <2> SUFFICES ASSUME CInv PROVE Cardinality(OpenIncidents) <= Cardinality(Begun)
    BY DEF OneIncidentPerDelivery
  <2>1. /\ Cardinality(Begun) \in Nat /\ Cardinality(OpenIncidents) \in Nat /\ Cardinality(Opening) \in Nat
        /\ Cardinality(OpenIncidents) + Cardinality(Opening) <= Cardinality(Begun)
    BY OpeningHasBegun, Counts DEF CInv
  <2> QED BY <2>1
<1>3. IInv /\ CInv /\ [Next]_vars => CInv'
  BY CountStep
<1> QED BY <1>1, <1>2, <1>3, Inductive, PTL DEF Spec

-----------------------------------------------------------------------------
(* What recovery answers *)

\* The answer of an attempt is one that its policy's strategy can give, or the
\* failure that a rejected call was turned into.
Outcoming(r) ==
  run[r].pc \in InRecovery =>
    \/ run[r].outcome \in DispatchOutcomes(SelectStrategy(def.policy, run[r].attempt))
    \/ run[r].outcome = "failed" /\ rejections > 0

AnswersAreTheStrategys == \A r \in Runs : Outcoming(r)

LEMMA OutcomeEffect ==
  ASSUME IInv, HInv, NEW r \in Runs, MarkStepRunning(r) \/ Loop(r) \/ Recover(r) \/ Fault(r)
  PROVE  \/ run'[r].pc \notin InRecovery
         \/ /\ run[r].pc \in InRecovery /\ rejections' >= rejections
            /\ run'[r].outcome = run[r].outcome /\ run'[r].attempt = run[r].attempt
         \/ /\ run[r].pc \in {"dispatch", "flagged"} /\ run'[r].attempt = run[r].attempt
            /\ \/ run'[r].outcome \in DispatchOutcomes(run[r].strategy)
               \/ run'[r].outcome = "failed" /\ rejections' > 0
<1>1. run \in [Runs -> Locals] /\ rejections \in Nat
  BY RecoveryAssumption, RunTyped DEF IInv, TypeOK
<1>2. CASE \/ MarkStepRunning(r) \/ HandlerSucceeds(r) \/ LogCompleted(r) \/ HandlerFails(r) \/ LogFailure(r)
           \/ RecordFailure(r) \/ HandleEscalate(r) \/ SettleStep(r) \/ NextAttempt(r) \/ Exhaust(r)
           \/ CatchAfterPersist(r) \/ RejectedCall(r)
  <2>1. run'[r].pc \in {"execute", "persisted", "settled", "caught", "record", "dispatch", "flagged",
                        "exhausted", "aborted"}
    BY <1>1, <1>2 DEF MarkStepRunning, HandlerSucceeds, LogCompleted, HandlerFails, LogFailure, RecordFailure,
      HandleEscalate, SettleStep, NextAttempt, Exhaust, CatchAfterPersist, RejectedCall, Goto, Locals
  <2> QED BY <2>1 DEF InRecovery
<1>3. CASE HandleRetry(r) \/ HandleSkip(r) \/ HandleOther(r)
  <2>1. PICK outcome \in DispatchOutcomes(run[r].strategy) :
          /\ run[r].pc = "dispatch"
          /\ run' = [run EXCEPT ![r].pc = "find", ![r].outcome = outcome]
    BY <1>3 DEF HandleRetry, HandleSkip, HandleOther, Dispatched, At
  <2> QED BY <1>1, <2>1 DEF Locals
<1>6. CASE LogEscalation(r)
  <2>1. run[r].pc = "flagged" /\ run' = [run EXCEPT ![r].pc = "find", ![r].outcome = "failed"]
    BY <1>6 DEF LogEscalation, At
  <2>2. "failed" \in DispatchOutcomes(run[r].strategy)
    BY <2>1 DEF HInv, Hinting, DispatchOutcomes
  <2> QED BY <1>1, <2>1, <2>2 DEF Locals
<1>4. CASE HandlerRejected(r)
  <2>1. run[r].pc \in {"dispatch", "flagged"} /\ run' = [run EXCEPT ![r].pc = "find", ![r].outcome = "failed"]
        /\ rejections' = rejections + 1
    BY <1>4 DEF HandlerRejected, At
  <2> QED BY <1>1, <2>1 DEF Locals
<1>5. CASE FindIncident(r) \/ CreateIncident(r) \/ FileAttempt(r) \/ LogRecovery(r)
  <2>1. run[r].pc \in InRecovery /\ rejections' = rejections
    BY <1>5 DEF FindIncident, CreateIncident, FileAttempt, LogRecovery, At, InRecovery
  <2>2. run'[r].outcome = run[r].outcome /\ run'[r].attempt = run[r].attempt
    BY <1>1, <1>5 DEF FindIncident, CreateIncident, FileAttempt, LogRecovery, Goto, Locals
  <2> QED BY <1>1, <2>1, <2>2
<1> QED BY <1>2, <1>3, <1>4, <1>5, <1>6 DEF Loop, Recover, Fault

LEMMA RejectionsGrow == ASSUME IInv, [Next]_vars PROVE rejections \in Nat /\ rejections' >= rejections
<1>1. rejections \in Nat
  BY RecoveryAssumption DEF IInv, TypeOK
<1>2. rejections' = rejections \/ rejections' = rejections + 1
  BY DEF Next, vars, MarkStepRunning, Loop, Recover, Fault, HandlerSucceeds, LogCompleted, LogFailure,
    SettleStep, Exhaust, RejectedCall, HandlerFails, CatchAfterPersist, RecordFailure, HandleRetry,
    HandleSkip, HandleEscalate, LogEscalation, HandleOther, HandlerRejected, FindIncident, CreateIncident,
    FileAttempt, LogRecovery, NextAttempt, ResolveIncident
<1> QED BY <1>1, <1>2

LEMMA OutcomeStep ==
  ASSUME IInv, IInv', HInv, AnswersAreTheStrategys, [Next]_vars
  PROVE  AnswersAreTheStrategys'
<1> SUFFICES ASSUME NEW r \in Runs PROVE Outcoming(r)'
  BY DEF AnswersAreTheStrategys
<1>1. /\ Outcoming(r) /\ Hinting(r) /\ def' = def
      /\ rejections \in Nat /\ rejections' \in Nat /\ rejections' >= rejections
  BY DefStays, RejectionsGrow, RecoveryAssumption DEF AnswersAreTheStrategys, HInv, IInv, TypeOK
<1>2. CASE run'[r] = run[r]
  BY <1>1, <1>2 DEF Outcoming
<1>3. CASE MarkStepRunning(r) \/ Loop(r) \/ Recover(r) \/ Fault(r)
  BY <1>1, <1>3, OutcomeEffect DEF Outcoming, Hinting, Answering
<1>4. ASSUME NEW x \in Runs \ {r}, MarkStepRunning(x) \/ Loop(x) \/ Recover(x) \/ Fault(x)
      PROVE  run'[r] = run[r]
  BY <1>4, ApartFacts DEF Apart
<1>5. (UNCHANGED vars \/ \E i \in DOMAIN incidents : ResolveIncident(i)) => run'[r] = run[r]
  BY DEF vars, ResolveIncident
<1> QED BY <1>2, <1>3, <1>4, <1>5 DEF Next

\* The engine's model of recovery is sound: whatever the handlers, the incidents
\* and the rejected calls do, and however runs overlap, an attempt is answered
\* with an outcome of the strategy that selectStrategy names for its policy, or
\* with a failure behind a rejected call (recovery.service 39-120).
THEOREM AnswersFitTheStrategy == Spec => []AnswersAreTheStrategys
<1>1. Init => HInv /\ AnswersAreTheStrategys
  BY DEF Init, HInv, Hinting, AnswersAreTheStrategys, Outcoming, IdleRun, Answering, InRecovery
<1>2. IInv /\ IInv' /\ HInv /\ AnswersAreTheStrategys /\ [Next]_vars => HInv' /\ AnswersAreTheStrategys'
  BY HintStep, OutcomeStep
<1> QED BY <1>1, <1>2, Inductive, PTL DEF Spec

-----------------------------------------------------------------------------
(* Nothing runs forever *)

\* What is left of an attempt, ...
Stage(pc) ==
  CASE pc = "idle"      -> 13
    [] pc = "execute"   -> 12
    [] pc = "persisted" -> 11
    [] pc = "caught"    -> 10
    [] pc = "record"    -> 9
    [] pc = "dispatch"  -> 8
    [] pc = "flagged"   -> 7
    [] pc = "find"      -> 6
    [] pc = "create"    -> 5
    [] pc = "file"      -> 4
    [] pc = "log"       -> 3
    [] pc = "answer"    -> 2
    [] OTHER            -> 1

\* ... and of a run.
Rank(r) == 13 * (MaxRetriesAllowed + 1 - run[r].attempt) + Stage(run[r].pc)

\* Every step is one of an operator who resolves an incident, of whom there are
\* MaxResolves, or brings one run, and no other, closer to its end.
RunsDown ==
  [][ \/ run' = run /\ resolves' = resolves + 1
      \/ \E r \in Runs : Rank(r)' < Rank(r) /\ \A x \in Runs \ {r} : Rank(x)' = Rank(x) ]_vars

LEMMA StageFacts == ASSUME NEW pc PROVE Stage(pc) \in 1..13
BY DEF Stage

LEMMA RankDrops ==
  ASSUME IInv, NEW r \in Runs, MarkStepRunning(r) \/ Loop(r) \/ Recover(r) \/ Fault(r)
  PROVE  Rank(r)' < Rank(r)
<1>1. run \in [Runs -> Locals] /\ run[r].attempt \in Nat
  BY RunTyped DEF IInv
<1>2. Stage(run[r].pc) \in 1..13 /\ Stage(run'[r].pc) \in 1..13 /\ MaxRetriesAllowed \in Nat
  BY StageFacts DEF MaxRetriesAllowed
<1>3. ASSUME run'[r].attempt = run[r].attempt, Stage(run'[r].pc) < Stage(run[r].pc)
      PROVE  Rank(r)' < Rank(r)
  BY <1>1, <1>2, <1>3 DEF Rank
<1>4. CASE MarkStepRunning(r)
  <2>1. PICK down \in BOOLEAN :
          run[r].pc = "idle" /\ run' = [run EXCEPT ![r].pc = "execute", ![r].down = down]
    BY <1>4 DEF MarkStepRunning, At
  <2>2. run'[r].pc = "execute" /\ run'[r].attempt = run[r].attempt
    BY <1>1, <2>1 DEF Locals
  <2> QED BY <1>3, <2>1, <2>2 DEF Stage
<1>5. CASE HandlerSucceeds(r) \/ HandlerFails(r)
  <2>1. run[r].pc = "execute" /\ run'[r].pc \in {"persisted", "caught"} /\ run'[r].attempt = run[r].attempt
    BY <1>1, <1>5 DEF HandlerSucceeds, HandlerFails, Execute, At, Goto, Locals
  <2> QED BY <1>3, <2>1 DEF Stage
<1>6. CASE LogCompleted(r) \/ CatchAfterPersist(r)
  <2>1. run[r].pc = "persisted" /\ run'[r].pc \in {"settled", "caught"} /\ run'[r].attempt = run[r].attempt
    BY <1>1, <1>6 DEF LogCompleted, CatchAfterPersist, At, Goto, Locals
  <2> QED BY <1>3, <2>1 DEF Stage
<1>7. CASE LogFailure(r) \/ RecordFailure(r) \/ HandleEscalate(r)
  <2>1. /\ run'[r].attempt = run[r].attempt
        /\ \/ run[r].pc = "caught" /\ run'[r].pc = "record"
           \/ run[r].pc = "record" /\ run'[r].pc = "dispatch"
           \/ run[r].pc = "dispatch" /\ run'[r].pc = "flagged"
    BY <1>1, <1>7 DEF LogFailure, RecordFailure, HandleEscalate, At, Goto, Locals
  <2> QED BY <1>3, <2>1 DEF Stage
<1>8. CASE \/ HandleRetry(r) \/ HandleSkip(r) \/ LogEscalation(r) \/ HandleOther(r) \/ HandlerRejected(r)
  <2>1. PICK outcome : /\ run[r].pc \in {"dispatch", "flagged"}
                       /\ run' = [run EXCEPT ![r].pc = "find", ![r].outcome = outcome]
    BY <1>8 DEF HandleRetry, HandleSkip, LogEscalation, HandleOther, HandlerRejected, Dispatched, At
  <2>2. run'[r].pc = "find" /\ run'[r].attempt = run[r].attempt
    BY <1>1, <2>1 DEF Locals
  <2> QED BY <1>3, <2>1, <2>2 DEF Stage
<1>9. CASE FindIncident(r) \/ CreateIncident(r)
  <2>1. /\ run'[r].attempt = run[r].attempt
        /\ \/ run[r].pc = "find" /\ run'[r].pc \in {"create", "file"}
           \/ run[r].pc = "create" /\ run'[r].pc = "file"
    BY <1>1, <1>9 DEF FindIncident, CreateIncident, At, Goto, Locals
  <2> QED BY <1>3, <2>1 DEF Stage
<1>10. CASE FileAttempt(r) \/ LogRecovery(r) \/ SettleStep(r) \/ Exhaust(r)
  <2>1. /\ run'[r].attempt = run[r].attempt
        /\ \/ run[r].pc = "file" /\ run'[r].pc = "log"
           \/ run[r].pc = "log" /\ run'[r].pc = "answer"
           \/ run[r].pc = "answer" /\ run'[r].pc \in {"settled", "exhausted"}
    BY <1>1, <1>10 DEF FileAttempt, LogRecovery, SettleStep, Exhaust, At, Goto, Locals
  <2> QED BY <1>3, <2>1 DEF Stage
<1>11. CASE NextAttempt(r)
  <2>1. run[r].pc = "answer" /\ run'[r].pc = "execute" /\ run'[r].attempt = run[r].attempt + 1
    BY <1>1, <1>11 DEF NextAttempt, At, Locals
  <2>2. Stage("answer") = 2 /\ Stage("execute") = 12
    BY DEF Stage
  <2> QED BY <1>1, <1>2, <2>1, <2>2 DEF Rank
<1>12. CASE RejectedCall(r)
  <2>1. run[r].pc \in RunPcs \ (RunEnd \union {"idle", "persisted", "flagged"}) /\ run'[r].pc = "aborted"
        /\ run'[r].attempt = run[r].attempt
    BY <1>1, <1>12 DEF RejectedCall, Goto, Locals
  <2> QED BY <1>3, <2>1 DEF Stage, RunPcs, RunEnd
<1> QED BY <1>4, <1>5, <1>6, <1>7, <1>8, <1>9, <1>10, <1>11, <1>12 DEF Loop, Recover, Fault

\* However many deliveries of the step overlap, and whatever the policy, the
\* attempt loop and recovery cannot go round forever: a run's rank is a natural
\* number, its own steps lower it and nobody else's raise it (worker 149-342).
\* With the fairness of FairSpec this is why a run that has begun ends.
THEOREM NothingRunsForever == Spec => [](\A r \in Runs : Rank(r) \in Nat) /\ RunsDown
<1>1. IInv => \A r \in Runs : Rank(r) \in Nat
  <2> SUFFICES ASSUME IInv, NEW r \in Runs PROVE Rank(r) \in Nat
    OBVIOUS
  <2>1. run[r].attempt \in 1..(MaxRetriesAllowed + 1) /\ Stage(run[r].pc) \in 1..13
    BY RunTyped, StageFacts DEF IInv, Locals
  <2> QED BY <2>1 DEF Rank, MaxRetriesAllowed
<1>2. ASSUME IInv, Next
      PROVE  \/ run' = run /\ resolves' = resolves + 1
             \/ \E r \in Runs : Rank(r)' < Rank(r) /\ \A x \in Runs \ {r} : Rank(x)' = Rank(x)
  <2>1. ASSUME NEW r \in Runs, MarkStepRunning(r) \/ Loop(r) \/ Recover(r) \/ Fault(r)
        PROVE  Rank(r)' < Rank(r) /\ \A x \in Runs \ {r} : Rank(x)' = Rank(x)
    <3>1. \A x \in Runs \ {r} : run'[x] = run[x]
      BY <1>2, <2>1, ApartFacts DEF Apart
    <3>2. \A x \in Runs \ {r} : Rank(x)' = Rank(x)
      BY <3>1 DEF Rank
    <3> QED BY <1>2, <2>1, <3>2, RankDrops
  <2>2. ASSUME NEW i \in DOMAIN incidents, ResolveIncident(i)
        PROVE  run' = run /\ resolves' = resolves + 1
    BY <2>2 DEF ResolveIncident
  <2> QED BY <1>2, <2>1, <2>2 DEF Next
<1>3. IInv /\ [Next]_vars =>
        [ \/ run' = run /\ resolves' = resolves + 1
          \/ \E r \in Runs : Rank(r)' < Rank(r) /\ \A x \in Runs \ {r} : Rank(x)' = Rank(x) ]_vars
  BY <1>2
<1> QED BY <1>1, <1>3, Inductive, PTL DEF Spec, RunsDown
=============================================================================
