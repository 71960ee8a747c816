------------------------- MODULE IdempotentRequests -------------------------
(***************************************************************************)
(* Requests to POST /jobs that carry one Idempotency-Key of one tenant:    *)
(* IdempotencyInterceptor around JobsService.create.  The interceptor      *)
(* looks the key up, lets the handler run when it finds nothing, and       *)
(* stores the response without waiting for it.                             *)
(***************************************************************************)
EXTENDS Naturals

CONSTANTS
  Requests,   \* first ones and repetitions
  Bodies,     \* the stored hash tells them apart
  MaxFaults   \* bound: calls of the API to its database that reject, API crashes

ASSUME RequestsAssumption == MaxFaults \in Nat

VARIABLES
  body,     \* of each request
  pc,       \* where each request is
  answer,   \* the job in the answer of each request, named for its creator
  stored,   \* the idempotency_keys row: its creator, or {}
  jobs,     \* requests whose handler has created a job
  earlier,  \* history: the answers and the row there were when a request came
  faults

vars == <<body, pc, answer, stored, jobs, earlier, faults>>

Pcs == {"away", "lookup", "create", "created", "answered", "stored", "unstored",
        "replayed", "conflict", "failed"}

TypeOK ==
  /\ body \in [Requests -> Bodies]
  /\ pc \in [Requests -> Pcs]
  /\ answer \in [Requests -> SUBSET Requests]
  /\ stored \in {{}} \union {{r} : r \in Requests}
  /\ jobs \subseteq Requests
  /\ earlier \in [Requests -> [answered : SUBSET Requests, row : SUBSET Requests]]
  /\ faults \in 0..MaxFaults

Init ==
  /\ body \in [Requests -> Bodies]
  /\ pc = [r \in Requests |-> "away"]
  /\ answer = [r \in Requests |-> {}]
  /\ stored = {}
  /\ jobs = {}
  /\ earlier = [r \in Requests |-> [answered |-> {}, row |-> {}]]
  /\ faults = 0

At(r, place)   == pc[r] = place
Goto(r, place) == pc' = [pc EXCEPT ![r] = place]
Answered       == {r \in Requests : answer[r] # {}}

Fault ==
  /\ faults < MaxFaults
  /\ faults' = faults + 1

Send(r) ==
  /\ At(r, "away")
  /\ Goto(r, "lookup")
  /\ earlier' = [earlier EXCEPT ![r] = [answered |-> Answered, row |-> stored]]
  /\ UNCHANGED <<body, answer, stored, jobs, faults>>

\* Mutant of LookupHit: the hash is not compared.
HitAnyHash(r) ==
  /\ At(r, "lookup")
  /\ \E first \in stored :
       /\ Goto(r, "replayed")
       /\ answer' = [answer EXCEPT ![r] = {first}]
  /\ UNCHANGED <<body, stored, jobs, earlier, faults>>

LookupHit(r) ==
  /\ At(r, "lookup")
  /\ \E first \in stored :
       IF body[first] = body[r]
       THEN Goto(r, "replayed") /\ answer' = [answer EXCEPT ![r] = {first}]
       ELSE Goto(r, "conflict") /\ UNCHANGED answer
  /\ UNCHANGED <<body, stored, jobs, earlier, faults>>

\* Mutant of LookupMiss: the row counts only for the same hash.
MissOtherHash(r) ==
  /\ At(r, "lookup")
  /\ \A first \in stored : body[first] # body[r]
  /\ Goto(r, "create")
  /\ UNCHANGED <<body, answer, stored, jobs, earlier, faults>>

LookupMiss(r) ==
  /\ At(r, "lookup")
  /\ stored = {}
  /\ Goto(r, "create")
  /\ UNCHANGED <<body, answer, stored, jobs, earlier, faults>>

LookupRejects(r) ==
  /\ At(r, "lookup")
  /\ Fault
  /\ Goto(r, "failed")
  /\ UNCHANGED <<body, answer, stored, jobs, earlier>>

\* next.handle()
CreateJob(r) ==
  /\ At(r, "create")
  /\ jobs' = jobs \union {r}
  /\ Goto(r, "created")
  /\ UNCHANGED <<body, answer, stored, earlier, faults>>

\* The handler throws, before or after it has written the job; tap does not see
\* an error, so that nothing is stored.
HandlerThrows(r) ==
  /\ At(r, "create")
  /\ Fault
  /\ jobs' \in {jobs, jobs \union {r}}
  /\ Goto(r, "failed")
  /\ UNCHANGED <<body, answer, stored, earlier>>

\* The response goes out; persist runs beside it.
Answer(r) ==
  /\ pc[r] \in {"created", "stored", "unstored"}
  /\ answer[r] = {}
  /\ answer' = [answer EXCEPT ![r] = {r}]
  /\ IF At(r, "created") THEN Goto(r, "answered") ELSE UNCHANGED pc
  /\ UNCHANGED <<body, stored, jobs, earlier, faults>>

\* Mutant of Persist: no unique index.
PersistAnother(r) ==
  /\ pc[r] \in {"created", "answered"}
  /\ stored' = stored \union {r}
  /\ Goto(r, "stored")
  /\ UNCHANGED <<body, answer, jobs, earlier, faults>>

\* The unique index lets only the first row in; persist swallows the error.
Persist(r) ==
  /\ pc[r] \in {"created", "answered"}
  /\ stored' = IF stored = {} THEN {r} ELSE stored
  /\ Goto(r, "stored")
  /\ UNCHANGED <<body, answer, jobs, earlier, faults>>

\* The create rejects for another reason, which is swallowed as well, or the
\* API dies before it, and then may never answer.
PersistFails(r) ==
  /\ pc[r] \in {"created", "answered"}
  /\ Fault
  /\ Goto(r, "unstored")
  /\ UNCHANGED <<body, answer, stored, jobs, earlier>>

Next ==
  \E r \in Requests :
    \/ Send(r)
    \/ LookupHit(r) \/ LookupMiss(r) \/ LookupRejects(r)
    \/ CreateJob(r) \/ HandlerThrows(r)
    \/ Answer(r) \/ Persist(r) \/ PersistFails(r)

Spec == Init /\ [][Next]_vars

-----------------------------------------------------------------------------
(* What the interceptor must guarantee *)

\* A replayed answer is the answer to an equal request, whose job exists
\* although its client may have seen an error or nothing (57-67, 91-101).
ReplaysAreFaithful ==
  \A r \in Requests : At(r, "replayed") =>
    \A first \in answer[r] : body[first] = body[r] /\ first \in jobs

\* All replays of a key name one job, whatever the order in which concurrent
\* requests looked up, created and stored theirs (53-66, 102-104).
ReplaysAgree ==
  \A r, s \in Requests : At(r, "replayed") /\ At(s, "replayed") => answer[r] = answer[s]

\* Who comes after a row was stored makes no job, with any body, even when
\* others who had looked before are still creating theirs (57-66).
LateRequestsMakeNoJob ==
  \A r \in Requests : earlier[r].row # {} => r \notin jobs

\* "Subsequent identical replays receive the cached response" (24-25): a request
\* that is sent after an equal one was answered makes no job, when nothing fails.
SubsequentIsReplayed ==
  \A r \in Requests : faults = 0 /\ r \in jobs =>
    \A first \in earlier[r].answered : body[first] # body[r]
=============================================================================
