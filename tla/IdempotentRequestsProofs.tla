---------------------- MODULE IdempotentRequestsProofs ----------------------
(***************************************************************************)
(* Proofs about requests with one idempotency key, for every number of     *)
(* requests, bodies and faults.                                            *)
(*                                                                         *)
(* The argument: the row, once stored, never changes, so that every replay *)
(* carries the row that is stored now (ReplaysCarryTheRow), and whoever    *)
(* came after it can only have taken the way of a hit (LateOnesHit).       *)
(***************************************************************************)
EXTENDS IdempotentRequests, TLAPS

Created == {"created", "answered", "stored", "unstored"}

\* A request that is past its handler has its job, and so has the row's.
JobsExist ==
  /\ \A r \in Requests : pc[r] \in Created => r \in jobs
  /\ stored \subseteq jobs

ReplaysCarryTheRow ==
  \A r \in Requests : At(r, "replayed") =>
    stored # {} /\ answer[r] = stored /\ \A first \in stored : body[first] = body[r]

\* The row a request found when it came is the row there is, and it has kept
\* the request from the handler.
LateOnesHit ==
  /\ \A r \in Requests : earlier[r].row # {} =>
       /\ stored # {}
       /\ pc[r] \in {"lookup", "replayed", "conflict", "failed"}
       /\ r \notin jobs
  /\ \A r \in Requests : pc[r] \in {"away", "lookup"} => r \notin jobs

IInv == TypeOK /\ JobsExist /\ ReplaysCarryTheRow /\ LateOnesHit

\* The initial state satisfies the invariant.
LEMMA InitInvariant == Init => IInv
BY RequestsAssumption DEF Init, IInv, TypeOK, Pcs, JobsExist, Created, ReplaysCarryTheRow, LateOnesHit, At

\* A step of a request preserves types, and only an absent row changes.
LEMMA TypeStep == ASSUME TypeOK, NEW r \in Requests,
    \/ Send(r) \/ LookupHit(r) \/ LookupMiss(r) \/ LookupRejects(r)
    \/ CreateJob(r) \/ HandlerThrows(r) \/ Answer(r) \/ Persist(r) \/ PersistFails(r)
  PROVE TypeOK' /\ (stored # {} => stored' = stored)
<1>1. CASE Send(r)
  BY <1>1 DEF TypeOK, Pcs, Send, At, Goto, Answered
<1>2. CASE LookupHit(r)
  BY <1>2 DEF TypeOK, Pcs, LookupHit, At, Goto
<1>3. CASE LookupMiss(r)
  BY <1>3 DEF TypeOK, Pcs, LookupMiss, At, Goto
<1>9. CASE LookupRejects(r)
  BY <1>9, RequestsAssumption DEF TypeOK, Pcs, LookupRejects, Fault, At, Goto
<1>4. CASE CreateJob(r)
  BY <1>4 DEF TypeOK, Pcs, CreateJob, At, Goto
<1>5. CASE HandlerThrows(r)
  BY <1>5, RequestsAssumption DEF TypeOK, Pcs, HandlerThrows, Fault, At, Goto
<1>6. CASE Answer(r)
  BY <1>6 DEF TypeOK, Pcs, Answer, At, Goto
<1>7. CASE Persist(r)
  BY <1>7 DEF TypeOK, Pcs, Persist, At, Goto
<1>8. CASE PersistFails(r)
  BY <1>8, RequestsAssumption DEF TypeOK, Pcs, PersistFails, Fault, At, Goto
<1> QED BY <1>1, <1>2, <1>3, <1>4, <1>5, <1>6, <1>7, <1>8, <1>9

\* Every step of a request preserves the invariant.
LEMMA RequestStep == ASSUME IInv, NEW r \in Requests,
    \/ Send(r) \/ LookupHit(r) \/ LookupMiss(r) \/ LookupRejects(r)
    \/ CreateJob(r) \/ HandlerThrows(r) \/ Answer(r) \/ Persist(r) \/ PersistFails(r)
  PROVE IInv'
<1> USE DEF IInv, TypeOK, Pcs, JobsExist, Created, ReplaysCarryTheRow, LateOnesHit, At, Goto
<1>0. TypeOK' /\ (stored # {} => stored' = stored)
  BY TypeStep
<1>1. CASE Send(r)
  BY <1>0, <1>1 DEF Send
<1>2. CASE LookupHit(r)
  <2>1. PICK first \in stored :
          IF body[first] = body[r]
          THEN Goto(r, "replayed") /\ answer' = [answer EXCEPT ![r] = {first}]
          ELSE Goto(r, "conflict") /\ UNCHANGED answer
    BY <1>2 DEF LookupHit
  <2>2. stored = {first} /\ r \notin jobs
    BY <2>1, <1>2 DEF LookupHit
  <2>3. UNCHANGED <<body, stored, jobs, earlier>>
    BY <1>2 DEF LookupHit
  <2>4. CASE body[first] = body[r]
    BY <1>0, <2>1, <2>2, <2>3, <2>4
  <2>5. CASE body[first] # body[r]
    BY <1>0, <2>1, <2>2, <2>3, <2>5
  <2> QED BY <2>4, <2>5
<1>3. CASE LookupMiss(r)
  BY <1>0, <1>3 DEF LookupMiss
<1>4. CASE LookupRejects(r)
  BY <1>0, <1>4 DEF LookupRejects
<1>5. CASE CreateJob(r)
  BY <1>0, <1>5 DEF CreateJob
<1>6. CASE HandlerThrows(r)
  BY <1>0, <1>6 DEF HandlerThrows
<1>7. CASE Answer(r)
  BY <1>0, <1>7 DEF Answer
<1>8. CASE Persist(r)
  <2>1. r \in jobs /\ earlier[r].row = {} /\ pc' = [pc EXCEPT ![r] = "stored"]
    BY <1>8 DEF Persist
  <2>2. UNCHANGED <<body, answer, jobs, earlier>>
    BY <1>8 DEF Persist
  <2>3. CASE stored = {}
    <3>1. stored' = {r}
      BY <1>8, <2>3 DEF Persist
    <3>2. \A q \in Requests : pc'[q] # "replayed" /\ earlier[q].row = {}
      BY <2>1, <2>3
    <3> QED BY <1>0, <2>1, <2>2, <3>1, <3>2
  <2>4. CASE stored # {}
    BY <1>0, <2>1, <2>2, <2>4
  <2> QED BY <2>3, <2>4
<1>9. CASE PersistFails(r)
  BY <1>0, <1>9 DEF PersistFails
<1> QED BY <1>1, <1>2, <1>3, <1>4, <1>5, <1>6, <1>7, <1>8, <1>9

\* The invariant is inductive.
THEOREM Inductive == Spec => []IInv
<1>1. IInv /\ [Next]_vars => IInv'
  <2> SUFFICES ASSUME IInv, [Next]_vars PROVE IInv'
    OBVIOUS
  <2>1. CASE Next
    BY <2>1, RequestStep DEF Next
  <2>2. CASE UNCHANGED vars
    BY <2>2 DEF vars, IInv, TypeOK, JobsExist, ReplaysCarryTheRow, LateOnesHit, At
  <2> QED BY <2>1, <2>2
<1> QED BY <1>1, InitInvariant, PTL DEF Spec

\* Type correctness; with it, that there is never more than one row.
THEOREM TypeCorrect == Spec => []TypeOK
BY Inductive, PTL DEF IInv

\* A replay is the answer to an equal request whose job exists.
THEOREM Faithful == Spec => []ReplaysAreFaithful
<1>1. IInv => ReplaysAreFaithful
  BY DEF IInv, JobsExist, ReplaysCarryTheRow, ReplaysAreFaithful, At
<1> QED BY <1>1, Inductive, PTL

\* All replays of a key name one job.
THEOREM Agree == Spec => []ReplaysAgree
<1>1. IInv => ReplaysAgree
  BY DEF IInv, ReplaysCarryTheRow, ReplaysAgree, At
<1> QED BY <1>1, Inductive, PTL

\* Who comes after a row was stored creates no job.
THEOREM LateMakeNoJob == Spec => []LateRequestsMakeNoJob
<1>1. IInv => LateRequestsMakeNoJob
  BY DEF IInv, LateOnesHit, LateRequestsMakeNoJob
<1> QED BY <1>1, Inductive, PTL
=============================================================================
