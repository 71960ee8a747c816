--------------------------- MODULE AdminApiProofs ---------------------------
(***************************************************************************)
(* Proofs about AdminApi, for any number of tenants, requests, seeders,    *)
(* demo workflows and faults.                                              *)
(*                                                                         *)
(* The argument: the tables only grow, but for a workflow that is removed  *)
(* on request (Grow, Kept), and a row is created once, because it bears    *)
(* the name of a request or seeder that never comes back to the place      *)
(* where it created it (Seen).  What a request or a seeder relies on thus  *)
(* stays so while the others go on.                                        *)
(***************************************************************************)
EXTENDS AdminApi, FiniteSetTheorems, TLAPS

\* A row that has existed: its creator is past the place where it is created.
Seen(w) ==
  /\ w.by \in Requests => req[w.by].pc \in {"written", "done"}
  /\ w.by \in Seeders =>
       /\ seed[w.by].pc # "new"
       /\ \E i \in 1..Len(Demos) : /\ Demos[i] = w.name
                                   /\ i < seed[w.by].demo \/ seed[w.by].pc = "done"

Kept(t, name) == HasName(t, name) \/ Removed(t, name)

\* What a request asks for has the type of its operation.
Asked(r) ==
  /\ req[r].op \in Ops => req[r].tenant \in Tenants
  /\ req[r].op = "createTenant" => req[r].arg \in Tenants
  /\ req[r].op = "revokeKey" => req[r].arg \in Keys
  /\ req[r].op = "createWorkflow" => req[r].arg \in Names
  /\ req[r].op \in {"removeWorkflow", "createJob"} => req[r].row \in Rows /\ Seen(req[r].row)
  /\ req[r].op \in JobOps => req[r].row \in jobs
  /\ req[r].pc \in {"admitted", "checked", "written"} => req[r].op \in Ops
  /\ req[r].pc # "done" => req[r].reply = None

\* What the look-up before a write has found, as far as nobody can change it.
Checked(r) == req[r].pc = "checked" =>
  /\ req[r].op \in {"createTenant", "issueKey", "createJob", "cancelJob", "retryJob"}
  /\ req[r].op = "createTenant" => Mine(r) = Admin
  /\ req[r].op = "createJob" => req[r].row.steps /\ req[r].row.tenant = Mine(r)
  /\ req[r].op \in {"cancelJob", "retryJob"} => req[r].row.tenant = Mine(r)

\* A request that has not come to its write, or was refused, has written nothing.
Silent(r) ==
  \/ req[r].pc \in {"new", "admitted", "checked"}
  \/ req[r].reply \in {401, 403, 404, 409}
  \/ req[r].reply = 400 /\ faults = 0
  => ~Wrote(r)

\* What was written holds, before and after it is answered.
Held(r) == req[r].pc = "written" \/ req[r].reply = 200 =>
  IF req[r].op = "issueKey"
  THEN r \in Issued /\ keys[r].tenant = Mine(r) /\ (req[r].reply = 200 => r \in known)
  ELSE Holds(r)

RequestGood(r) == Asked(r) /\ Checked(r) /\ Silent(r) /\ Held(r)

\* A key of the admin's that was not revoked when s began.
Keyed(s) == \E k \in Issued : keys[k].tenant = Admin /\ k \notin seed[s].before

\* What a seeder has done so far.
SeederGood(s) ==
  /\ seed[s].pc \in {"new", "findKey", "createKey"} => s \notin Issued
  /\ seed[s].pc = "print" => s \in Issued
  /\ seed[s].pc # "new" => Admin \in tenants
  /\ seed[s].before \subseteq Revoked
  /\ seed[s].pc \in {"print", "services", "find", "create", "done"} => Keyed(s)
  /\ seed[s].pc \in {"find", "create", "done"} => service # None
  /\ seed[s].pc # "new" => \A i \in 1..Len(Demos) :
       i < seed[s].demo \/ seed[s].pc = "done" => Kept(Admin, Demos[i])

\* Somebody has seen the key, or will unless a fault comes between.
Announced(k) ==
  \/ k \in known \/ faults > 0
  \/ k \in Requests /\ req[k].pc = "written" /\ req[k].op = "issueKey"
  \/ k \in Seeders /\ seed[k].pc = "print"

KeysGood == known \subseteq Issued /\ \A k \in Issued : Announced(k)

WorkflowsGood ==
  /\ \A w \in workflows : Seen(w)
  /\ \A v, w \in workflows : v.tenant = w.tenant /\ v.name = w.name => v = w

IInv ==
  /\ TypeOK /\ KeysGood /\ WorkflowsGood /\ JobsKeepTheirWorkflow
  /\ \A r \in Requests : RequestGood(r)
  /\ \A s \in Seeders : SeederGood(s)

-----------------------------------------------------------------------------
(* What every step does to the tables *)

RequestRec == [pc : {"new", "admitted", "checked", "written", "done"},
               op : Ops \union {None}, tenant : Tenants \union {None},
               arg : Args, row : Rows \union JobRows \union {None}, reply : Replies \union {None}]
SeederRec == [pc : {"new", "findKey", "createKey", "print", "services",
                    "find", "create", "done", "failed", "dead"},
              demo : 1..Len(Demos), before : SUBSET Keys]
KeyRec == [tenant : Tenants \union {None}, state : {"none", "live", "revoked"}]

\* Nothing is lost from the tables, but for workflows.
Grow ==
  /\ tenants \subseteq tenants'
  /\ \A k \in Issued : k \in Issued' /\ keys'[k].tenant = keys[k].tenant
  /\ Revoked \subseteq Revoked'
  /\ jobs \subseteq jobs' /\ changes \subseteq changes' /\ known \subseteq known'
  /\ faults' = 0 => faults = 0
  /\ service # None => service' # None

\* A row does not come back, and a name goes only on request.
Last ==
  /\ \A w \in Rows : Seen(w) => Seen(w)'
  /\ \A w \in workflows' \ workflows : ~Seen(w)
  /\ \A t, n : Kept(t, n) => Kept(t, n)'

\* A request that a step leaves alone keeps its promises.
LEMMA RequestStays ==
  ASSUME IInv, Grow, Last, NEW x \in Requests, req'[x] = req[x], Wrote(x)' => Wrote(x)
  PROVE  RequestGood(x)'
<1>1. RequestGood(x)
  BY DEF IInv
<1>2. Asked(x)'
  BY <1>1 DEF RequestGood, Asked, Last, Grow
<1>3. Checked(x)'
  BY <1>1 DEF RequestGood, Checked, Mine
<1>4. Silent(x)'
  BY <1>1 DEF RequestGood, Silent, Grow
<1>5. Held(x)'
  <2> SUFFICES ASSUME req[x].pc = "written" \/ req[x].reply = 200
               PROVE  Held(x)'
    BY DEF Held
  <2>1. CASE req[x].op = "issueKey"
    BY <1>1, <2>1 DEF RequestGood, Held, Grow, Mine
  <2>2. CASE req[x].op = "createTenant"
    BY <1>1, <2>2 DEF RequestGood, Held, Holds, JobOps, Grow
  <2>3. CASE req[x].op = "revokeKey"
    BY <1>1, <2>3 DEF RequestGood, Held, Holds, JobOps, Grow
  <2>4. CASE req[x].op = "createWorkflow"
    BY <1>1, <2>4 DEF RequestGood, Held, Holds, JobOps, Last, Kept, Mine
  <2>5. CASE req[x].op = "removeWorkflow"
    BY <1>1, <2>5 DEF RequestGood, Held, Holds, JobOps, Last, Asked
  <2>6. CASE req[x].op = "createJob"
    BY <1>1, <2>6 DEF RequestGood, Held, Holds, JobOps, Grow, NewJob, Mine
  <2>7. CASE req[x].op \in JobOps
    BY <1>1, <2>7 DEF RequestGood, Held, Holds, Grow, JobOps
  <2>8. CASE req[x].op \notin {"issueKey", "createTenant", "revokeKey", "createWorkflow",
                               "removeWorkflow", "createJob"} \union JobOps
    BY <2>8 DEF Held, Holds, JobOps
  <2> QED BY <2>1, <2>2, <2>3, <2>4, <2>5, <2>6, <2>7, <2>8
<1> QED BY <1>2, <1>3, <1>4, <1>5 DEF RequestGood

\* So does a seeder.
LEMMA SeederStays ==
  ASSUME IInv, Grow, Last, NEW x \in Seeders, seed'[x] = seed[x], x \in Issued' => x \in Issued
  PROVE  SeederGood(x)'
<1>1. SeederGood(x)
  BY DEF IInv
<1>2. Keyed(x) => Keyed(x)'
  BY DEF Keyed, Grow
<1> QED BY <1>1, <1>2 DEF SeederGood, Grow, Last

\* A step of one request.
LEMMA RequestStep ==
  ASSUME IInv, TypeOK', Grow, Last, NEW r \in Requests,
         \A x \in Requests \ {r} : req'[x] = req[x] /\ (Wrote(x)' => Wrote(x)),
         seed' = seed, \A s \in Seeders : s \in Issued' => s \in Issued,
         RequestGood(r)', KeysGood', WorkflowsGood', JobsKeepTheirWorkflow'
  PROVE  IInv'
<1>1. \A x \in Requests : RequestGood(x)'
  BY RequestStays
<1>2. \A s \in Seeders : SeederGood(s)'
  BY SeederStays
<1> QED BY <1>1, <1>2 DEF IInv

\* A step of one seeder.
LEMMA SeederStep ==
  ASSUME IInv, TypeOK', Grow, Last, NEW s \in Seeders, req' = req,
         \A x \in Requests : Wrote(x)' => Wrote(x),
         \A x \in Seeders \ {s} : seed'[x] = seed[x] /\ (x \in Issued' => x \in Issued),
         SeederGood(s)', KeysGood', WorkflowsGood', JobsKeepTheirWorkflow'
  PROVE  IInv'
<1>1. \A x \in Requests : RequestGood(x)'
  BY RequestStays
<1>2. \A x \in Seeders : SeederGood(x)'
  BY SeederStays
<1> QED BY <1>1, <1>2 DEF IInv

\* What is known when the tables stay as they are.
LEMMA TablesStay ==
  ASSUME UNCHANGED <<tables, known>>
  PROVE  /\ \A k : (k \in Issued' <=> k \in Issued) /\ (k \in Revoked' <=> k \in Revoked)
         /\ \A x : Wrote(x)' <=> Wrote(x)
         /\ \A t, n : HasName(t, n)' <=> HasName(t, n)
BY DEF tables, Issued, Revoked, Wrote, HasName

\* A row stays seen while its creator goes forward.
LEMMA SeenStays ==
  ASSUME IInv, NEW w \in Rows, Seen(w),
         \A x \in Requests : req[x].pc \in {"written", "done"} => req'[x].pc \in {"written", "done"},
         seed' = seed
  PROVE  Seen(w)'
BY DEF Seen

\* A removal stays on record.
LEMMA RemovedStays ==
  ASSUME NEW t, NEW n, Removed(t, n),
         \A x \in Requests : req[x].pc \in {"written", "done"} =>
           req'[x].pc \in {"written", "done"} /\ req'[x].op = req[x].op /\ req'[x].row = req[x].row
  PROVE  Removed(t, n)'
BY DEF Removed

\* The step of a request from one place to the next.
Moved(r, pc, reply) ==
  /\ req' \in [Requests -> RequestRec]
  /\ req'[r].pc = pc /\ req'[r].reply = reply
  /\ req'[r].op = req[r].op /\ req'[r].tenant = req[r].tenant
  /\ req'[r].arg = req[r].arg /\ req'[r].row = req[r].row
  /\ \A x \in Requests \ {r} : req'[x] = req[x]

LEMMA GotoEffect ==
  ASSUME TypeOK, NEW r \in Requests, NEW pc \in {"checked", "written"}, Goto(r, pc)
  PROVE  Moved(r, pc, req[r].reply)
<1>1. req \in [Requests -> RequestRec]
  BY DEF TypeOK, RequestRec
<1>2. req' = [req EXCEPT ![r] = [req[r] EXCEPT !.pc = pc]]
  BY <1>1 DEF Goto
<1>3. [req[r] EXCEPT !.pc = pc] \in RequestRec
  BY <1>1 DEF RequestRec
<1> QED BY <1>1, <1>2, <1>3 DEF Moved, RequestRec

LEMMA ReplyEffect ==
  ASSUME TypeOK, NEW r \in Requests, NEW status \in Replies \union {None}, Reply(r, status)
  PROVE  Moved(r, "done", status)
<1>1. req \in [Requests -> RequestRec]
  BY DEF TypeOK, RequestRec
<1>2. req' = [req EXCEPT ![r] = [req[r] EXCEPT !.pc = "done", !.reply = status]]
  BY <1>1 DEF Reply
<1>3. [req[r] EXCEPT !.pc = "done", !.reply = status] \in RequestRec
  BY <1>1 DEF RequestRec
<1> QED BY <1>1, <1>2, <1>3 DEF Moved, RequestRec

LEMMA ThrowEffect ==
  ASSUME TypeOK, NEW r \in Requests,
         NEW what \in {"ForbiddenException", "NotFoundException", "ConflictException",
                       "P2002", "P2003", "Error"}, Throw(r, what)
  PROVE  \E status \in {400, 403, 404, 409, 500} :
           Moved(r, "done", status) /\ (status = 400 => what = "P2003")
<1>1. /\ Normalize(what) \in {400, 403, 404, 409, 500}
      /\ Normalize(what) = 400 => what = "P2003"
  BY DEF Normalize
<1>2. Normalize(what) \in Replies \union {None}
  BY <1>1 DEF Replies
<1>3. Reply(r, Normalize(what))
  BY DEF Throw
<1> QED BY <1>1, ReplyEffect, <1>2, <1>3

\* A row is one of a request at its write, or of a seeder.
LEMMA SeenForward ==
  ASSUME NEW r \in Requests, NEW pc \in {"checked", "written", "done"}, NEW reply,
         Moved(r, pc, reply), req[r].pc \in {"written", "done"} => pc = "done", seed' = seed
  PROVE  /\ \A w \in Rows : Seen(w) => Seen(w)'
         /\ \A t, n : Removed(t, n) => Removed(t, n)'
<1>1. \A x \in Requests : req[x].pc \in {"written", "done"} =>
        req'[x].pc \in {"written", "done"} /\ req'[x].op = req[x].op /\ req'[x].row = req[x].row
  BY DEF Moved
<1> QED BY <1>1, RemovedStays DEF Seen

\* A step of a request that writes nothing: a look-up, a refusal, a failure.
LEMMA NothingWritten ==
  ASSUME IInv, NEW r \in Requests, NEW pc \in {"checked", "done"}, NEW reply,
         Moved(r, pc, reply), UNCHANGED <<auth, tables, known, seed>>,
         faults' \in 0..MaxFaults, faults' \in {faults, faults + 1},
         pc = "checked" => /\ req[r].pc = "admitted" /\ reply = req[r].reply
                           /\ Checked(r)',
         pc = "done" => /\ req[r].pc # "done" /\ reply # 200
                        /\ req[r].pc = "written" => faults' > 0 /\ reply \in {400, 500, None}
  PROVE  IInv'
<1>1. TypeOK /\ RequestGood(r)
  BY DEF IInv
<1>2. TypeOK'
  BY <1>1 DEF TypeOK, Moved, tables, RequestRec
<1>3. /\ \A k : (k \in Issued' <=> k \in Issued) /\ (k \in Revoked' <=> k \in Revoked)
      /\ \A x : Wrote(x)' <=> Wrote(x)
      /\ \A t, n : HasName(t, n)' <=> HasName(t, n)
  BY TablesStay
<1>4. Grow
  BY <1>1, <1>3 DEF Grow, tables, TypeOK
<1>5. Last
  <2>1. /\ \A w \in Rows : Seen(w) => Seen(w)'
        /\ \A t, n : Removed(t, n) => Removed(t, n)'
    BY SeenForward
  <2> QED BY <2>1, <1>3 DEF Last, Kept, tables
<1>6. KeysGood'
  BY <1>1, <1>3 DEF IInv, KeysGood, Announced, Moved, TypeOK
<1>7. WorkflowsGood' /\ JobsKeepTheirWorkflow'
  BY <1>5, <1>1 DEF IInv, WorkflowsGood, JobsKeepTheirWorkflow, tables, Last, TypeOK
<1>8. RequestGood(r)'
  <2>1. Asked(r)'
    BY <1>1, <1>4, <1>5 DEF RequestGood, Asked, Moved, Last, Grow
  <2>2. Checked(r)'
    BY DEF Checked, Moved
  <2>3. CASE pc = "checked"
    <3>1. ~Wrote(r)' /\ req[r].reply # 200
      BY <1>1, <1>3, <2>3, AdminAssumption DEF RequestGood, Asked, Silent, Replies
    <3>2. Silent(r)' /\ Held(r)'
      BY <2>3, <3>1 DEF Silent, Held, Moved
    <3> QED BY <2>1, <2>2, <3>2 DEF RequestGood
  <2>4. CASE pc = "done"
    <3>1. Held(r)'
      BY <2>4 DEF Held, Moved
    <3>2. CASE req[r].pc = "written"
      BY <2>1, <2>2, <2>4, <3>1, <3>2, <1>1, AdminAssumption
      DEF RequestGood, Silent, Moved, Replies, TypeOK
    <3>3. CASE req[r].pc \in {"new", "admitted", "checked"}
      BY <2>1, <2>2, <3>1, <3>3, <1>1, <1>3 DEF RequestGood, Silent
    <3> QED BY <1>1, <2>4, <3>2, <3>3 DEF TypeOK
  <2> QED BY <2>3, <2>4
<1>9. \A x \in Requests \ {r} : req'[x] = req[x] /\ (Wrote(x)' => Wrote(x))
  BY <1>3 DEF Moved
<1> QED BY <1>2, <1>3, <1>4, <1>5, <1>6, <1>7, <1>8, <1>9, RequestStep

\* A request that is refused.
LEMMA Refused ==
  ASSUME IInv, NEW r \in Requests, req[r].pc \in {"admitted", "checked"},
         NEW what \in {"ForbiddenException", "NotFoundException", "ConflictException",
                       "P2002", "P2003", "Error"}, Throw(r, what),
         UNCHANGED <<auth, tables, known, seed, faults>>
  PROVE  IInv'
<1>1. PICK status \in {400, 403, 404, 409, 500} : Moved(r, "done", status)
  BY ThrowEffect DEF IInv
<1> QED BY <1>1, NothingWritten DEF IInv, TypeOK

\* A request that has looked up what it needs.
LEMMA LookedUp ==
  ASSUME IInv, NEW r \in Requests, req[r].pc = "admitted", Goto(r, "checked"),
         UNCHANGED <<auth, tables, known, seed, faults>>,
         req[r].op \in {"createTenant", "issueKey", "createJob", "cancelJob", "retryJob"},
         req[r].op = "createTenant" => Mine(r) = Admin,
         req[r].op = "createJob" => req[r].row.steps /\ req[r].row.tenant = Mine(r),
         req[r].op \in {"cancelJob", "retryJob"} => req[r].row.tenant = Mine(r)
  PROVE  IInv'
<1>1. Moved(r, "checked", req[r].reply)
  BY GotoEffect DEF IInv
<1>2. Checked(r)'
  BY <1>1 DEF Checked, Moved, Mine
<1> QED BY <1>1, <1>2, NothingWritten DEF IInv, TypeOK

\* A request that has written, and has not answered.
LEMMA Written ==
  ASSUME IInv, NEW r \in Requests, Moved(r, "written", req[r].reply),
         req[r].pc \in {"admitted", "checked"}, UNCHANGED <<auth, known, seed, faults>>,
         TypeOK', Grow,
         \A w \in workflows' \ workflows : ~Seen(w),
         \A t, n : HasName(t, n) => Kept(t, n)',
         \A x \in Requests \ {r} : Wrote(x)' => Wrote(x),
         \A s \in Seeders : s \in Issued' => s \in Issued,
         Held(r)', KeysGood', WorkflowsGood', JobsKeepTheirWorkflow'
  PROVE  IInv'
<1>1. RequestGood(r)
  BY DEF IInv
<1>2. Last
  <2>1. /\ \A w \in Rows : Seen(w) => Seen(w)'
        /\ \A t, n : Removed(t, n) => Removed(t, n)'
    BY SeenForward
  <2> QED BY <2>1 DEF Last, Kept
<1>3. Asked(r)'
  BY <1>1, <1>2 DEF RequestGood, Asked, Moved, Last, Grow
<1>4. Checked(r)' /\ Silent(r)'
  BY <1>1, AdminAssumption DEF RequestGood, Asked, Checked, Silent, Moved, Replies
<1>5. RequestGood(r)'
  BY <1>3, <1>4 DEF RequestGood
<1> QED BY <1>2, <1>5, RequestStep DEF Moved

-----------------------------------------------------------------------------
(* The steps of a request *)

LEMMA AdmitStep ==
  ASSUME IInv, NEW r \in Requests, Admit(r)
  PROVE  IInv'
<1>0. PICK t \in Tenants, op \in Ops : \E arg \in ArgsOf(op), row \in RowsFor(op) :
        req' = [req EXCEPT ![r] = [pc |-> "admitted", op |-> op, tenant |-> t,
                                   arg |-> arg, row |-> row, reply |-> None]]
  BY DEF Admit
<1>1. PICK arg \in ArgsOf(op), row \in RowsFor(op) :
        req' = [req EXCEPT ![r] = [pc |-> "admitted", op |-> op, tenant |-> t,
                                   arg |-> arg, row |-> row, reply |-> None]]
  BY <1>0
<1>2. TypeOK /\ RequestGood(r) /\ req[r].pc = "new" /\ UNCHANGED <<auth, tables, known, seed, faults>>
  BY DEF IInv, Admit
<1>3. /\ arg \in Args
      /\ op = "createTenant" => arg \in Tenants
      /\ op = "revokeKey" => arg \in Keys
      /\ op = "createWorkflow" => arg \in Names
  BY DEF ArgsOf, Args, Issued, Keys
<1>4. /\ row \in Rows \union JobRows \union {None}
      /\ op \in {"removeWorkflow", "createJob"} => row \in Rows /\ Seen(row)
      /\ op \in JobOps => row \in jobs
  BY <1>2 DEF RowsFor, JobOps, IInv, WorkflowsGood, TypeOK
<1>5. req' \in [Requests -> RequestRec]
  BY <1>1, <1>2, <1>3, <1>4 DEF TypeOK, RequestRec
<1>6. /\ req'[r].pc = "admitted" /\ req'[r].op = op /\ req'[r].tenant = t
      /\ req'[r].arg = arg /\ req'[r].row = row /\ req'[r].reply = None
      /\ \A x \in Requests \ {r} : req'[x] = req[x]
  BY <1>1, <1>2 DEF TypeOK
<1>7. /\ \A k : (k \in Issued' <=> k \in Issued) /\ (k \in Revoked' <=> k \in Revoked)
      /\ \A x : Wrote(x)' <=> Wrote(x)
      /\ \A n, m : HasName(n, m)' <=> HasName(n, m)
  BY <1>2, TablesStay
<1>8. TypeOK'
  BY <1>2, <1>5 DEF TypeOK, tables, RequestRec
<1>9. Grow
  BY <1>2, <1>7 DEF Grow, tables
<1>10. Last
  <2>1. \A w \in Rows : Seen(w) => Seen(w)'
    BY <1>2, <1>6 DEF Seen
  <2>2. \A n, m : Removed(n, m) => Removed(n, m)'
    BY <1>2, <1>6 DEF Removed
  <2> QED BY <1>2, <1>7, <2>1, <2>2 DEF Last, Kept, tables
<1>11. KeysGood'
  BY <1>2, <1>6, <1>7 DEF IInv, KeysGood, Announced, tables
<1>12. WorkflowsGood' /\ JobsKeepTheirWorkflow'
  BY <1>2, <1>10 DEF IInv, WorkflowsGood, JobsKeepTheirWorkflow, tables, Last, TypeOK
<1>13. RequestGood(r)'
  <2>1. Asked(r)'
    BY <1>3, <1>4, <1>6, <1>9, <1>10 DEF Asked, Last, Grow
  <2>2. ~Wrote(r)' /\ Checked(r)'
    BY <1>2, <1>6, <1>7 DEF RequestGood, Silent, Checked
  <2>3. Held(r)'
    BY <1>6, AdminAssumption DEF Held, Replies
  <2> QED BY <2>1, <2>2, <2>3 DEF RequestGood, Silent
<1> QED BY <1>2, <1>6, <1>7, <1>8, <1>9, <1>10, <1>11, <1>12, <1>13, RequestStep

LEMMA UnauthorizedStep ==
  ASSUME IInv, NEW r \in Requests, Unauthorized(r)
  PROVE  IInv'
<1>1. Moved(r, "done", 401)
  BY ReplyEffect DEF IInv, Unauthorized, Replies
<1> QED BY <1>1, NothingWritten DEF Unauthorized, IInv, TypeOK

LEMMA LookUpSteps ==
  ASSUME IInv, NEW r \in Requests, AssertAdmin(r) \/ FindTenant(r) \/ FindWorkflow(r) \/ FindJob(r)
  PROVE  IInv'
<1>1. CASE AssertAdmin(r)
  BY <1>1, Refused, LookedUp DEF AssertAdmin, At
<1>2. CASE FindTenant(r)
  BY <1>2, Refused, LookedUp DEF FindTenant, At
<1>3. CASE FindWorkflow(r)
  BY <1>3, Refused, LookedUp DEF FindWorkflow, At
<1>4. CASE FindJob(r)
  BY <1>4, Refused, LookedUp DEF FindJob, At
<1> QED BY <1>1, <1>2, <1>3, <1>4

LEMMA FailsStep ==
  ASSUME IInv, NEW r \in Requests, Fails(r)
  PROVE  IInv'
<1>1. PICK status \in {400, 500, None} : Reply(r, status)
  BY DEF Fails
<1>2. Moved(r, "done", status) /\ status # 200
  BY <1>1, ReplyEffect, AdminAssumption DEF IInv, Replies
<1>3. faults' \in 0..MaxFaults /\ faults' = faults + 1 /\ faults' > 0
  BY AdminAssumption DEF IInv, TypeOK, Fails, Fault
<1> QED BY <1>2, <1>3, NothingWritten DEF Fails

LEMMA CreateTenantStep ==
  ASSUME IInv, NEW r \in Requests, CreateTenant(r)
  PROVE  IInv'
<1>1. CASE req[r].arg \in tenants
  BY <1>1, Refused DEF CreateTenant, At, tables
<1>2. CASE req[r].arg \notin tenants
  <2>1. /\ Goto(r, "written") /\ tenants' = tenants \union {req[r].arg}
        /\ UNCHANGED <<auth, keys, workflows, jobs, changes, service, known, seed, faults>>
    BY <1>2 DEF CreateTenant
  <2>2. Moved(r, "written", req[r].reply) /\ req[r].op = "createTenant" /\ req[r].pc = "checked"
    BY <2>1, GotoEffect DEF IInv, CreateTenant, At
  <2>3. TypeOK /\ RequestGood(r)
    BY DEF IInv
  <2>4. TypeOK'
    BY <2>1, <2>2, <2>3 DEF TypeOK, Moved, RequestRec, RequestGood, Asked
  <2>5. /\ \A k : (k \in Issued' <=> k \in Issued) /\ (k \in Revoked' <=> k \in Revoked)
        /\ \A x : Wrote(x)' <=> Wrote(x)
        /\ \A t, n : HasName(t, n)' <=> HasName(t, n)
    BY <2>1 DEF Issued, Revoked, Wrote, HasName
  <2>6. Grow
    BY <2>1, <2>5 DEF Grow
  <2>7. Held(r)'
    BY <2>1, <2>2 DEF Held, Holds, JobOps, Moved
  <2>8. KeysGood'
    BY <2>1, <2>2, <2>5 DEF IInv, KeysGood, Announced, Moved
  <2>9. WorkflowsGood' /\ JobsKeepTheirWorkflow'
    <3>1. \A w \in workflows : Seen(w)'
      BY <2>1, <2>2, <2>3, SeenForward DEF IInv, WorkflowsGood, TypeOK
    <3> QED BY <2>1, <3>1 DEF IInv, WorkflowsGood, JobsKeepTheirWorkflow
  <2> QED BY <2>1, <2>2, <2>4, <2>5, <2>6, <2>7, <2>8, <2>9, Written DEF Kept
<1> QED BY <1>1, <1>2

\* A key that is added, and one that is revoked.
LEMMA KeyAdded ==
  ASSUME TypeOK, NEW k \in Keys, NEW t \in Tenants, k \notin Issued,
         keys' = [keys EXCEPT ![k] = [tenant |-> t, state |-> "live"]]
  PROVE  /\ keys' \in [Keys -> KeyRec]
         /\ \A x : x \in Issued' <=> x \in Issued \/ x = k
         /\ \A x : x \in Revoked' <=> x \in Revoked
         /\ keys'[k] = [tenant |-> t, state |-> "live"]
         /\ \A x \in Keys \ {k} : keys'[x] = keys[x]
<1>1. keys \in [Keys -> KeyRec]
  BY DEF TypeOK, KeyRec
<1>2. keys'[k] = [tenant |-> t, state |-> "live"] /\ \A x \in Keys \ {k} : keys'[x] = keys[x]
  BY <1>1
<1>3. keys' \in [Keys -> KeyRec]
  BY <1>1 DEF KeyRec
<1> QED BY <1>2, <1>3 DEF Issued, Revoked

LEMMA KeyRevoked ==
  ASSUME TypeOK, NEW k \in Issued, keys' = [keys EXCEPT ![k].state = "revoked"]
  PROVE  /\ keys' \in [Keys -> KeyRec]
         /\ \A x : x \in Issued' <=> x \in Issued
         /\ \A x : x \in Revoked' <=> x \in Revoked \/ x = k
         /\ \A x \in Keys : keys'[x].tenant = keys[x].tenant
         /\ \A x \in Keys \ {k} : keys'[x] = keys[x]
<1>1. keys \in [Keys -> KeyRec] /\ k \in Keys
  BY DEF TypeOK, KeyRec, Issued
<1>2. keys' = [keys EXCEPT ![k] = [keys[k] EXCEPT !.state = "revoked"]]
  BY <1>1
<1>3. [keys[k] EXCEPT !.state = "revoked"] \in KeyRec
  BY <1>1 DEF KeyRec
<1>4. keys'[k].state = "revoked" /\ keys'[k].tenant = keys[k].tenant
  BY <1>1, <1>2 DEF KeyRec
<1>5. keys' \in [Keys -> KeyRec] /\ \A x \in Keys \ {k} : keys'[x] = keys[x]
  BY <1>1, <1>2, <1>3
<1> QED BY <1>1, <1>4, <1>5 DEF Issued, Revoked

LEMMA IssueKeyStep ==
  ASSUME IInv, NEW r \in Requests, IssueKey(r)
  PROVE  IInv'
<1>1. /\ keys' = [keys EXCEPT ![r] = [tenant |-> Mine(r), state |-> "live"]]
      /\ UNCHANGED <<auth, tenants, workflows, jobs, changes, service, known, seed, faults>>
      /\ req[r].pc = "checked" /\ req[r].op = "issueKey"
  BY DEF IssueKey, At
<1>2. Moved(r, "written", req[r].reply)
  BY GotoEffect DEF IInv, IssueKey
<1>3. TypeOK /\ RequestGood(r)
  BY DEF IInv
<1>4. r \in Keys /\ Mine(r) \in Tenants /\ r \notin Issued
  BY <1>1, <1>3 DEF Keys, Creators, RequestGood, Asked, Silent, Wrote, Mine, Ops
<1>5. /\ keys' \in [Keys -> KeyRec]
      /\ \A x : x \in Issued' <=> x \in Issued \/ x = r
      /\ \A x : x \in Revoked' <=> x \in Revoked
      /\ keys'[r] = [tenant |-> Mine(r), state |-> "live"]
      /\ \A x \in Keys \ {r} : keys'[x] = keys[x]
  BY <1>1, <1>3, <1>4, KeyAdded
<1>6. TypeOK'
  BY <1>1, <1>2, <1>3, <1>5 DEF TypeOK, Moved, RequestRec, KeyRec
<1>7. Grow
  BY <1>1, <1>4, <1>5 DEF Grow, Issued
<1>8. Held(r)'
  BY <1>1, <1>2, <1>3, <1>5, AdminAssumption DEF Held, Moved, Mine, RequestGood, Asked, Replies
<1>9. KeysGood'
  BY <1>1, <1>2, <1>5 DEF IInv, KeysGood, Announced, Moved
<1>10. WorkflowsGood' /\ JobsKeepTheirWorkflow'
  <2>1. \A w \in workflows : Seen(w)'
    BY <1>1, <1>2, <1>3, SeenForward DEF IInv, WorkflowsGood, TypeOK
  <2> QED BY <1>1, <2>1 DEF IInv, WorkflowsGood, JobsKeepTheirWorkflow
<1>11. /\ \A x \in Requests \ {r} : Wrote(x)' => Wrote(x)
       /\ \A t, n : HasName(t, n) => HasName(t, n)'
  BY <1>1, <1>5 DEF Wrote, HasName
<1>12. \A s \in Seeders : s \in Issued' => s \in Issued
  BY <1>5, AdminAssumption
<1> QED BY <1>1, <1>2, <1>6, <1>7, <1>8, <1>9, <1>10, <1>11, <1>12, Written DEF Kept

LEMMA RevokeKeyStep ==
  ASSUME IInv, NEW r \in Requests, RevokeKey(r)
  PROVE  IInv'
<1>1. CASE req[r].arg \notin Live(Mine(r))
  BY <1>1, Refused DEF RevokeKey, At, tables
<1>2. CASE req[r].arg \in Live(Mine(r))
  <2>1. /\ Goto(r, "written") /\ keys' = [keys EXCEPT ![req[r].arg].state = "revoked"]
        /\ UNCHANGED <<auth, tenants, workflows, jobs, changes, service, known, seed, faults>>
        /\ req[r].pc = "admitted" /\ req[r].op = "revokeKey"
    BY <1>2 DEF RevokeKey, At
  <2>2. Moved(r, "written", req[r].reply)
    BY <2>1, GotoEffect DEF IInv
  <2>3. TypeOK /\ RequestGood(r) /\ req[r].arg \in Issued
    BY <1>2 DEF IInv, Live, Issued
  <2>4. /\ keys' \in [Keys -> KeyRec]
        /\ \A x : x \in Issued' <=> x \in Issued
        /\ \A x : x \in Revoked' <=> x \in Revoked \/ x = req[r].arg
        /\ \A x \in Keys : keys'[x].tenant = keys[x].tenant
    BY <2>1, <2>3, KeyRevoked
  <2>5. TypeOK'
    BY <2>1, <2>2, <2>3, <2>4 DEF TypeOK, Moved, RequestRec, KeyRec
  <2>6. Grow
    BY <2>1, <2>4 DEF Grow, Issued
  <2>7. Held(r)'
    BY <2>1, <2>2, <2>4 DEF Held, Holds, JobOps, Moved
  <2>8. KeysGood'
    BY <2>1, <2>2, <2>4 DEF IInv, KeysGood, Announced, Moved
  <2>9. WorkflowsGood' /\ JobsKeepTheirWorkflow'
    <3>1. \A w \in workflows : Seen(w)'
      BY <2>1, <2>2, <2>3, SeenForward DEF IInv, WorkflowsGood, TypeOK
    <3> QED BY <2>1, <3>1 DEF IInv, WorkflowsGood, JobsKeepTheirWorkflow
  <2>10. /\ \A x \in Requests : Wrote(x)' => Wrote(x)
         /\ \A t, n : HasName(t, n) => HasName(t, n)'
    BY <2>1, <2>4 DEF Wrote, HasName
  <2> QED BY <2>1, <2>2, <2>4, <2>5, <2>6, <2>7, <2>8, <2>9, <2>10, Written DEF Kept
<1> QED BY <1>1, <1>2

LEMMA CreateWorkflowStep ==
  ASSUME IInv, NEW r \in Requests, CreateWorkflow(r)
  PROVE  IInv'
<1>1. PICK steps \in BOOLEAN, distinct \in BOOLEAN :
        IF HasName(Mine(r), req[r].arg) \/ ~distinct
        THEN Throw(r, "P2002") /\ UNCHANGED workflows
        ELSE /\ Goto(r, "written")
             /\ workflows' = workflows \union
                  {[by |-> r, tenant |-> Mine(r), name |-> req[r].arg, steps |-> steps]}
  BY DEF CreateWorkflow
<1>2. CASE HasName(Mine(r), req[r].arg) \/ ~distinct
  BY <1>1, <1>2, Refused DEF CreateWorkflow, At, tables
<1>3. CASE ~HasName(Mine(r), req[r].arg) /\ distinct
  <2>0. PICK w : w = [by |-> r, tenant |-> Mine(r), name |-> req[r].arg, steps |-> steps]
    OBVIOUS
  <2>1. /\ Goto(r, "written") /\ workflows' = workflows \union {w}
        /\ UNCHANGED <<auth, tenants, keys, jobs, changes, service, known, seed, faults>>
        /\ req[r].pc = "admitted" /\ req[r].op = "createWorkflow"
    BY <1>1, <1>3, <2>0 DEF CreateWorkflow, At
  <2>2. Moved(r, "written", req[r].reply)
    BY <2>1, GotoEffect DEF IInv
  <2>3. TypeOK /\ RequestGood(r) /\ WorkflowsGood
    BY DEF IInv
  <2>4. w \in Rows /\ r \notin Seeders
    BY <2>0, <2>1, <2>3, AdminAssumption DEF Rows, Creators, RequestGood, Asked, Mine, Ops
  <2>5. TypeOK'
    BY <2>1, <2>2, <2>3, <2>4 DEF TypeOK, Moved, RequestRec
  <2>6. \A k : (k \in Issued' <=> k \in Issued) /\ (k \in Revoked' <=> k \in Revoked)
    BY <2>1 DEF Issued, Revoked
  <2>7. Grow
    BY <2>1, <2>6 DEF Grow
  <2>8. ~Seen(w) /\ Seen(w)'
    BY <2>0, <2>1, <2>2, <2>4 DEF Seen, Moved
  <2>9. Held(r)'
    <3>1. HasName(w.tenant, w.name)'
      BY <2>1 DEF HasName
    <3>2. w.tenant = Mine(r)' /\ w.name = req'[r].arg
      BY <2>0, <2>2 DEF Moved, Mine
    <3> QED BY <2>1, <2>2, <3>1, <3>2 DEF Held, Holds, JobOps, Moved
  <2>10. KeysGood'
    BY <2>1, <2>2, <2>6 DEF IInv, KeysGood, Announced, Moved
  <2>11. WorkflowsGood' /\ JobsKeepTheirWorkflow'
    <3>1. \A v \in workflows' : Seen(v)'
      BY <2>1, <2>2, <2>3, <2>8, SeenForward DEF WorkflowsGood, TypeOK
    <3>2. \A v \in workflows : ~(v.tenant = w.tenant /\ v.name = w.name)
      BY <1>3, <2>0 DEF HasName
    <3>3. \A v, u \in workflows' : v.tenant = u.tenant /\ v.name = u.name => v = u
      BY <2>1, <2>3, <3>2 DEF WorkflowsGood
    <3>4. JobsKeepTheirWorkflow'
      BY <2>1 DEF IInv, JobsKeepTheirWorkflow
    <3> QED BY <3>1, <3>3, <3>4 DEF WorkflowsGood
  <2>12. /\ \A x \in Requests \ {r} : Wrote(x)' => Wrote(x)
         /\ \A t, n : HasName(t, n) => HasName(t, n)'
    BY <2>0, <2>1, <2>6 DEF Wrote, HasName
  <2>13. \A v \in workflows' \ workflows : ~Seen(v)
    BY <2>1, <2>8
  <2> QED BY <2>1, <2>2, <2>5, <2>6, <2>7, <2>9, <2>10, <2>11, <2>12, <2>13, Written DEF Kept
<1> QED BY <1>1, <1>2, <1>3

LEMMA RemoveWorkflowStep ==
  ASSUME IInv, NEW r \in Requests, RemoveWorkflow(r)
  PROVE  IInv'
<1>0. PICK w : w = req[r].row
  OBVIOUS
<1>1. CASE w \notin workflows \/ w.tenant # Mine(r)
  BY <1>0, <1>1, Refused DEF RemoveWorkflow, At, tables
<1>2. CASE w \in workflows /\ w.tenant = Mine(r) /\ HasJob(w)
  BY <1>0, <1>2, Refused DEF RemoveWorkflow, At, tables
<1>3. CASE w \in workflows /\ w.tenant = Mine(r) /\ ~HasJob(w)
  <2>1. /\ Goto(r, "written") /\ workflows' = workflows \ {w}
        /\ UNCHANGED <<auth, tenants, keys, jobs, changes, service, known, seed, faults>>
        /\ req[r].pc = "admitted" /\ req[r].op = "removeWorkflow"
    BY <1>0, <1>3 DEF RemoveWorkflow, At
  <2>2. Moved(r, "written", req[r].reply)
    BY <2>1, GotoEffect DEF IInv
  <2>3. TypeOK /\ RequestGood(r) /\ WorkflowsGood
    BY DEF IInv
  <2>4. TypeOK'
    BY <2>1, <2>2, <2>3 DEF TypeOK, Moved, RequestRec
  <2>5. \A k : (k \in Issued' <=> k \in Issued) /\ (k \in Revoked' <=> k \in Revoked)
    BY <2>1 DEF Issued, Revoked
  <2>6. Grow
    BY <2>1, <2>5 DEF Grow
  <2>7. Held(r)'
    BY <1>0, <2>1, <2>2 DEF Held, Holds, JobOps, Moved
  <2>8. KeysGood'
    BY <2>1, <2>2, <2>5 DEF IInv, KeysGood, Announced, Moved
  <2>9. WorkflowsGood'
    BY <2>1, <2>2, <2>3, SeenForward DEF WorkflowsGood, TypeOK
  <2>10. JobsKeepTheirWorkflow'
    BY <1>3, <2>1 DEF IInv, JobsKeepTheirWorkflow, HasJob
  <2>11. \A x \in Requests : Wrote(x)' => Wrote(x)
    BY <2>1, <2>5 DEF Wrote
  <2>12. Removed(w.tenant, w.name)'
    BY <1>0, <1>3, <2>1, <2>2 DEF Removed, Moved
  <2>13. \A t, n : HasName(t, n) => Kept(t, n)'
    <3> SUFFICES ASSUME NEW t, NEW n, NEW v \in workflows, v.tenant = t, v.name = n
                 PROVE  Kept(t, n)'
      BY DEF HasName
    <3>1. CASE v = w
      BY <3>1, <2>12 DEF Kept
    <3>2. CASE v # w
      BY <3>2, <2>1 DEF Kept, HasName
    <3> QED BY <3>1, <3>2
  <2> QED BY <2>1, <2>2, <2>4, <2>5, <2>6, <2>7, <2>8, <2>9, <2>10, <2>11, <2>13, Written
<1> QED BY <1>1, <1>2, <1>3

LEMMA CreateJobStep ==
  ASSUME IInv, NEW r \in Requests, CreateJob(r)
  PROVE  IInv'
<1>1. CASE req[r].row \notin workflows
  BY <1>1, Refused DEF CreateJob, At, tables
<1>2. CASE req[r].row \in workflows
  <2>1. /\ Goto(r, "written") /\ jobs' = jobs \union {NewJob(r)}
        /\ UNCHANGED <<auth, tenants, keys, workflows, changes, service, known, seed, faults>>
        /\ req[r].pc = "checked" /\ req[r].op = "createJob"
    BY <1>2 DEF CreateJob, At
  <2>2. Moved(r, "written", req[r].reply)
    BY <2>1, GotoEffect DEF IInv
  <2>3. TypeOK /\ RequestGood(r) /\ WorkflowsGood
    BY DEF IInv
  <2>4. NewJob(r) \in JobRows
    BY <2>1, <2>3 DEF NewJob, JobRows, RequestGood, Asked, Mine, Ops
  <2>5. TypeOK'
    BY <2>1, <2>2, <2>3, <2>4 DEF TypeOK, Moved, RequestRec
  <2>6. \A k : (k \in Issued' <=> k \in Issued) /\ (k \in Revoked' <=> k \in Revoked)
    BY <2>1 DEF Issued, Revoked
  <2>7. Grow
    BY <2>1, <2>6 DEF Grow
  <2>8. Held(r)'
    BY <2>1, <2>2 DEF Held, Holds, JobOps, Moved, NewJob, Mine
  <2>9. KeysGood'
    BY <2>1, <2>2, <2>6 DEF IInv, KeysGood, Announced, Moved
  <2>10. WorkflowsGood'
    BY <2>1, <2>2, <2>3, SeenForward DEF WorkflowsGood, TypeOK
  <2>11. JobsKeepTheirWorkflow'
    BY <1>2, <2>1, <2>3 DEF IInv, JobsKeepTheirWorkflow, NewJob, RequestGood, Checked
  <2>12. /\ \A x \in Requests \ {r} : Wrote(x)' => Wrote(x)
         /\ \A t, n : HasName(t, n) => HasName(t, n)'
    BY <2>1, <2>6 DEF Wrote, HasName, NewJob
  <2> QED BY <2>1, <2>2, <2>5, <2>6, <2>7, <2>8, <2>9, <2>10, <2>11, <2>12, Written DEF Kept
<1> QED BY <1>1, <1>2

LEMMA SetServiceStep ==
  ASSUME IInv, NEW r \in Requests, SetService(r)
  PROVE  IInv'
<1>1. /\ Goto(r, "written") /\ service' \in Statuses
      /\ UNCHANGED <<auth, tenants, keys, workflows, jobs, changes, known, seed, faults>>
      /\ req[r].pc = "admitted" /\ req[r].op = "setService"
  BY DEF SetService, At
<1>2. Moved(r, "written", req[r].reply)
  BY <1>1, GotoEffect DEF IInv
<1>3. TypeOK /\ service' # None
  BY <1>1, AdminAssumption DEF IInv
<1>4. TypeOK'
  BY <1>1, <1>2, <1>3 DEF TypeOK, Moved, RequestRec
<1>5. \A k : (k \in Issued' <=> k \in Issued) /\ (k \in Revoked' <=> k \in Revoked)
  BY <1>1 DEF Issued, Revoked
<1>6. Grow
  BY <1>1, <1>3, <1>5 DEF Grow
<1>7. Held(r)'
  BY <1>1, <1>2 DEF Held, Holds, JobOps, Moved
<1>8. KeysGood'
  BY <1>1, <1>2, <1>5 DEF IInv, KeysGood, Announced, Moved
<1>9. WorkflowsGood' /\ JobsKeepTheirWorkflow'
  <2>1. \A w \in workflows : Seen(w)'
    BY <1>1, <1>2, <1>3, SeenForward DEF IInv, WorkflowsGood, TypeOK
  <2> QED BY <1>1, <2>1 DEF IInv, WorkflowsGood, JobsKeepTheirWorkflow
<1>10. /\ \A x \in Requests : Wrote(x)' => Wrote(x)
       /\ \A t, n : HasName(t, n) => HasName(t, n)'
  BY <1>1, <1>5 DEF Wrote, HasName
<1> QED BY <1>1, <1>2, <1>4, <1>5, <1>6, <1>7, <1>8, <1>9, <1>10, Written DEF Kept

\* What cancelJob, retryJob and resolveIncident write.
LEMMA JobChanged ==
  ASSUME IInv, NEW r \in Requests, Goto(r, "written"), Change(r), req[r].op \in JobOps,
         req[r].pc \in {"admitted", "checked"},
         UNCHANGED <<auth, tenants, keys, workflows, jobs, service, known, seed, faults>>
  PROVE  IInv'
<1> DEFINE c == [by |-> r, job |-> req[r].row]
<1>1. changes' = changes \union {c}
  BY DEF Change
<1>2. Moved(r, "written", req[r].reply)
  BY GotoEffect DEF IInv
<1>3. TypeOK /\ RequestGood(r)
  BY DEF IInv
<1>4. c \in [by : Requests, job : JobRows]
  BY <1>3 DEF RequestGood, Asked, TypeOK
<1>5. TypeOK'
  BY <1>1, <1>2, <1>3, <1>4 DEF TypeOK, Moved, RequestRec
<1>6. \A k : (k \in Issued' <=> k \in Issued) /\ (k \in Revoked' <=> k \in Revoked)
  BY DEF Issued, Revoked
<1>7. Grow
  BY <1>1, <1>6 DEF Grow
<1>8. Held(r)'
  BY <1>1, <1>2 DEF Held, Holds, Moved, JobOps
<1>9. KeysGood'
  BY <1>2, <1>6 DEF IInv, KeysGood, Announced, Moved, JobOps
<1>10. WorkflowsGood' /\ JobsKeepTheirWorkflow'
  <2>1. \A w \in workflows : Seen(w)'
    BY <1>2, <1>3, SeenForward DEF IInv, WorkflowsGood, TypeOK
  <2> QED BY <2>1 DEF IInv, WorkflowsGood, JobsKeepTheirWorkflow
<1>11. /\ \A x \in Requests \ {r} : Wrote(x)' => Wrote(x)
       /\ \A t, n : HasName(t, n) => HasName(t, n)'
  BY <1>1, <1>6 DEF Wrote, HasName
<1> QED BY <1>2, <1>5, <1>6, <1>7, <1>8, <1>9, <1>10, <1>11, Written DEF Kept

LEMMA JobSteps ==
  ASSUME IInv, NEW r \in Requests, ChangeJob(r) \/ ResolveIncident(r)
  PROVE  IInv'
<1>1. req[r].op \in JobOps /\ req[r].pc \in {"admitted", "checked"}
  BY DEF ChangeJob, ResolveIncident, At, JobOps
<1>2. CASE Change(r) /\ Goto(r, "written")
  BY <1>1, <1>2, JobChanged DEF ChangeJob, ResolveIncident
<1>3. CASE Throw(r, "Error") /\ UNCHANGED changes
  BY <1>1, <1>3, Refused DEF ChangeJob, ResolveIncident, tables
<1> QED BY <1>2, <1>3 DEF ChangeJob, ResolveIncident

LEMMA AnswerStep ==
  ASSUME IInv, NEW r \in Requests, Answer(r)
  PROVE  IInv'
<1>1. /\ req[r].pc = "written" /\ UNCHANGED <<auth, tables, seed, faults>>
      /\ known' = IF req[r].op = "issueKey" THEN known \union {r} ELSE known
  BY DEF Answer
<1>2. Moved(r, "done", 200)
  BY ReplyEffect DEF IInv, Answer, Replies
<1>3. TypeOK /\ RequestGood(r) /\ KeysGood
  BY DEF IInv
<1>4. /\ \A k : (k \in Issued' <=> k \in Issued) /\ (k \in Revoked' <=> k \in Revoked)
      /\ \A x : Wrote(x)' <=> Wrote(x)
      /\ \A t, n : HasName(t, n)' <=> HasName(t, n)
  BY <1>1 DEF tables, Issued, Revoked, Wrote, HasName
<1>5. req[r].op = "issueKey" => r \in Issued
  BY <1>1, <1>3 DEF RequestGood, Held
<1>6. TypeOK'
  BY <1>1, <1>2, <1>3 DEF TypeOK, Moved, RequestRec, tables, Keys, Creators
<1>7. Grow
  BY <1>1, <1>4 DEF Grow, tables
<1>8. Last
  <2>1. /\ \A w \in Rows : Seen(w) => Seen(w)'
        /\ \A t, n : Removed(t, n) => Removed(t, n)'
    BY <1>1, <1>2, SeenForward
  <2> QED BY <1>1, <1>4, <2>1 DEF Last, Kept, tables
<1>9. KeysGood'
  BY <1>1, <1>2, <1>3, <1>4, <1>5 DEF KeysGood, Announced, Moved
<1>10. WorkflowsGood' /\ JobsKeepTheirWorkflow'
  BY <1>1, <1>8, <1>3 DEF IInv, WorkflowsGood, JobsKeepTheirWorkflow, tables, Last, TypeOK
<1>11. Asked(r)' /\ Checked(r)' /\ Silent(r)'
  BY <1>2, <1>3, <1>7, <1>8 DEF RequestGood, Asked, Checked, Silent, Moved, Last, Grow
<1>12. Held(r)'
  <2>1. CASE req[r].op = "issueKey"
    BY <1>1, <1>2, <1>3, <1>4, <2>1 DEF RequestGood, Held, Moved, Mine, tables
  <2>2. CASE req[r].op # "issueKey"
    <3>1. Holds(r)
      BY <1>1, <1>3, <2>2 DEF RequestGood, Held
    <3>2. Holds(r)'
      <4>1. CASE req[r].op = "createWorkflow"
        BY <3>1, <4>1, <1>2, <1>4, <1>8 DEF Holds, JobOps, Last, Kept, Moved, Mine
      <4>2. CASE req[r].op # "createWorkflow"
        BY <3>1, <4>2, <2>2, <1>1, <1>2, <1>4 DEF Holds, JobOps, Moved, Mine, NewJob, tables
      <4> QED BY <4>1, <4>2
    <3> QED BY <3>2, <2>2, <1>2 DEF Held, Moved
  <2> QED BY <2>1, <2>2
<1>13. \A s \in Seeders : s \in Issued' => s \in Issued
  BY <1>4
<1> QED BY <1>1, <1>2, <1>4, <1>6, <1>7, <1>8, <1>9, <1>10, <1>11, <1>12, <1>13, RequestStep
        DEF RequestGood, Moved

-----------------------------------------------------------------------------
(* The steps of a seeder *)

SeederMoved(s, pc, demo) ==
  /\ seed' \in [Seeders -> SeederRec]
  /\ seed'[s].pc = pc /\ seed'[s].demo = demo /\ seed'[s].before = seed[s].before
  /\ \A x \in Seeders \ {s} : seed'[x] = seed[x]

LEMMA ThenEffect ==
  ASSUME TypeOK, NEW s \in Seeders,
         NEW pc \in {"createKey", "print", "services", "find", "create", "done", "failed", "dead"},
         Then(s, pc)
  PROVE  SeederMoved(s, pc, seed[s].demo)
<1>1. seed \in [Seeders -> SeederRec]
  BY DEF TypeOK, SeederRec
<1>2. seed' = [seed EXCEPT ![s] = [seed[s] EXCEPT !.pc = pc]]
  BY <1>1 DEF Then
<1>3. [seed[s] EXCEPT !.pc = pc] \in SeederRec
  BY <1>1 DEF SeederRec
<1> QED BY <1>1, <1>2, <1>3 DEF SeederMoved, SeederRec

LEMMA NextDemoEffect ==
  ASSUME TypeOK, NEW s \in Seeders, NextDemo(s)
  PROVE  \/ seed[s].demo = Len(Demos) /\ SeederMoved(s, "done", seed[s].demo)
         \/ seed[s].demo < Len(Demos) /\ SeederMoved(s, "find", seed[s].demo + 1)
<1>1. seed \in [Seeders -> SeederRec] /\ Len(Demos) \in Nat /\ seed[s].demo \in 1..Len(Demos)
  BY AdminAssumption DEF TypeOK, SeederRec
<1>2. CASE seed[s].demo = Len(Demos)
  BY <1>2, ThenEffect DEF NextDemo
<1>3. CASE seed[s].demo # Len(Demos)
  <2>1. seed' = [seed EXCEPT ![s] = [seed[s] EXCEPT !.pc = "find", !.demo = @ + 1]]
    BY <1>1, <1>3 DEF NextDemo
  <2>2. seed[s].demo < Len(Demos) /\ seed[s].demo + 1 \in 1..Len(Demos)
    BY <1>1, <1>3
  <2>3. [seed[s] EXCEPT !.pc = "find", !.demo = @ + 1] \in SeederRec
    BY <1>1, <2>2 DEF SeederRec
  <2> QED BY <1>1, <2>1, <2>2, <2>3 DEF SeederMoved, SeederRec
<1> QED BY <1>2, <1>3

\* What a seeder does leaves the promises of the others alone.
LEMMA SeederWrites ==
  ASSUME IInv, NEW s \in Seeders, NEW pc, NEW demo \in 1..Len(Demos),
         SeederMoved(s, pc, demo), UNCHANGED <<auth, req, jobs, changes>>,
         pc # "new", seed[s].pc \notin {"done", "dead", "failed"}, seed[s].demo <= demo,
         TypeOK', Grow, workflows \subseteq workflows',
         \A w \in workflows' \ workflows : w.by = s /\ ~Seen(w) /\ Seen(w)',
         \A v, w \in workflows' : v.tenant = w.tenant /\ v.name = w.name => v = w,
         \A k \in Issued' : k \in Issued \/ k = s,
         SeederGood(s)', KeysGood'
  PROVE  IInv'
<1>1. TypeOK /\ s \notin Requests /\ Len(Demos) \in Nat /\ seed[s].demo \in 1..Len(Demos)
  BY AdminAssumption DEF IInv, TypeOK
<1>2. \A w \in Rows : Seen(w) => Seen(w)'
  <2> SUFFICES ASSUME NEW w \in Rows, Seen(w)
               PROVE  Seen(w)'
    OBVIOUS
  <2>1. w.by \in Requests => req'[w.by].pc \in {"written", "done"}
    BY DEF Seen
  <2>2. CASE w.by = s
    <3>1. PICK i \in 1..Len(Demos) : Demos[i] = w.name /\ i < seed[s].demo
      BY <2>2 DEF Seen
    <3>2. i < demo
      BY <1>1, <3>1
    <3> QED BY <1>1, <2>2, <3>1, <3>2 DEF Seen, SeederMoved
  <2>3. CASE w.by # s
    BY <2>1, <2>3 DEF Seen, SeederMoved
  <2> QED BY <2>2, <2>3
<1>3. Last
  <2>1. \A t, n : Kept(t, n) => Kept(t, n)'
    BY DEF Kept, HasName, Removed
  <2> QED BY <1>2, <2>1 DEF Last
<1>4. WorkflowsGood' /\ JobsKeepTheirWorkflow'
  BY <1>1, <1>2 DEF IInv, WorkflowsGood, JobsKeepTheirWorkflow, TypeOK
<1>5. \A x \in Requests : Wrote(x)' => Wrote(x)
  BY <1>1 DEF Wrote
<1> QED BY <1>3, <1>4, <1>5, SeederStep DEF SeederMoved

\* A step of a seeder that writes nothing.
LEMMA SeederLooks ==
  ASSUME IInv, NEW s \in Seeders,
         NEW pc \in {"createKey", "services", "find", "create", "done", "failed", "dead"},
         NEW demo \in 1..Len(Demos),
         SeederMoved(s, pc, demo), UNCHANGED <<auth, tables, known, req>>,
         seed[s].pc \notin {"new", "done", "dead", "failed"}, seed[s].demo <= demo,
         faults' \in 0..MaxFaults, faults' \in {faults, faults + 1},
         seed[s].pc = "print" => faults' > 0,
         pc = "createKey" => seed[s].pc = "findKey",
         pc \in {"services", "find", "create", "done"} => Keyed(s),
         pc \in {"find", "create", "done"} => service # None,
         \A i \in 1..Len(Demos) : i < demo \/ pc = "done" => Kept(Admin, Demos[i])
  PROVE  IInv'
<1>1. TypeOK /\ SeederGood(s)
  BY DEF IInv
<1>2. /\ \A k : (k \in Issued' <=> k \in Issued) /\ (k \in Revoked' <=> k \in Revoked)
      /\ \A x : Wrote(x)' <=> Wrote(x)
      /\ \A t, n : HasName(t, n)' <=> HasName(t, n)
  BY TablesStay
<1>3. TypeOK'
  BY <1>1 DEF TypeOK, SeederMoved, tables, SeederRec
<1>4. Grow
  BY <1>1, <1>2 DEF Grow, tables, TypeOK
<1>5. KeysGood'
  <2> SUFFICES ASSUME NEW k \in Issued PROVE Announced(k)'
    BY <1>1, <1>2 DEF IInv, KeysGood
  <2>1. Announced(k)
    BY DEF IInv, KeysGood
  <2>2. faults \in Nat /\ faults' \in Nat
    BY <1>1, <1>3, AdminAssumption DEF TypeOK
  <2> QED BY <2>1, <2>2 DEF Announced, SeederMoved
<1>6. SeederGood(s)'
  <2>1. Keyed(s) => Keyed(s)'
    BY <1>2 DEF Keyed, SeederMoved, tables
  <2>2. \A i \in 1..Len(Demos) : i < demo \/ pc = "done" => Kept(Admin, Demos[i])'
    BY <1>2 DEF Kept, Removed
  <2>3. seed[s].before \subseteq Revoked'
    BY <1>1, <1>2 DEF SeederGood
  <2> QED BY <1>1, <1>2, <2>1, <2>2, <2>3 DEF SeederGood, SeederMoved, tables
<1>7. \A v, w \in workflows' : v.tenant = w.tenant /\ v.name = w.name => v = w
  BY DEF IInv, WorkflowsGood, tables
<1> QED BY <1>2, <1>3, <1>4, <1>5, <1>6, <1>7, SeederWrites DEF tables

LEMMA SeedTenantStep ==
  ASSUME IInv, NEW s \in Seeders, SeedTenant(s)
  PROVE  IInv'
<1>1. /\ seed[s].pc = "new" /\ tenants' = tenants \union {Admin}
      /\ seed' = [seed EXCEPT ![s] = [pc |-> "findKey", demo |-> 1, before |-> Revoked]]
      /\ UNCHANGED <<auth, keys, workflows, jobs, changes, service, known, req, faults>>
  BY DEF SeedTenant, SeederAt
<1>2. TypeOK /\ SeederGood(s) /\ Len(Demos) \in Nat /\ 1 \in 1..Len(Demos)
  BY AdminAssumption DEF IInv, TypeOK
<1>3. Revoked \in SUBSET Keys
  BY DEF Revoked
<1>4. TypeOK'
  BY <1>1, <1>2, <1>3, AdminAssumption DEF TypeOK
<1>5. /\ \A k : (k \in Issued' <=> k \in Issued) /\ (k \in Revoked' <=> k \in Revoked)
      /\ \A x : Wrote(x)' <=> Wrote(x)
      /\ \A t, n : HasName(t, n)' <=> HasName(t, n)
  BY <1>1 DEF Issued, Revoked, Wrote, HasName
<1>6. Grow
  BY <1>1, <1>5 DEF Grow
<1>7. /\ seed'[s] = [pc |-> "findKey", demo |-> 1, before |-> Revoked]
      /\ \A x \in Seeders \ {s} : seed'[x] = seed[x]
  BY <1>1, <1>2 DEF TypeOK
<1>8. Last
  <2>1. \A w \in Rows : Seen(w) => Seen(w)'
    BY <1>1, <1>7 DEF Seen
  <2>2. \A t, n : Removed(t, n) => Removed(t, n)'
    BY <1>1 DEF Removed
  <2> QED BY <1>1, <1>5, <2>1, <2>2 DEF Last, Kept
<1>9. KeysGood'
  BY <1>1, <1>5, <1>7 DEF IInv, KeysGood, Announced
<1>10. WorkflowsGood' /\ JobsKeepTheirWorkflow'
  BY <1>1, <1>8, <1>2 DEF IInv, WorkflowsGood, JobsKeepTheirWorkflow, Last, TypeOK
<1>11. SeederGood(s)'
  BY <1>1, <1>2, <1>5, <1>7 DEF SeederGood
<1> QED BY <1>1, <1>4, <1>5, <1>6, <1>7, <1>8, <1>9, <1>10, <1>11, SeederStep

LEMMA FindKeyStep ==
  ASSUME IInv, NEW s \in Seeders, FindKey(s)
  PROVE  IInv'
<1>1. /\ seed[s].pc = "findKey" /\ UNCHANGED <<auth, tables, known, req, faults>>
      /\ Then(s, IF Live(Admin) = {} THEN "createKey" ELSE "services")
  BY DEF FindKey, SeederAt
<1>2. TypeOK /\ SeederGood(s) /\ Len(Demos) \in Nat /\ seed[s].demo \in 1..Len(Demos)
  BY AdminAssumption DEF IInv, TypeOK
<1>3. \A i \in 1..Len(Demos) : i < seed[s].demo => Kept(Admin, Demos[i])
  BY <1>1, <1>2 DEF SeederGood
<1>4. CASE Live(Admin) = {}
  <2>1. SeederMoved(s, "createKey", seed[s].demo)
    BY <1>1, <1>2, <1>4, ThenEffect
  <2> QED BY <1>1, <1>2, <1>3, <2>1, SeederLooks DEF TypeOK
<1>5. CASE Live(Admin) # {}
  <2>1. SeederMoved(s, "services", seed[s].demo)
    BY <1>1, <1>2, <1>5, ThenEffect
  <2>2. Keyed(s)
    BY <1>2, <1>5 DEF SeederGood, Live, Issued, Revoked, Keyed
  <2> QED BY <1>1, <1>2, <1>3, <2>1, <2>2, SeederLooks DEF TypeOK
<1> QED BY <1>4, <1>5

LEMMA CreateKeyStep ==
  ASSUME IInv, NEW s \in Seeders, CreateKey(s)
  PROVE  IInv'
<1>1. /\ seed[s].pc = "createKey" /\ Then(s, "print")
      /\ keys' = [keys EXCEPT ![s] = [tenant |-> Admin, state |-> "live"]]
      /\ UNCHANGED <<auth, tenants, workflows, jobs, changes, service, known, req, faults>>
  BY DEF CreateKey, SeederAt
<1>2. TypeOK /\ SeederGood(s) /\ Len(Demos) \in Nat /\ seed[s].demo \in 1..Len(Demos)
  BY AdminAssumption DEF IInv, TypeOK
<1>3. SeederMoved(s, "print", seed[s].demo)
  BY <1>1, <1>2, ThenEffect
<1>4. s \in Keys /\ s \notin Issued /\ Admin \in Tenants
  BY <1>1, <1>2, AdminAssumption DEF SeederGood, Keys, Creators
<1>5. /\ keys' \in [Keys -> KeyRec]
      /\ \A x : x \in Issued' <=> x \in Issued \/ x = s
      /\ \A x : x \in Revoked' <=> x \in Revoked
      /\ keys'[s] = [tenant |-> Admin, state |-> "live"]
      /\ \A x \in Keys \ {s} : keys'[x] = keys[x]
  BY <1>1, <1>2, <1>4, KeyAdded
<1>6. TypeOK'
  BY <1>1, <1>2, <1>3, <1>5 DEF TypeOK, SeederMoved, SeederRec, KeyRec
<1>7. Grow
  BY <1>1, <1>4, <1>5 DEF Grow, Issued
<1>8. KeysGood'
  BY <1>1, <1>3, <1>5 DEF IInv, KeysGood, Announced, SeederMoved
<1>9. SeederGood(s)'
  <2>1. Keyed(s)'
    BY <1>2, <1>3, <1>4, <1>5 DEF Keyed, SeederGood, SeederMoved, Issued, Revoked
  <2>2. \A i \in 1..Len(Demos) : i < seed[s].demo => Kept(Admin, Demos[i])'
    BY <1>1, <1>2 DEF SeederGood, Kept, HasName, Removed
  <2> QED BY <1>1, <1>2, <1>3, <1>5, <2>1, <2>2 DEF SeederGood, SeederMoved
<1>10. \A v, w \in workflows' : v.tenant = w.tenant /\ v.name = w.name => v = w
  BY <1>1 DEF IInv, WorkflowsGood
<1> QED BY <1>1, <1>2, <1>3, <1>5, <1>6, <1>7, <1>8, <1>9, <1>10, SeederWrites

LEMMA PrintKeyStep ==
  ASSUME IInv, NEW s \in Seeders, PrintKey(s)
  PROVE  IInv'
<1>1. /\ seed[s].pc = "print" /\ Then(s, "services") /\ known' = known \union {s}
      /\ UNCHANGED <<auth, tables, req, faults>>
  BY DEF PrintKey, SeederAt
<1>2. TypeOK /\ SeederGood(s) /\ Len(Demos) \in Nat /\ seed[s].demo \in 1..Len(Demos)
  BY AdminAssumption DEF IInv, TypeOK
<1>3. SeederMoved(s, "services", seed[s].demo)
  BY <1>1, <1>2, ThenEffect
<1>4. /\ \A k : (k \in Issued' <=> k \in Issued) /\ (k \in Revoked' <=> k \in Revoked)
      /\ \A t, n : HasName(t, n)' <=> HasName(t, n)
  BY <1>1 DEF tables, Issued, Revoked, HasName
<1>5. s \in Issued
  BY <1>1, <1>2 DEF SeederGood
<1>6. TypeOK'
  BY <1>1, <1>2, <1>3, <1>5 DEF TypeOK, SeederMoved, SeederRec, tables, Issued
<1>7. Grow
  BY <1>1, <1>4 DEF Grow, tables
<1>8. KeysGood'
  BY <1>1, <1>3, <1>4, <1>5 DEF IInv, KeysGood, Announced, SeederMoved
<1>9. SeederGood(s)'
  <2>1. Keyed(s)'
    BY <1>1, <1>2, <1>3, <1>4 DEF Keyed, SeederGood, SeederMoved, tables
  <2>2. \A i \in 1..Len(Demos) : i < seed[s].demo => Kept(Admin, Demos[i])'
    BY <1>1, <1>2, <1>4 DEF SeederGood, Kept, Removed
  <2> QED BY <1>1, <1>2, <1>3, <1>4, <2>1, <2>2 DEF SeederGood, SeederMoved, tables
<1>10. \A v, w \in workflows' : v.tenant = w.tenant /\ v.name = w.name => v = w
  BY <1>1 DEF IInv, WorkflowsGood, tables
<1> QED BY <1>1, <1>2, <1>3, <1>4, <1>6, <1>7, <1>8, <1>9, <1>10, SeederWrites DEF tables

LEMMA SeedServicesStep ==
  ASSUME IInv, NEW s \in Seeders, SeedServices(s)
  PROVE  IInv'
<1>1. /\ seed[s].pc = "services" /\ Then(s, "find")
      /\ service' = IF service = None THEN "HEALTHY" ELSE service
      /\ UNCHANGED <<auth, tenants, keys, workflows, jobs, changes, known, req, faults>>
  BY DEF SeedServices, SeederAt
<1>2. TypeOK /\ SeederGood(s) /\ Len(Demos) \in Nat /\ seed[s].demo \in 1..Len(Demos)
  BY AdminAssumption DEF IInv, TypeOK
<1>3. SeederMoved(s, "find", seed[s].demo)
  BY <1>1, <1>2, ThenEffect
<1>4. /\ \A k : (k \in Issued' <=> k \in Issued) /\ (k \in Revoked' <=> k \in Revoked)
      /\ \A t, n : HasName(t, n)' <=> HasName(t, n)
  BY <1>1 DEF Issued, Revoked, HasName
<1>5. service' # None /\ service' \in Statuses
  BY <1>1, <1>2, AdminAssumption DEF Statuses, TypeOK
<1>6. TypeOK'
  BY <1>1, <1>2, <1>3, <1>5 DEF TypeOK, SeederMoved, SeederRec
<1>7. Grow
  BY <1>1, <1>4, <1>5 DEF Grow
<1>8. KeysGood'
  BY <1>1, <1>3, <1>4 DEF IInv, KeysGood, Announced, SeederMoved
<1>9. SeederGood(s)'
  <2>1. Keyed(s)'
    BY <1>1, <1>2, <1>3, <1>4 DEF Keyed, SeederGood, SeederMoved
  <2>2. \A i \in 1..Len(Demos) : i < seed[s].demo => Kept(Admin, Demos[i])'
    BY <1>1, <1>2, <1>4 DEF SeederGood, Kept, Removed
  <2> QED BY <1>1, <1>2, <1>3, <1>4, <1>5, <2>1, <2>2 DEF SeederGood, SeederMoved
<1>10. \A v, w \in workflows' : v.tenant = w.tenant /\ v.name = w.name => v = w
  BY <1>1 DEF IInv, WorkflowsGood
<1> QED BY <1>1, <1>2, <1>3, <1>4, <1>6, <1>7, <1>8, <1>9, <1>10, SeederWrites

LEMMA FindDemoStep ==
  ASSUME IInv, NEW s \in Seeders, FindDemo(s)
  PROVE  IInv'
<1>1. seed[s].pc = "find" /\ UNCHANGED <<auth, tables, known, req, faults>>
  BY DEF FindDemo, SeederAt
<1>2. TypeOK /\ SeederGood(s) /\ Len(Demos) \in Nat /\ seed[s].demo \in 1..Len(Demos)
  BY AdminAssumption DEF IInv, TypeOK
<1>3. /\ Keyed(s) /\ service # None
      /\ \A i \in 1..Len(Demos) : i < seed[s].demo => Kept(Admin, Demos[i])
  BY <1>1, <1>2 DEF SeederGood
<1>4. CASE HasName(Admin, Demo(s))
  <2>1. NextDemo(s) /\ Kept(Admin, Demos[seed[s].demo])
    BY <1>4 DEF FindDemo, Kept, Demo
  <2>2. \A i \in 1..Len(Demos) : i < seed[s].demo + 1 => Kept(Admin, Demos[i])
    <3> SUFFICES ASSUME NEW i \in 1..Len(Demos), i < seed[s].demo + 1
                 PROVE  Kept(Admin, Demos[i])
      OBVIOUS
    <3>1. i < seed[s].demo \/ i = seed[s].demo
      BY <1>2
    <3> QED BY <1>3, <2>1, <3>1
  <2>3. CASE seed[s].demo = Len(Demos) /\ SeederMoved(s, "done", seed[s].demo)
    <3>1. \A i \in 1..Len(Demos) : Kept(Admin, Demos[i])
      BY <1>2, <2>2, <2>3
    <3> QED BY <1>1, <1>2, <1>3, <2>3, <3>1, SeederLooks DEF TypeOK
  <2>4. CASE seed[s].demo < Len(Demos) /\ SeederMoved(s, "find", seed[s].demo + 1)
    <3>1. seed[s].demo + 1 \in 1..Len(Demos) /\ seed[s].demo <= seed[s].demo + 1
      BY <1>2, <2>4
    <3> QED BY <1>1, <1>2, <1>3, <2>2, <2>4, <3>1, SeederLooks DEF TypeOK
  <2> QED BY <1>2, <2>1, <2>3, <2>4, NextDemoEffect
<1>5. CASE ~HasName(Admin, Demo(s))
  <2>1. SeederMoved(s, "create", seed[s].demo)
    BY <1>2, <1>5, ThenEffect DEF FindDemo
  <2> QED BY <1>1, <1>2, <1>3, <2>1, SeederLooks DEF TypeOK
<1> QED BY <1>4, <1>5

LEMMA CreateDemoStep ==
  ASSUME IInv, NEW s \in Seeders, CreateDemo(s)
  PROVE  IInv'
<1>1. /\ seed[s].pc = "create"
      /\ UNCHANGED <<auth, tenants, keys, jobs, changes, service, known, req, faults>>
  BY DEF CreateDemo, SeederAt
<1>2. TypeOK /\ SeederGood(s) /\ Len(Demos) \in Nat /\ seed[s].demo \in 1..Len(Demos)
  BY AdminAssumption DEF IInv, TypeOK
<1>3. /\ Keyed(s) /\ service # None
      /\ \A i \in 1..Len(Demos) : i < seed[s].demo => Kept(Admin, Demos[i])
  BY <1>1, <1>2 DEF SeederGood
<1>4. CASE HasName(Admin, Demo(s))
  <2>1. SeederMoved(s, "failed", seed[s].demo) /\ UNCHANGED workflows
    BY <1>2, <1>4, ThenEffect DEF CreateDemo
  <2> QED BY <1>1, <1>2, <1>3, <2>1, SeederLooks DEF TypeOK, tables
<1>5. CASE ~HasName(Admin, Demo(s))
  <2>0. PICK w : w = [by |-> s, tenant |-> Admin, name |-> Demo(s), steps |-> TRUE]
    OBVIOUS
  <2>1. NextDemo(s) /\ workflows' = workflows \union {w}
    BY <1>5, <2>0 DEF CreateDemo
  <2>2. PICK pc \in {"find", "done"}, demo \in 1..Len(Demos) :
          /\ SeederMoved(s, pc, demo) /\ seed[s].demo <= demo
          /\ seed[s].demo < demo \/ pc = "done"
          /\ pc = "find" => demo = seed[s].demo + 1
          /\ pc = "done" => demo = seed[s].demo /\ demo = Len(Demos)
    <3>1. CASE seed[s].demo = Len(Demos) /\ SeederMoved(s, "done", seed[s].demo)
      BY <1>2, <3>1
    <3>2. CASE seed[s].demo < Len(Demos) /\ SeederMoved(s, "find", seed[s].demo + 1)
      BY <1>2, <3>2
    <3> QED BY <1>2, <2>1, <3>1, <3>2, NextDemoEffect
  <2>3. w \in Rows /\ w.by = s /\ s \notin Requests /\ w.name = Demos[seed[s].demo]
    BY <1>2, <2>0, AdminAssumption DEF Rows, Creators, Demo
  <2>4. TypeOK'
    BY <1>1, <1>2, <2>1, <2>2, <2>3 DEF TypeOK, SeederMoved, SeederRec
  <2>5. /\ \A k : (k \in Issued' <=> k \in Issued) /\ (k \in Revoked' <=> k \in Revoked)
        /\ \A t, n : HasName(t, n) => HasName(t, n)'
    BY <1>1, <2>1 DEF Issued, Revoked, HasName
  <2>6. Grow
    BY <1>1, <2>5 DEF Grow
  <2>7. ~Seen(w)
    BY <1>1, <1>2, <2>3, AdminAssumption DEF Seen
  <2>8. Seen(w)'
    BY <1>2, <2>2, <2>3 DEF Seen, SeederMoved
  <2>9. \A v, u \in workflows' : v.tenant = u.tenant /\ v.name = u.name => v = u
    <3>1. \A v \in workflows : ~(v.tenant = w.tenant /\ v.name = w.name)
      BY <1>5, <2>0 DEF HasName
    <3> QED BY <2>1, <3>1 DEF IInv, WorkflowsGood
  <2>10. KeysGood'
    BY <1>1, <2>2, <2>5 DEF IInv, KeysGood, Announced, SeederMoved
  <2>11. \A i \in 1..Len(Demos) : i < demo \/ pc = "done" => Kept(Admin, Demos[i])'
    <3> SUFFICES ASSUME NEW i \in 1..Len(Demos), i < demo \/ pc = "done"
                 PROVE  Kept(Admin, Demos[i])'
      OBVIOUS
    <3>1. i < seed[s].demo \/ i = seed[s].demo
      BY <1>2, <2>2
    <3>2. CASE i < seed[s].demo
      BY <3>2, <1>1, <1>3, <2>5 DEF Kept, Removed
    <3>3. CASE i = seed[s].demo
      BY <3>3, <2>0, <2>1, <2>3 DEF Kept, HasName
    <3> QED BY <3>1, <3>2, <3>3
  <2>12. SeederGood(s)'
    <3>1. Keyed(s)'
      BY <1>1, <1>3, <2>2, <2>5 DEF Keyed, SeederMoved
    <3> QED BY <1>1, <1>2, <1>3, <2>2, <2>5, <2>11, <3>1 DEF SeederGood, SeederMoved
  <2> QED BY <1>1, <1>2, <2>1, <2>2, <2>3, <2>4, <2>5, <2>6, <2>7, <2>8, <2>9, <2>10, <2>12,
             SeederWrites
<1> QED BY <1>4, <1>5

LEMMA SeederDiesStep ==
  ASSUME IInv, NEW s \in Seeders, SeederDies(s)
  PROVE  IInv'
<1>1. /\ seed[s].pc \notin {"new", "done", "failed", "dead"} /\ Fault
      /\ UNCHANGED <<auth, tables, known, req>>
  BY DEF SeederDies
<1>2. TypeOK /\ SeederGood(s) /\ Len(Demos) \in Nat /\ seed[s].demo \in 1..Len(Demos)
  BY AdminAssumption DEF IInv, TypeOK
<1>3. SeederMoved(s, "dead", seed[s].demo)
  BY <1>2, ThenEffect DEF SeederDies
<1>4. faults' \in 0..MaxFaults /\ faults' = faults + 1 /\ faults' > 0
  BY <1>1, <1>2, AdminAssumption DEF TypeOK, Fault
<1>5. \A i \in 1..Len(Demos) : i < seed[s].demo => Kept(Admin, Demos[i])
  BY <1>1, <1>2 DEF SeederGood
<1> QED BY <1>1, <1>2, <1>3, <1>4, <1>5, SeederLooks

-----------------------------------------------------------------------------
(* The invariant *)

LEMMA ProvisionKeyStep ==
  ASSUME IInv, NEW t \in Tenants, ProvisionKey(t)
  PROVE  IInv'
<1>1. /\ keys[t].state = "none" /\ known' = known \union {t}
      /\ keys' = [keys EXCEPT ![t] = [tenant |-> t, state |-> "live"]]
      /\ UNCHANGED <<auth, tenants, workflows, jobs, changes, service, req, seed, faults>>
  BY DEF ProvisionKey
<1>2. TypeOK /\ t \in Keys /\ t \notin Issued /\ t \notin Creators
  BY <1>1, AdminAssumption DEF IInv, Keys, Issued
<1>3. /\ keys' \in [Keys -> KeyRec]
      /\ \A x : x \in Issued' <=> x \in Issued \/ x = t
      /\ \A x : x \in Revoked' <=> x \in Revoked
      /\ keys'[t] = [tenant |-> t, state |-> "live"]
      /\ \A x \in Keys \ {t} : keys'[x] = keys[x]
  BY <1>1, <1>2, KeyAdded
<1>4. TypeOK'
  BY <1>1, <1>2, <1>3 DEF TypeOK, KeyRec
<1>5. Grow
  BY <1>1, <1>2, <1>3 DEF Grow, Issued
<1>6. Last
  BY <1>1 DEF Last, Seen, Kept, HasName, Removed
<1>7. KeysGood'
  BY <1>1, <1>3 DEF IInv, KeysGood, Announced
<1>8. WorkflowsGood' /\ JobsKeepTheirWorkflow'
  BY <1>1 DEF IInv, WorkflowsGood, JobsKeepTheirWorkflow, Seen
<1>9. \A x \in Requests : RequestGood(x)'
  <2>1. \A x \in Requests : Wrote(x)' => Wrote(x)
    BY <1>1, <1>2, <1>3 DEF Wrote, Creators
  <2> QED BY <1>1, <1>5, <1>6, <2>1, RequestStays
<1>10. \A x \in Seeders : SeederGood(x)'
  <2>1. \A x \in Seeders : x \in Issued' => x \in Issued
    BY <1>2, <1>3 DEF Creators
  <2> QED BY <1>1, <1>5, <1>6, <2>1, SeederStays
<1> QED BY <1>4, <1>7, <1>8, <1>9, <1>10 DEF IInv

LEMMA InvariantInit == Init => IInv
<1> SUFFICES ASSUME Init
             PROVE  IInv
  OBVIOUS
<1>1. TypeOK
  BY AdminAssumption DEF Init, TypeOK, Args
<1>2. Issued = {} /\ workflows = {} /\ jobs = {} /\ changes = {} /\ known = {} /\ Revoked = {}
  BY DEF Init, Issued, Revoked
<1>3. KeysGood /\ WorkflowsGood /\ JobsKeepTheirWorkflow
  BY <1>2 DEF KeysGood, WorkflowsGood, JobsKeepTheirWorkflow
<1>4. \A r \in Requests : RequestGood(r)
  BY <1>2, AdminAssumption
  DEF Init, RequestGood, Asked, Checked, Silent, Held, Wrote, Ops, JobOps, Replies
<1>5. \A s \in Seeders : SeederGood(s)
  BY <1>2 DEF Init, SeederGood
<1> QED BY <1>1, <1>3, <1>4, <1>5 DEF IInv

LEMMA InvariantStep == IInv /\ [Next]_vars => IInv'
<1> SUFFICES ASSUME IInv, [Next]_vars
             PROVE  IInv'
  OBVIOUS
<1>1. ASSUME NEW r \in Requests, Handle(r)
      PROVE  IInv'
  BY <1>1, AdmitStep, UnauthorizedStep, LookUpSteps, CreateTenantStep, IssueKeyStep,
     RevokeKeyStep, CreateWorkflowStep, RemoveWorkflowStep, CreateJobStep, SetServiceStep,
     JobSteps, AnswerStep, FailsStep DEF Handle
<1>2. ASSUME NEW s \in Seeders, Seed(s)
      PROVE  IInv'
  BY <1>2, SeedTenantStep, FindKeyStep, CreateKeyStep, PrintKeyStep, SeedServicesStep,
     FindDemoStep, CreateDemoStep, SeederDiesStep DEF Seed
<1>3. ASSUME NEW t \in Tenants, ProvisionKey(t)
      PROVE  IInv'
  BY <1>3, ProvisionKeyStep
<1>4. CASE UNCHANGED vars
  BY <1>4 DEF vars, tables, IInv, TypeOK, KeysGood, Announced, WorkflowsGood, Seen,
     JobsKeepTheirWorkflow, RequestGood, Asked, Checked, Silent, Held, Holds, JobOps, HasName, Removed,
     Wrote, NewJob, Mine, SeederGood, Keyed, Kept, Issued, Revoked
<1> QED BY <1>1, <1>2, <1>3, <1>4 DEF Next

LEMMA Invariant == Spec => []IInv
BY InvariantInit, InvariantStep, PTL DEF Spec

\* The tables, the requests and the seeders hold what their types say.
THEOREM TypeCorrect == Spec => []TypeOK
<1>1. IInv => TypeOK
  BY DEF IInv
<1> QED BY <1>1, Invariant, PTL

\* However look-ups, creates and removals interleave, a job's workflow is there,
\* is of its tenant and has steps (workflow service, job service 37-44).
THEOREM JobsAreKept == Spec => []JobsKeepTheirWorkflow
<1>1. IInv => JobsKeepTheirWorkflow
  BY DEF IInv
<1> QED BY <1>1, Invariant, PTL

\* A status tells what became of the request: nothing written when it was
\* refused, the rows it asked for when it succeeded (filter 36-90).
THEOREM AnswersHold == Spec => []AnswersAreTrue
<1>1. IInv => AnswersAreTrue
  <2> SUFFICES ASSUME IInv, NEW r \in Requests
               PROVE  /\ req[r].reply \in {401, 403, 404, 409} \/ (req[r].reply = 400 /\ faults = 0)
                           => ~Wrote(r)
                      /\ req[r].reply = 200 => Holds(r)
    BY DEF AnswersAreTrue
  <2>1. Silent(r) /\ Held(r)
    BY DEF IInv, RequestGood
  <2>2. req[r].reply = 200 => Holds(r)
    BY <2>1 DEF Held, Holds, JobOps
  <2> QED BY <2>1, <2>2 DEF Silent
<1> QED BY <1>1, Invariant, PTL

\* Any number of seeders may run at once or again, over any number of demo
\* workflows: one that is done has left each once, and a key (seed.ts).
THEOREM SeedersWork == Spec => []SeedingWorks
<1>1. IInv => SeedingWorks
  <2> SUFFICES ASSUME IInv, NEW s \in Seeders, seed[s].pc = "done"
               PROVE  /\ Admin \in tenants /\ service # None
                      /\ \A i \in 1..Len(Demos) :
                           \/ Cardinality({w \in workflows :
                                w.tenant = Admin /\ w.name = Demos[i]}) = 1
                           \/ Removed(Admin, Demos[i])
                      /\ Quiet /\ faults = 0 => LetsOneIn(s)
    BY DEF SeedingWorks
  <2>1. SeederGood(s) /\ KeysGood /\ WorkflowsGood
    BY DEF IInv
  <2>2. ASSUME NEW i \in 1..Len(Demos), ~Removed(Admin, Demos[i])
        PROVE  Cardinality({w \in workflows : w.tenant = Admin /\ w.name = Demos[i]}) = 1
    <3>1. PICK w \in workflows : w.tenant = Admin /\ w.name = Demos[i]
      BY <2>1, <2>2 DEF SeederGood, Kept, HasName
    <3>2. {v \in workflows : v.tenant = Admin /\ v.name = Demos[i]} = {w}
      BY <2>1, <3>1 DEF WorkflowsGood
    <3> QED BY <3>2, FS_Singleton
  <2>3. ASSUME Quiet, faults = 0
        PROVE  LetsOneIn(s)
    <3>1. PICK k \in Issued : keys[k].tenant = Admin /\ k \notin seed[s].before
      BY <2>1 DEF SeederGood, Keyed
    <3>2. k \in known
      BY <2>1, <2>3 DEF KeysGood, Announced, Quiet
    <3> QED BY <3>1, <3>2 DEF LetsOneIn
  <2> QED BY <2>1, <2>2, <2>3 DEF SeederGood
<1> QED BY <1>1, Invariant, PTL

-----------------------------------------------------------------------------
(* Isolation of tenants *)

\* Rows of others do not count.
LEMMA RowsStay ==
  ASSUME NEW t,
         \A k \in Keys : \/ keys'[k] = keys[k]
                         \/ /\ keys'[k].tenant # t
                            /\ k \notin Issued \/ keys[k].tenant # t,
         \A w : w.tenant = t => (w \in workflows' <=> w \in workflows),
         \A j : j.tenant = t => (j \in jobs' <=> j \in jobs),
         \A c : c.job.tenant = t => (c \in changes' <=> c \in changes)
  PROVE  RowsOf(t)' = RowsOf(t)
<1>1. {k \in Issued : keys[k].tenant = t}' = {k \in Issued : keys[k].tenant = t}
  BY DEF Issued
<1>2. Live(t)' = Live(t)
  BY DEF Live, Issued
<1>3. {w \in workflows : w.tenant = t}' = {w \in workflows : w.tenant = t}
  OBVIOUS
<1>4. {j \in jobs : j.tenant = t}' = {j \in jobs : j.tenant = t}
  OBVIOUS
<1>5. {c \in changes : c.job.tenant = t}' = {c \in changes : c.job.tenant = t}
  OBVIOUS
<1> QED BY <1>1, <1>2, <1>3, <1>4, <1>5 DEF RowsOf

LEMMA HandleIsolated ==
  ASSUME IInv, NEW r \in Requests, Handle(r), NEW t \in Tenants, t # Mine(r)
  PROVE  RowsOf(t)' = RowsOf(t)
<1>1. TypeOK /\ RequestGood(r)
  BY DEF IInv
<1>2. CASE UNCHANGED tables
  BY <1>2, RowsStay DEF tables
<1>3. CASE CreateTenant(r) \/ SetService(r)
  BY <1>3, RowsStay DEF CreateTenant, SetService
<1>4. CASE IssueKey(r)
  <2>1. r \in Keys /\ Mine(r) \in Tenants /\ r \notin Issued
    BY <1>1, <1>4 DEF IssueKey, At, Keys, Creators, RequestGood, Asked, Silent, Wrote, Mine, Ops
  <2>2. /\ keys'[r] = [tenant |-> Mine(r), state |-> "live"]
        /\ \A x \in Keys \ {r} : keys'[x] = keys[x]
    BY <1>1, <1>4, <2>1, KeyAdded DEF IssueKey
  <2> QED BY <1>4, <2>1, <2>2, RowsStay DEF IssueKey
<1>5. CASE RevokeKey(r) /\ req[r].arg \in Live(Mine(r))
  <2>1. req[r].arg \in Issued /\ keys[req[r].arg].tenant = Mine(r)
    BY <1>5 DEF Live, Issued
  <2>2. /\ \A x \in Keys : keys'[x].tenant = keys[x].tenant
        /\ \A x \in Keys \ {req[r].arg} : keys'[x] = keys[x]
    BY <1>1, <1>5, <2>1, KeyRevoked DEF RevokeKey
  <2> QED BY <1>5, <2>1, <2>2, RowsStay DEF RevokeKey, Issued
<1>6. CASE CreateWorkflow(r)
  <2>1. \A w : w.tenant = t => (w \in workflows' <=> w \in workflows)
    BY <1>6 DEF CreateWorkflow
  <2> QED BY <1>6, <2>1, RowsStay DEF CreateWorkflow
<1>7. CASE RemoveWorkflow(r)
  BY <1>7, RowsStay DEF RemoveWorkflow
<1>8. CASE CreateJob(r)
  <2>1. \A j : j.tenant = t => (j \in jobs' <=> j \in jobs)
    BY <1>8 DEF CreateJob, NewJob
  <2> QED BY <1>8, <2>1, RowsStay DEF CreateJob
<1>9. RevokeKey(r) /\ req[r].arg \notin Live(Mine(r)) => UNCHANGED tables
  BY DEF RevokeKey, tables
<1>10. CASE ChangeJob(r) \/ ResolveIncident(r)
  <2>1. CASE Change(r)
    <3>1. req[r].row.tenant = Mine(r)
      <4>1. CASE ChangeJob(r)
        BY <1>1, <4>1 DEF ChangeJob, At, RequestGood, Checked
      <4>2. CASE ResolveIncident(r) /\ ~(Throw(r, "Error") /\ UNCHANGED changes)
        BY <4>2 DEF ResolveIncident
      <4>3. CASE Throw(r, "Error") /\ UNCHANGED changes
        <5>1. [by |-> r, job |-> req[r].row] \in changes
          BY <2>1, <4>3 DEF Change
        <5>2. ~Wrote(r)
          BY <1>1, <1>10 DEF ChangeJob, ResolveIncident, At, RequestGood, Silent
        <5> QED BY <5>1, <5>2 DEF Wrote
      <4> QED BY <1>10, <4>1, <4>2, <4>3
    <3>2. \A c : c.job.tenant = t => (c \in changes' <=> c \in changes)
      BY <2>1, <3>1 DEF Change
    <3> QED BY <1>10, <3>2, RowsStay DEF ChangeJob, ResolveIncident
  <2>2. CASE UNCHANGED changes
    BY <1>10, <2>2, RowsStay DEF ChangeJob, ResolveIncident
  <2> QED BY <1>10, <2>1, <2>2 DEF ChangeJob, ResolveIncident
<1> QED BY <1>2, <1>3, <1>4, <1>5, <1>6, <1>7, <1>8, <1>9, <1>10
  DEF Handle, Admit, Unauthorized, AssertAdmin, FindTenant, FindWorkflow, FindJob, Answer, Fails

\* Every step of a request changes it, so that it is the request that acts.
LEMMA HandleActs ==
  ASSUME IInv, NEW r \in Requests, Handle(r)
  PROVE  req'[r] # req[r] \/ UNCHANGED tables
<1>1. TypeOK
  BY DEF IInv
<1>2. ASSUME Goto(r, "written"), req[r].pc \in {"admitted", "checked"}
      PROVE  req'[r] # req[r]
  BY <1>1, <1>2, GotoEffect DEF Moved
<1>3. ASSUME NEW what \in {"P2002", "P2003", "NotFoundException", "Error"}, Throw(r, what),
             req[r].pc \in {"admitted", "checked"}
      PROVE  req'[r] # req[r]
  BY <1>1, <1>3, ThrowEffect DEF Moved
<1>4. CASE CreateTenant(r) \/ IssueKey(r) \/ CreateJob(r)
  BY <1>2, <1>3, <1>4 DEF CreateTenant, IssueKey, CreateJob, At
<1>5. CASE RevokeKey(r) \/ RemoveWorkflow(r) \/ SetService(r)
  BY <1>2, <1>3, <1>5 DEF RevokeKey, RemoveWorkflow, SetService, At
<1>6. CASE CreateWorkflow(r)
  BY <1>2, <1>3, <1>6 DEF CreateWorkflow, At
<1>7. CASE ChangeJob(r) \/ ResolveIncident(r)
  BY <1>2, <1>3, <1>7 DEF ChangeJob, ResolveIncident, At
<1> QED BY <1>4, <1>5, <1>6, <1>7
  DEF Handle, Admit, Unauthorized, AssertAdmin, FindTenant, FindWorkflow, FindJob, Answer, Fails

LEMMA SeedIsolated ==
  ASSUME IInv, NEW s \in Seeders, Seed(s), NEW t \in Tenants, t # Admin
  PROVE  RowsOf(t)' = RowsOf(t)
<1>1. TypeOK /\ SeederGood(s)
  BY DEF IInv
<1>2. CASE UNCHANGED tables
  BY <1>2, RowsStay DEF tables
<1>3. CASE SeedTenant(s) \/ SeedServices(s)
  BY <1>3, RowsStay DEF SeedTenant, SeedServices
<1>4. CASE CreateKey(s)
  <2>1. s \in Keys /\ s \notin Issued /\ Admin \in Tenants
    BY <1>1, <1>4, AdminAssumption DEF CreateKey, SeederAt, SeederGood, Keys, Creators
  <2>2. /\ keys'[s] = [tenant |-> Admin, state |-> "live"]
        /\ \A x \in Keys \ {s} : keys'[x] = keys[x]
    BY <1>1, <1>4, <2>1, KeyAdded DEF CreateKey
  <2> QED BY <1>4, <2>1, <2>2, RowsStay DEF CreateKey
<1>5. CASE CreateDemo(s)
  <2>1. \A w : w.tenant = t => (w \in workflows' <=> w \in workflows)
    BY <1>5 DEF CreateDemo
  <2> QED BY <1>5, <2>1, RowsStay DEF CreateDemo
<1> QED BY <1>2, <1>3, <1>4, <1>5 DEF Seed, FindKey, PrintKey, FindDemo, SeederDies

\* Every step of a seeder moves it.
LEMMA SeedActs ==
  ASSUME IInv, NEW s \in Seeders, Seed(s)
  PROVE  seed'[s] # seed[s]
<1>1. TypeOK /\ Len(Demos) \in Nat /\ seed[s].demo \in 1..Len(Demos)
  BY AdminAssumption DEF IInv, TypeOK
<1>2. CASE SeedTenant(s)
  BY <1>1, <1>2 DEF SeedTenant, SeederAt, TypeOK
<1>3. ASSUME NEW pc \in {"createKey", "print", "services", "find", "create", "done", "failed", "dead"},
             Then(s, pc), seed[s].pc # pc
      PROVE  seed'[s] # seed[s]
  BY <1>1, <1>3, ThenEffect DEF SeederMoved
<1>4. CASE FindKey(s) \/ CreateKey(s) \/ PrintKey(s) \/ SeedServices(s)
  BY <1>3, <1>4 DEF FindKey, CreateKey, PrintKey, SeedServices, SeederAt
<1>5. ASSUME NextDemo(s), seed[s].pc \in {"find", "create"}
      PROVE  seed'[s] # seed[s]
  BY <1>1, <1>5, NextDemoEffect DEF SeederMoved
<1>6. CASE FindDemo(s) \/ CreateDemo(s)
  BY <1>3, <1>5, <1>6 DEF FindDemo, CreateDemo, SeederAt
<1>7. CASE SeederDies(s)
  BY <1>3, <1>7 DEF SeederDies
<1> QED BY <1>2, <1>4, <1>6, <1>7 DEF Seed

\* Rows of a tenant change only by those who act for it (guard 69-75, services).
THEOREM TenantsIsolated == Spec => TenantsAreIsolated
<1> DEFINE Isolated == /\ \A t \in Tenants : RowsOf(t)' # RowsOf(t) => ActsFor(t)
                       /\ tenants' # tenants => ActsFor(Admin)
<1>1. ASSUME IInv, NEW r \in Requests, Handle(r)
      PROVE  Isolated
  <2>1. req'[r] # req[r] \/ UNCHANGED tables
    BY <1>1, HandleActs
  <2>2. \A t \in Tenants : RowsOf(t)' # RowsOf(t) => ActsFor(t)
    <3> SUFFICES ASSUME NEW t \in Tenants, RowsOf(t)' # RowsOf(t)
                 PROVE  ActsFor(t)
      OBVIOUS
    <3>1. t = Mine(r)
      BY <1>1, HandleIsolated
    <3>2. ~UNCHANGED tables
      BY RowsStay DEF tables
    <3> QED BY <2>1, <3>1, <3>2 DEF ActsFor, Mine
  <2>3. tenants' # tenants => CreateTenant(r)
    BY <1>1 DEF Handle, Admit, Unauthorized, AssertAdmin, FindTenant, FindWorkflow, FindJob,
       ChangeJob, ResolveIncident, Answer, Fails, IssueKey, RevokeKey, CreateWorkflow, RemoveWorkflow, CreateJob, SetService, tables
  <2>4. CreateTenant(r) => Mine(r) = Admin
    BY <1>1 DEF IInv, RequestGood, Checked, CreateTenant, At
  <2> QED BY <2>1, <2>2, <2>3, <2>4 DEF ActsFor, Mine, tables
<1>2. ASSUME IInv, NEW s \in Seeders, Seed(s)
      PROVE  Isolated
  BY <1>2, SeedIsolated, SeedActs DEF ActsFor
<1>3. ASSUME IInv, NEW u \in Tenants, ProvisionKey(u)
      PROVE  Isolated
  <2>1. TypeOK /\ u \in Keys /\ u \notin Issued /\ tenants' = tenants
    BY <1>3 DEF IInv, ProvisionKey, Keys, Issued
  <2>2. u \in known' \ known
    BY <1>3, <2>1 DEF IInv, KeysGood, ProvisionKey
  <2>3. /\ keys'[u] = [tenant |-> u, state |-> "live"]
        /\ \A x \in Keys \ {u} : keys'[x] = keys[x]
    BY <1>3, <2>1, KeyAdded DEF ProvisionKey
  <2>4. \A t \in Tenants : t # u => RowsOf(t)' = RowsOf(t)
    BY <1>3, <2>1, <2>3, RowsStay DEF ProvisionKey
  <2> QED BY <2>1, <2>2, <2>4 DEF ActsFor
<1>4. IInv /\ [Next]_vars => [Isolated]_vars
  BY <1>1, <1>2, <1>3 DEF Next
<1> QED BY <1>4, Invariant, PTL DEF Spec, TenantsAreIsolated
=============================================================================
