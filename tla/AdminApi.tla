------------------------------ MODULE AdminApi ------------------------------
(***************************************************************************)
(* The rows that requests share and the engine takes for granted: tenants, *)
(* API keys, workflow definitions, the jobs that refer to them, a service  *)
(* status.  Of a job's own rows -- its status, its dead-letter entry, its  *)
(* incidents -- it is kept here only which requests have written to them,  *)
(* for the sake of the tenants; WorkflowEngine and StepRecovery have the   *)
(* writes.  Requests pass ApiKeyGuard, are handled call by call, and what  *)
(* a handler throws becomes a status in AllExceptionsFilter; seed.ts may   *)
(* run beside them, also more than once at a time.                         *)
(*                                                                         *)
(* Keys and jobs are named for the request or the seeder that creates      *)
(* them; a workflow row is its own id, because no operation changes one.   *)
(***************************************************************************)
EXTENDS Naturals, FiniteSets, Sequences

CONSTANTS
  Tenants,    \* slugs a tenant may have
  Admin,      \* DEFAULT_TENANT_SLUG
  Names,      \* names of workflows
  Demos,      \* the names of the seeder's workflows, in order
  Requests,   \* bound: requests ever sent
  Seeders,    \* bound: runs of the seeder
  MaxFaults,  \* bound: rejected calls, deaths of the API or of a seeder
  None        \* no value

Creators == Requests \union Seeders
Keys     == Creators \union Tenants
Rows     == [by : Creators, tenant : Tenants, name : Names, steps : BOOLEAN]
Statuses == {"HEALTHY", "DEGRADED", "DOWN"}
Replies  == {200, 400, 401, 403, 404, 409, 500}
Ops      == {"createTenant", "issueKey", "revokeKey", "createWorkflow",
             "removeWorkflow", "createJob", "setService",
             "cancelJob", "retryJob", "resolveIncident"}
JobOps   == {"cancelJob", "retryJob", "resolveIncident"}
JobRows  == [by : Requests, tenant : Tenants, workflow : Rows]
Args     == Keys \union Names \union {None}

ASSUME AdminAssumption ==
  /\ Admin \in Tenants /\ MaxFaults \in Nat
  /\ Demos \in Seq(Names) /\ Demos # <<>>
  /\ \A i, j \in 1..Len(Demos) : Demos[i] = Demos[j] => i = j
  /\ Requests \intersect Seeders = {} /\ Creators \intersect Tenants = {}
  /\ None \notin Keys \union Names /\ None \notin Statuses \union Ops /\ None \notin Replies

VARIABLES
  auth,       \* AUTH_ENABLED
  tenants, keys, workflows, jobs, service,  \* the tables
  changes,    \* requests that have written to the rows of a job
  known,      \* keys whose raw token somebody has seen
  req,        \* the requests
  seed,       \* the seeders
  faults

tables == <<tenants, keys, workflows, jobs, changes, service>>
vars   == <<auth, tables, known, req, seed, faults>>

TypeOK ==
  /\ auth \in BOOLEAN
  /\ tenants \subseteq Tenants
  /\ keys \in [Keys -> [tenant : Tenants \union {None}, state : {"none", "live", "revoked"}]]
  /\ workflows \subseteq Rows
  /\ jobs \subseteq JobRows
  /\ changes \subseteq [by : Requests, job : JobRows]
  /\ service \in Statuses \union {None}
  /\ known \subseteq Keys
  /\ req \in [Requests -> [pc : {"new", "admitted", "checked", "written", "done"},
                           op : Ops \union {None}, tenant : Tenants \union {None},
                           arg : Args, row : Rows \union JobRows \union {None},
                           reply : Replies \union {None}]]
  /\ seed \in [Seeders -> [pc : {"new", "findKey", "createKey", "print", "services",
                                 "find", "create", "done", "failed", "dead"},
                           demo : 1..Len(Demos), before : SUBSET Keys]]
  /\ faults \in 0..MaxFaults

\* The admin's tenant comes from the seeder; others may be there from before.
Init ==
  /\ auth \in BOOLEAN
  /\ tenants \in SUBSET (Tenants \ {Admin})
  /\ keys = [k \in Keys |-> [tenant |-> None, state |-> "none"]]
  /\ workflows = {} /\ jobs = {} /\ changes = {} /\ service = None /\ known = {}
  /\ req = [r \in Requests |-> [pc |-> "new", op |-> None, tenant |-> None,
                                arg |-> None, row |-> None, reply |-> None]]
  /\ seed = [s \in Seeders |-> [pc |-> "new", demo |-> 1, before |-> {}]]
  /\ faults = 0

Live(t)    == {k \in Keys : keys[k].tenant = t /\ keys[k].state = "live"}
Revoked    == {k \in Keys : keys[k].state = "revoked"}
Issued     == {k \in Keys : keys[k].state # "none"}
HasName(t, name) == \E w \in workflows : w.tenant = t /\ w.name = name
HasJob(w)  == \E j \in jobs : j.workflow = w

Fault ==
  /\ faults < MaxFaults
  /\ faults' = faults + 1

-----------------------------------------------------------------------------
(* A request *)

At(r, pc, op) == req[r].pc = pc /\ req[r].op = op
Mine(r)       == req[r].tenant
Goto(r, pc)   == req' = [req EXCEPT ![r].pc = pc]
Reply(r, status) == req' = [req EXCEPT ![r].pc = "done", ![r].reply = status]

\* normalize: what is thrown, as a status
Normalize(thrown) ==
  CASE thrown = "ForbiddenException" -> 403
    [] thrown = "NotFoundException"  -> 404
    [] thrown = "ConflictException"  -> 409
    [] thrown = "P2002" -> 409   \* unique index
    [] thrown = "P2003" -> 400   \* foreign key
    [] thrown = "Error" -> 500

Throw(r, what) == Reply(r, Normalize(what))

\* What a client may ask for.
ArgsOf(op) ==
  CASE op = "createTenant" -> Tenants
    [] op = "revokeKey" -> Issued
    [] op = "createWorkflow" -> Names
    [] OTHER -> {None}
RowsFor(op) ==
  CASE op \in {"removeWorkflow", "createJob"} -> workflows
    [] op \in JobOps -> jobs    \* or a dead-letter entry or an incident of the job
    [] OTHER -> {None}

\* canActivate: whom the request is bound to.
Identified(t) ==
  IF auth THEN known \intersect Live(t) # {} ELSE t = Admin /\ Admin \in tenants

Admit(r) ==
  /\ req[r].pc = "new"
  /\ \E t \in Tenants, op \in Ops : \E arg \in ArgsOf(op), row \in RowsFor(op) :
       /\ Identified(t)
       /\ req' = [req EXCEPT ![r] = [pc |-> "admitted", op |-> op, tenant |-> t,
                                     arg |-> arg, row |-> row, reply |-> None]]
  /\ UNCHANGED <<auth, tables, known, seed, faults>>

\* No key, an unknown or a revoked one; or no seeder has run.
Unauthorized(r) ==
  /\ req[r].pc = "new"
  /\ auth \/ Admin \notin tenants
  /\ Reply(r, 401)
  /\ UNCHANGED <<auth, tables, known, seed, faults>>

AssertAdmin(r) ==
  /\ At(r, "admitted", "createTenant")
  /\ IF Mine(r) \in tenants /\ Mine(r) = Admin
     THEN Goto(r, "checked") ELSE Throw(r, "ForbiddenException")
  /\ UNCHANGED <<auth, tables, known, seed, faults>>

CreateTenant(r) ==
  /\ At(r, "checked", "createTenant")
  /\ IF req[r].arg \in tenants
     THEN Throw(r, "P2002") /\ UNCHANGED tenants
     ELSE Goto(r, "written") /\ tenants' = tenants \union {req[r].arg}
  /\ UNCHANGED <<auth, keys, workflows, jobs, changes, service, known, seed, faults>>

FindTenant(r) ==
  /\ At(r, "admitted", "issueKey")
  /\ IF Mine(r) \in tenants THEN Goto(r, "checked") ELSE Throw(r, "NotFoundException")
  /\ UNCHANGED <<auth, tables, known, seed, faults>>

IssueKey(r) ==
  /\ At(r, "checked", "issueKey")
  /\ keys' = [keys EXCEPT ![r] = [tenant |-> Mine(r), state |-> "live"]]
  /\ Goto(r, "written")
  /\ UNCHANGED <<auth, tenants, workflows, jobs, changes, service, known, seed, faults>>

RevokeKey(r) ==
  /\ At(r, "admitted", "revokeKey")
  /\ IF req[r].arg \in Live(Mine(r))
     THEN Goto(r, "written") /\ keys' = [keys EXCEPT ![req[r].arg].state = "revoked"]
     ELSE Throw(r, "NotFoundException") /\ UNCHANGED keys
  /\ UNCHANGED <<auth, tenants, workflows, jobs, changes, service, known, seed, faults>>

\* One nested create.  The DTO allows no steps, and equal orders, which the
\* schema refuses.
CreateWorkflow(r) ==
  /\ At(r, "admitted", "createWorkflow")
  /\ \E steps, distinct \in BOOLEAN :
       IF HasName(Mine(r), req[r].arg) \/ ~distinct
       THEN Throw(r, "P2002") /\ UNCHANGED workflows
       ELSE /\ Goto(r, "written")
            /\ workflows' = workflows \union
                 {[by |-> r, tenant |-> Mine(r), name |-> req[r].arg, steps |-> steps]}
  /\ UNCHANGED <<auth, tenants, keys, jobs, changes, service, known, seed, faults>>

\* Mutant of RemoveWorkflow: no foreign key holds it.
RemoveUnasked(r) ==
  /\ At(r, "admitted", "removeWorkflow")
  /\ IF req[r].row \in workflows /\ req[r].row.tenant = Mine(r)
     THEN Goto(r, "written") /\ workflows' = workflows \ {req[r].row}
     ELSE Throw(r, "NotFoundException") /\ UNCHANGED workflows
  /\ UNCHANGED <<auth, tenants, keys, jobs, changes, service, known, seed, faults>>

\* deleteMany; Job.workflow restricts.
RemoveWorkflow(r) ==
  /\ At(r, "admitted", "removeWorkflow")
  /\ LET w == req[r].row IN
     IF w \notin workflows \/ w.tenant # Mine(r)
     THEN Throw(r, "NotFoundException") /\ UNCHANGED workflows
     ELSE IF HasJob(w)
     THEN Throw(r, "P2003") /\ UNCHANGED workflows
     ELSE Goto(r, "written") /\ workflows' = workflows \ {w}
  /\ UNCHANGED <<auth, tenants, keys, jobs, changes, service, known, seed, faults>>

FindWorkflow(r) ==
  /\ At(r, "admitted", "createJob")
  /\ LET w == req[r].row IN
     IF w \notin workflows \/ w.tenant # Mine(r) THEN Throw(r, "NotFoundException")
     ELSE IF ~w.steps THEN Throw(r, "ConflictException")
     ELSE Goto(r, "checked")
  /\ UNCHANGED <<auth, tables, known, seed, faults>>

NewJob(r) == [by |-> r, tenant |-> Mine(r), workflow |-> req[r].row]

\* Mutant of CreateJob: the row comes first, its steps meet the foreign key.
CreateJobThenSteps(r) ==
  /\ At(r, "checked", "createJob")
  /\ jobs' = jobs \union {NewJob(r)}
  /\ IF req[r].row \in workflows THEN Goto(r, "written") ELSE Throw(r, "P2003")
  /\ UNCHANGED <<auth, tenants, keys, workflows, changes, service, known, seed, faults>>

\* createWithSteps is one nested create.
CreateJob(r) ==
  /\ At(r, "checked", "createJob")
  /\ IF req[r].row \in workflows
     THEN Goto(r, "written") /\ jobs' = jobs \union {NewJob(r)}
     ELSE Throw(r, "P2003") /\ UNCHANGED jobs
  /\ UNCHANGED <<auth, tenants, keys, workflows, changes, service, known, seed, faults>>

\* ServiceHealth is global: any tenant may set it.
SetService(r) ==
  /\ At(r, "admitted", "setService")
  /\ service' \in Statuses
  /\ Goto(r, "written")
  /\ UNCHANGED <<auth, tenants, keys, workflows, jobs, changes, known, seed, faults>>

\* The request looks for the job, or for its dead-letter entry, under its own
\* tenant.  A job may be over, an entry gone: the engine decides.
FindJob(r) ==
  /\ At(r, "admitted", "cancelJob") \/ At(r, "admitted", "retryJob")
  /\ IF req[r].row.tenant # Mine(r)
     THEN Throw(r, "NotFoundException")
     ELSE \/ Goto(r, "checked")
          \/ Throw(r, IF req[r].op = "cancelJob" THEN "ConflictException" ELSE "NotFoundException")
  /\ UNCHANGED <<auth, tables, known, seed, faults>>

Change(r) == changes' = changes \union {[by |-> r, job |-> req[r].row]}

\* cancel's updateStatus, where tenantId; retry's add, remove and updateMany, unless
\* somebody else has removed the entry meanwhile.
ChangeJob(r) ==
  /\ At(r, "checked", "cancelJob") \/ At(r, "checked", "retryJob")
  /\ \/ Change(r) /\ Goto(r, "written")
     \/ req[r].op = "retryJob" /\ Throw(r, "Error") /\ UNCHANGED changes
  /\ UNCHANGED <<auth, tenants, keys, workflows, jobs, service, known, seed, faults>>

\* Mutant of ResolveIncident: the incident of any job.
ResolveAny(r) ==
  /\ At(r, "admitted", "resolveIncident")
  /\ Change(r)
  /\ Goto(r, "written")
  /\ UNCHANGED <<auth, tenants, keys, workflows, jobs, service, known, seed, faults>>

\* One updateMany, where job.tenantId; what it does not find is a plain Error.
ResolveIncident(r) ==
  /\ At(r, "admitted", "resolveIncident")
  /\ \E found \in BOOLEAN :
       IF found /\ req[r].row.tenant = Mine(r)
       THEN Change(r) /\ Goto(r, "written")
       ELSE Throw(r, "Error") /\ UNCHANGED changes
  /\ UNCHANGED <<auth, tenants, keys, workflows, jobs, service, known, seed, faults>>

\* The answer to issueKey holds the raw token.
Answer(r) ==
  /\ req[r].pc = "written"
  /\ Reply(r, 200)
  /\ known' = IF req[r].op = "issueKey" THEN known \union {r} ELSE known
  /\ UNCHANGED <<auth, tables, seed, faults>>

\* A call rejects, the audit write of createJob among them, or the answer to a
\* write is lost, or the API dies and nobody answers.  Some of the rejections are
\* known to Prisma and become 400.
Fails(r) ==
  /\ req[r].pc \in {"admitted", "checked", "written"}
  /\ Fault
  /\ \E status \in {400, 500, None} : Reply(r, status)
  /\ UNCHANGED <<auth, tables, known, seed>>

-----------------------------------------------------------------------------
(* seed.ts *)

SeederAt(s, pc) == seed[s].pc = pc
Then(s, pc)     == seed' = [seed EXCEPT ![s].pc = pc]

SeedTenant(s) ==
  /\ SeederAt(s, "new")
  /\ tenants' = tenants \union {Admin}
  /\ seed' = [seed EXCEPT ![s] = [pc |-> "findKey", demo |-> 1, before |-> Revoked]]
  /\ UNCHANGED <<auth, keys, workflows, jobs, changes, service, known, req, faults>>

\* Mutant of FindKey: a revoked key will do.
FindAnyKey(s) ==
  /\ SeederAt(s, "findKey")
  /\ Then(s, IF \E k \in Issued : keys[k].tenant = Admin THEN "services" ELSE "createKey")
  /\ UNCHANGED <<auth, tables, known, req, faults>>

FindKey(s) ==
  /\ SeederAt(s, "findKey")
  /\ Then(s, IF Live(Admin) = {} THEN "createKey" ELSE "services")
  /\ UNCHANGED <<auth, tables, known, req, faults>>

CreateKey(s) ==
  /\ SeederAt(s, "createKey")
  /\ keys' = [keys EXCEPT ![s] = [tenant |-> Admin, state |-> "live"]]
  /\ Then(s, "print")
  /\ UNCHANGED <<auth, tenants, workflows, jobs, changes, service, known, req, faults>>

PrintKey(s) ==
  /\ SeederAt(s, "print")
  /\ known' = known \union {s}
  /\ Then(s, "services")
  /\ UNCHANGED <<auth, tables, req, faults>>

\* upsert, whose update is empty
SeedServices(s) ==
  /\ SeederAt(s, "services")
  /\ service' = IF service = None THEN "HEALTHY" ELSE service
  /\ Then(s, "find")
  /\ UNCHANGED <<auth, tenants, keys, workflows, jobs, changes, known, req, faults>>

Demo(s) == Demos[seed[s].demo]

\* Mutant of NextDemo: after the last one comes another.
NextDemoPast(s) ==
  IF seed[s].demo > Len(Demos)
  THEN Then(s, "done")
  ELSE seed' = [seed EXCEPT ![s].pc = "find", ![s].demo = @ + 1]

NextDemo(s) ==
  IF seed[s].demo = Len(Demos)
  THEN Then(s, "done")
  ELSE seed' = [seed EXCEPT ![s].pc = "find", ![s].demo = @ + 1]

FindDemo(s) ==
  /\ SeederAt(s, "find")
  /\ IF HasName(Admin, Demo(s)) THEN NextDemo(s) ELSE Then(s, "create")
  /\ UNCHANGED <<auth, tables, known, req, faults>>

\* Another seeder or a request was faster: the unique index throws, exit 1.
CreateDemo(s) ==
  /\ SeederAt(s, "create")
  /\ IF HasName(Admin, Demo(s))
     THEN Then(s, "failed") /\ UNCHANGED workflows
     ELSE /\ NextDemo(s)
          /\ workflows' = workflows \union
               {[by |-> s, tenant |-> Admin, name |-> Demo(s), steps |-> TRUE]}
  /\ UNCHANGED <<auth, tenants, keys, jobs, changes, service, known, req, faults>>

SeederDies(s) ==
  /\ seed[s].pc \notin {"new", "done", "failed", "dead"}
  /\ Fault
  /\ Then(s, "dead")
  /\ UNCHANGED <<auth, tables, known, req>>

\* No operation gives another tenant its first key: somebody inserts it.
ProvisionKey(t) ==
  /\ t \in tenants \ {Admin} /\ keys[t].state = "none"
  /\ keys' = [keys EXCEPT ![t] = [tenant |-> t, state |-> "live"]]
  /\ known' = known \union {t}
  /\ UNCHANGED <<auth, tenants, workflows, jobs, changes, service, req, seed, faults>>

Handle(r) ==
  \/ Admit(r) \/ Unauthorized(r)
  \/ AssertAdmin(r) \/ CreateTenant(r) \/ FindTenant(r) \/ IssueKey(r) \/ RevokeKey(r)
  \/ CreateWorkflow(r) \/ RemoveWorkflow(r) \/ FindWorkflow(r) \/ CreateJob(r)
  \/ SetService(r) \/ FindJob(r) \/ ChangeJob(r) \/ ResolveIncident(r)
  \/ Answer(r) \/ Fails(r)

Seed(s) ==
  \/ SeedTenant(s) \/ FindKey(s) \/ CreateKey(s) \/ PrintKey(s) \/ SeedServices(s)
  \/ FindDemo(s) \/ CreateDemo(s) \/ SeederDies(s)

Next ==
  \/ \E r \in Requests : Handle(r)
  \/ \E s \in Seeders : Seed(s)
  \/ \E t \in Tenants : ProvisionKey(t)

Spec == Init /\ [][Next]_vars

-----------------------------------------------------------------------------
(* What the tables promise *)

RowsOf(t) == <<{k \in Issued : keys[k].tenant = t}, Live(t),
               {w \in workflows : w.tenant = t}, {j \in jobs : j.tenant = t},
               {c \in changes : c.job.tenant = t}>>

\* The step is one of a request bound to t, or for the admin's tenant of a
\* seeder, or adds the key inserted by hand.
ActsFor(t) ==
  \/ \E r \in Requests : req[r].tenant = t /\ req'[r] # req[r]
  \/ t = Admin /\ \E s \in Seeders : seed'[s] # seed[s]
  \/ t \in known' \ known

\* Keys, workflows and jobs of a tenant, with their entries and incidents, change
\* only by requests that showed a key of it when they came in, whatever ids they
\* ask for, and a tenant appears only by the admin (guard 69-75, service 58-64,
\* workflows 58-61, jobs 94-99, dead-letter 40-47, incidents 25-28).
TenantsAreIsolated ==
  [][/\ \A t \in Tenants : RowsOf(t)' # RowsOf(t) => ActsFor(t)
     /\ tenants' # tenants => ActsFor(Admin)]_vars

\* A job has a workflow of its own tenant with steps, although the workflow may
\* be removed between the look-up and the create, or while a job refers to it.
JobsKeepTheirWorkflow ==
  \A j \in jobs : j.workflow \in workflows /\ j.workflow.steps /\ j.workflow.tenant = j.tenant

Wrote(r) ==
  \/ r \in Issued
  \/ \E w \in workflows : w.by = r
  \/ \E j \in jobs : j.by = r
  \/ \E c \in changes : c.by = r

Removed(tenant, name) ==
  \E r \in Requests : /\ req[r].op = "removeWorkflow" /\ req[r].pc \in {"written", "done"}
                      /\ req[r].row.name = name /\ req[r].row.tenant = tenant

Holds(r) ==
  CASE req[r].op = "createTenant" -> req[r].arg \in tenants
    [] req[r].op = "issueKey" -> keys[r].tenant = Mine(r) /\ r \in known
    [] req[r].op = "revokeKey" -> req[r].arg \in Revoked
    [] req[r].op = "createWorkflow" -> HasName(Mine(r), req[r].arg) \/ Removed(Mine(r), req[r].arg)
    [] req[r].op = "removeWorkflow" -> req[r].row \notin workflows
    [] req[r].op = "createJob" -> NewJob(r) \in jobs
    [] req[r].op \in JobOps -> [by |-> r, job |-> req[r].row] \in changes
    [] OTHER -> TRUE

\* What the filter calls unauthorized, forbidden, not found or a conflict has
\* written nothing, nor has a bad request if all calls were answered; what is
\* answered with success stays so, but for a workflow removed on request.
AnswersAreTrue ==
  \A r \in Requests :
    /\ req[r].reply \in {401, 403, 404, 409} \/ (req[r].reply = 400 /\ faults = 0) => ~Wrote(r)
    /\ req[r].reply = 200 => Holds(r)

Quiet == /\ \A s \in Seeders : seed[s].pc \in {"new", "done", "failed", "dead"}
         /\ \A r \in Requests : req[r].pc \in {"new", "done"}

\* Somebody holds a key that was not yet revoked when the seeder began.
LetsOneIn(s) == \E k \in known : keys[k].tenant = Admin /\ k \notin seed[s].before

\* Seeders that run at once, or again after all keys were revoked, leave the
\* admin with a key somebody has seen, unless one died (22-43); and one that is
\* done leaves the tenant, the services, and each of its workflows once unless
\* it was removed on request (46-58).
SeedingWorks ==
  \A s \in Seeders : seed[s].pc = "done" =>
    /\ Admin \in tenants /\ service # None
    /\ \A i \in 1..Len(Demos) : LET name == Demos[i] IN
         \/ Cardinality({w \in workflows : w.tenant = Admin /\ w.name = name}) = 1
         \/ Removed(Admin, name)
    /\ Quiet /\ faults = 0 => LetsOneIn(s)

\* "Idempotent: safe to re-run. The bootstrap API key is printed only on first
\* creation -- store it immediately or revoke and re-issue from the API" (7-8): a
\* run that ends well after another one died leaves a key for the API.
RerunLetsOneIn ==
  \A s \in Seeders : seed[s].pc = "done" /\ Quiet => LetsOneIn(s)
=============================================================================
