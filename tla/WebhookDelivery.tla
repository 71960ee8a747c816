-------------------------- MODULE WebhookDelivery --------------------------
(***************************************************************************)
(* The webhooks of one job: WebhookService.dispatch, which the worker calls *)
(* at the end of every delivery of a job with a callbackUrl, its row, its  *)
(* audit entries and what reached the receiver, while the tenant's API     *)
(* keys, whose hashes sign the posts, are issued and revoked.              *)
(***************************************************************************)
EXTENDS Naturals, Sequences, FiniteSets

CONSTANTS
  Dispatches,     \* calls of dispatch: the job may be delivered more than once
  MaxAttempts,    \* WEBHOOK_MAX_ATTEMPTS
  MaxKeys,        \* bound: keys issued
  MaxRejections,  \* bound: database calls that reject
  MaxCrashes      \* bound: crashes of the worker

ASSUME WebhookAssumption ==
  /\ MaxAttempts \in Nat \ {0}
  /\ MaxKeys \in Nat /\ MaxRejections \in Nat /\ MaxCrashes \in Nat

VARIABLES
  run,      \* locals of each dispatch
  row,      \* WebhookDelivery row of each dispatch
  posts,    \* what became of its posts, in their order
  audit,    \* its AuditLog actions
  issued,   \* keys 1..issued exist, the last one is the newest
  revoked,
  before,   \* history: the keys issued and revoked when a dispatch began
  rejections, crashes

vars == <<run, row, posts, audit, issued, revoked, before, rejections, crashes>>

Keys     == 1..MaxKeys
TenantId == 0             \* what signs when no key is active
PostResults == {"ok", "refused", "unanswered", "unreached"}
RunPcs == {"idle", "resolve", "insert", "post", "update", "exhausted", "logDelivered", "logFailed",
           "done", "aborted"}
Ended == {"done", "aborted"}

Locals == [pc : RunPcs, attempt : 1..MaxAttempts, secret : {TenantId} \union Keys]
Rows   == [status : {"NONE", "PENDING", "DELIVERED", "FAILED"}, attempts : 0..MaxAttempts]

TypeOK ==
  /\ run \in [Dispatches -> Locals]
  /\ row \in [Dispatches -> Rows]
  /\ posts \in [Dispatches -> Seq(PostResults)]
  /\ \A d \in Dispatches : Len(posts[d]) <= MaxAttempts
  /\ audit \in [Dispatches -> SUBSET {"WEBHOOK_DELIVERED", "WEBHOOK_FAILED"}]
  /\ issued \in 0..MaxKeys /\ revoked \subseteq 1..issued
  /\ before \in [Dispatches -> [issued : SUBSET Keys, revoked : SUBSET Keys]]
  /\ rejections \in 0..MaxRejections /\ crashes \in 0..MaxCrashes

Init ==
  /\ run = [d \in Dispatches |-> [pc |-> "idle", attempt |-> 1, secret |-> TenantId]]
  /\ row = [d \in Dispatches |-> [status |-> "NONE", attempts |-> 0]]
  /\ posts = [d \in Dispatches |-> <<>>]
  /\ audit = [d \in Dispatches |-> {}]
  /\ issued = 0
  /\ revoked = {}
  /\ before = [d \in Dispatches |-> [issued |-> {}, revoked |-> {}]]
  /\ rejections = 0
  /\ crashes = 0

At(d, pc)   == run[d].pc = pc
Goto(d, pc) == run' = [run EXCEPT ![d].pc = pc]
ActiveKeys  == (1..issued) \ revoked
Result(d)   == posts[d][Len(posts[d])]   \* of the last attempt

\* Mutant of LastAttempt: the loop's bound is off by one.
OneMorePost(d) == run[d].attempt > MaxAttempts

LastAttempt(d) == run[d].attempt >= MaxAttempts

-----------------------------------------------------------------------------
(* WebhookService.dispatch *)

Begin(d) ==
  /\ At(d, "idle")
  /\ Goto(d, "resolve")
  /\ before' = [before EXCEPT ![d] = [issued |-> 1..issued, revoked |-> revoked]]
  /\ UNCHANGED <<row, posts, audit, issued, revoked, rejections, crashes>>

\* Mutant of ResolveSecret: without revokedAt: null.
ResolveAnyKey(d) ==
  /\ At(d, "resolve")
  /\ run' = [run EXCEPT ![d].pc = "insert", ![d].secret = IF issued = 0 THEN TenantId ELSE issued]
  /\ UNCHANGED <<row, posts, audit, issued, revoked, before, rejections, crashes>>

\* resolveTenantSecret: the newest active key; it signs every attempt.
ResolveSecret(d) ==
  /\ At(d, "resolve")
  /\ \E secret \in IF ActiveKeys = {} THEN {TenantId} ELSE ActiveKeys :
       /\ \A k \in ActiveKeys : k <= secret
       /\ run' = [run EXCEPT ![d].pc = "insert", ![d].secret = secret]
  /\ UNCHANGED <<row, posts, audit, issued, revoked, before, rejections, crashes>>

InsertRow(d) ==
  /\ At(d, "insert")
  /\ row' = [row EXCEPT ![d].status = "PENDING"]
  /\ Goto(d, "post")
  /\ UNCHANGED <<posts, audit, issued, revoked, before, rejections, crashes>>

\* The receiver answers 2xx, or something else, or too late or not at all, or
\* is not reached.
Post(d) ==
  /\ At(d, "post")
  /\ \E result \in PostResults : posts' = [posts EXCEPT ![d] = Append(@, result)]
  /\ Goto(d, "update")
  /\ UNCHANGED <<row, audit, issued, revoked, before, rejections, crashes>>

NextPost(d) == run' = [run EXCEPT ![d].pc = "post", ![d].attempt = @ + 1]

\* The row after an attempt, and where the loop goes from there.
Updated(d, ok) ==
  /\ row' = [row EXCEPT ![d] = [status   |-> IF ok THEN "DELIVERED" ELSE "PENDING",
                                attempts |-> run[d].attempt]]
  /\ IF ok THEN Goto(d, "logDelivered")
     ELSE IF LastAttempt(d) THEN Goto(d, "exhausted") ELSE NextPost(d)

\* Mutant of UpdateRow: the loop does not stop at a success.
UpdateAndRetry(d) ==
  /\ At(d, "update")
  /\ row' = [row EXCEPT ![d] = [status   |-> IF Result(d) = "ok" THEN "DELIVERED" ELSE "PENDING",
                                attempts |-> run[d].attempt]]
  /\ IF LastAttempt(d) THEN Goto(d, "exhausted") ELSE NextPost(d)
  /\ UNCHANGED <<posts, audit, issued, revoked, before, rejections, crashes>>

\* Mutant of UpdateRow: any answer counts as success.
UpdateOnAnswer(d) ==
  /\ At(d, "update")
  /\ Updated(d, Result(d) \in {"ok", "refused"})
  /\ UNCHANGED <<posts, audit, issued, revoked, before, rejections, crashes>>

\* Mutant of UpdateRow: no timer ends a fetch that is not answered.
UpdateWhenAnswered(d) ==
  /\ At(d, "update")
  /\ Result(d) # "unanswered"
  /\ Updated(d, Result(d) = "ok")
  /\ UNCHANGED <<posts, audit, issued, revoked, before, rejections, crashes>>

UpdateRow(d) ==
  /\ At(d, "update")
  /\ Updated(d, Result(d) = "ok")
  /\ UNCHANGED <<posts, audit, issued, revoked, before, rejections, crashes>>

Exhaust(d) ==
  /\ At(d, "exhausted")
  /\ row' = [row EXCEPT ![d].status = "FAILED"]
  /\ Goto(d, "logFailed")
  /\ UNCHANGED <<posts, audit, issued, revoked, before, rejections, crashes>>

LogOutcome(d) ==
  /\ \/ At(d, "logDelivered") /\ audit' = [audit EXCEPT ![d] = @ \union {"WEBHOOK_DELIVERED"}]
     \/ At(d, "logFailed") /\ audit' = [audit EXCEPT ![d] = @ \union {"WEBHOOK_FAILED"}]
  /\ Goto(d, "done")
  /\ UNCHANGED <<row, posts, issued, revoked, before, rejections, crashes>>

-----------------------------------------------------------------------------
(* Faults and the tenant *)

\* A database call rejects, dispatch with it, and notifyTerminalStatus swallows
\* that.  Only fetch is tried again.
RejectedCall(d) ==
  /\ run[d].pc \notin Ended \union {"idle", "post"}
  /\ rejections < MaxRejections
  /\ rejections' = rejections + 1
  /\ Goto(d, "aborted")
  /\ UNCHANGED <<row, posts, audit, issued, revoked, before, crashes>>

\* Nobody reads the rows after a restart.
CrashWorker ==
  /\ crashes < MaxCrashes
  /\ crashes' = crashes + 1
  /\ run' = [d \in Dispatches |->
               IF At(d, "idle") \/ At(d, "done") THEN run[d] ELSE [run[d] EXCEPT !.pc = "aborted"]]
  /\ UNCHANGED <<row, posts, audit, issued, revoked, before, rejections>>

IssueKey ==
  /\ issued < MaxKeys
  /\ issued' = issued + 1
  /\ UNCHANGED <<run, row, posts, audit, revoked, before, rejections, crashes>>

RevokeKey ==
  /\ \E k \in ActiveKeys : revoked' = revoked \union {k}
  /\ UNCHANGED <<run, row, posts, audit, issued, before, rejections, crashes>>

-----------------------------------------------------------------------------
Dispatch(d) ==
  ResolveSecret(d) \/ InsertRow(d) \/ Post(d) \/ UpdateRow(d) \/ Exhaust(d) \/ LogOutcome(d)

Next ==
  \/ \E d \in Dispatches : Begin(d) \/ Dispatch(d) \/ RejectedCall(d)
  \/ CrashWorker \/ IssueKey \/ RevokeKey

Spec == Init /\ [][Next]_vars

\* fetch is aborted after WEBHOOK_TIMEOUT_MS, every other call settles.
FairSpec == Spec /\ \A d \in Dispatches : WF_vars(Dispatch(d))

-----------------------------------------------------------------------------
(* What a dispatcher must guarantee *)

Accepted(d) == \E i \in DOMAIN posts[d] : posts[d][i] = "ok"

\* Row, audit log and receiver agree: the row never claims more than the
\* receiver has seen -- DELIVERED when it has accepted the post, FAILED when it
\* has declined all attempts -- and lags by one post at most, at whatever call a
\* rejection or a crash ended the dispatch; and only a rejection or a crash
\* leaves a row PENDING for good (75-119).
RowsTellTheTruth ==
  \A d \in Dispatches :
    /\ row[d].status = "DELIVERED" => Accepted(d)
    /\ row[d].status = "FAILED" => Len(posts[d]) = MaxAttempts /\ ~Accepted(d)
    /\ Len(posts[d]) \in row[d].attempts..(row[d].attempts + 1)
    /\ At(d, "done") => \/ row[d].status = "DELIVERED" /\ audit[d] = {"WEBHOOK_DELIVERED"}
                        \/ row[d].status = "FAILED" /\ audit[d] = {"WEBHOOK_FAILED"}

\* What was accepted is not sent again by the same dispatch, also when the
\* update that should record it rejects (79-99).
AcceptedOnce == [][ \A d \in Dispatches : Accepted(d) => posts'[d] = posts[d] ]_vars

\* A key that was revoked before a dispatch began signs none of its posts, and
\* the tenant's id signs only if every key there was has been revoked by now --
\* with rotations at any time in between (161-168; tenants.service 32-69).
SignedByALivingKey ==
  \A d \in Dispatches : posts[d] # <<>> =>
    /\ run[d].secret \notin before[d].revoked
    /\ run[d].secret = TenantId => before[d].issued \subseteq revoked

\* A webhook outage cannot hold up a job: every dispatch that has begun ends
\* (33, 75-124).
DispatchesEnd == \A d \in Dispatches : At(d, "resolve") ~> run[d].pc \in Ended
=============================================================================
