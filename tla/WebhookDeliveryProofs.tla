----------------------- MODULE WebhookDeliveryProofs -----------------------
(***************************************************************************)
(* Proofs about webhooks, for every number of dispatches, attempts, keys,  *)
(* rejected calls and crashes.                                             *)
(*                                                                         *)
(* The argument: what row and posts may look like depends on where the     *)
(* dispatch is (InStep); the secret is chosen among keys that no dispatch  *)
(* that began before can have seen revoked (KeysOK).  Each action moves    *)
(* one dispatch, or all to "aborted", where only the truth has to remain.  *)
(***************************************************************************)
EXTENDS WebhookDelivery, TLAPS

Truth(d) ==
  /\ row[d].status = "DELIVERED" => Accepted(d)
  /\ row[d].status = "FAILED" => Len(posts[d]) = MaxAttempts /\ ~Accepted(d)
  /\ Len(posts[d]) \in row[d].attempts..(row[d].attempts + 1)

\* Where a dispatch is says what its row and its posts are.
InStep(d) ==
  /\ run[d].pc \in {"idle", "resolve", "insert"} =>
       /\ posts[d] = <<>> /\ run[d].attempt = 1
       /\ row[d].status = "NONE" /\ row[d].attempts = 0
  /\ run[d].pc = "post" =>
       /\ Len(posts[d]) = run[d].attempt - 1 /\ ~Accepted(d)
       /\ row[d].status = "PENDING" /\ row[d].attempts = run[d].attempt - 1
  /\ run[d].pc = "update" =>
       /\ Len(posts[d]) = run[d].attempt /\ (Accepted(d) <=> Result(d) = "ok")
       /\ row[d].status = "PENDING" /\ row[d].attempts = run[d].attempt - 1
  /\ run[d].pc = "exhausted" =>
       /\ Len(posts[d]) = MaxAttempts /\ ~Accepted(d)
       /\ row[d].status = "PENDING" /\ row[d].attempts = MaxAttempts

\* A dispatch that has its secret has a good one, and what it saw of the keys
\* when it began has only grown.
KeysOK(d) ==
  /\ run[d].pc \notin {"idle", "resolve", "aborted"} \/ posts[d] # <<>> =>
       /\ run[d].secret \notin before[d].revoked
       /\ run[d].secret = TenantId => before[d].issued \subseteq revoked
  /\ before[d].issued \subseteq 1..issued
  /\ before[d].revoked \subseteq revoked

\* The audit log is written last, and says what the row says.
Ending(d) ==
  /\ run[d].pc \notin Ended => audit[d] = {}
  /\ run[d].pc = "logDelivered" => row[d].status = "DELIVERED"
  /\ run[d].pc = "logFailed" => row[d].status = "FAILED"
  /\ run[d].pc = "done" => \/ row[d].status = "DELIVERED" /\ audit[d] = {"WEBHOOK_DELIVERED"}
                           \/ row[d].status = "FAILED" /\ audit[d] = {"WEBHOOK_FAILED"}

Good(d) == Truth(d) /\ InStep(d) /\ KeysOK(d) /\ Ending(d)

IInv == TypeOK /\ \A d \in Dispatches : Good(d)

-----------------------------------------------------------------------------
(* Helpers *)

\* What appending a post does to a dispatch that has none accepted.
LEMMA AppendPost ==
  ASSUME NEW s \in Seq(PostResults), NEW x \in PostResults, \A i \in DOMAIN s : s[i] # "ok"
  PROVE  /\ Append(s, x) \in Seq(PostResults) /\ Len(Append(s, x)) = Len(s) + 1
         /\ Append(s, x)[Len(Append(s, x))] = x
         /\ (\E i \in DOMAIN Append(s, x) : Append(s, x)[i] = "ok") <=> x = "ok"
  OBVIOUS

\* Only the pc of one dispatch changes.
LEMMA GotoEffect ==
  ASSUME TypeOK, NEW d \in Dispatches, NEW pc \in RunPcs, Goto(d, pc)
  PROVE  /\ run' \in [Dispatches -> Locals]
         /\ run'[d].pc = pc /\ run'[d].attempt = run[d].attempt /\ run'[d].secret = run[d].secret
         /\ \A x \in Dispatches \ {d} : run'[x] = run[x]
  BY DEF TypeOK, Goto, Locals

\* A dispatch that a step leaves alone stays good; keys may come and go.
LEMMA Untouched ==
  ASSUME NEW x \in Dispatches, Good(x), issued \in Nat, issued' \in Nat,
         run'[x] = run[x], row'[x] = row[x], posts'[x] = posts[x], before'[x] = before[x],
         audit'[x] = audit[x], issued <= issued', revoked \subseteq revoked'
  PROVE  Good(x)'
<1>1. Truth(x)'
  BY DEF Good, Truth, Accepted
<1>2. InStep(x)'
  BY DEF Good, InStep, Accepted, Result
<1>3. KeysOK(x)'
  BY DEF Good, KeysOK, TenantId
<1>4. Ending(x)'
  BY DEF Good, Ending
<1> QED BY <1>1, <1>2, <1>3, <1>4 DEF Good

\* A dispatch that breaks off stays good.
LEMMA Aborted ==
  ASSUME TypeOK, NEW x \in Dispatches, Good(x), run'[x] = [run[x] EXCEPT !.pc = "aborted"],
         UNCHANGED <<row, posts, before, issued, revoked>>
  PROVE  Good(x)'
<1>1. run'[x].pc = "aborted" /\ run'[x].secret = run[x].secret
  BY DEF TypeOK, Locals
<1>2. Truth(x)' /\ InStep(x)'
  BY <1>1 DEF Good, Truth, InStep, Accepted
<1>3. KeysOK(x)'
  BY <1>1 DEF Good, KeysOK, TenantId
<1>4. Ending(x)'
  BY <1>1 DEF Ending, Ended
<1> QED BY <1>2, <1>3, <1>4 DEF Good

-----------------------------------------------------------------------------
(* The invariant *)

\* The initial state satisfies the invariant.
LEMMA InitInvariant == Init => IInv
<1> SUFFICES ASSUME Init PROVE IInv
  OBVIOUS
<1>1. <<>> \in Seq(PostResults) /\ Len(<<>>) = 0
  OBVIOUS
<1>2. TypeOK
  BY <1>1, WebhookAssumption DEF Init, TypeOK, Locals, Rows, RunPcs, TenantId, Keys
<1>3. ASSUME NEW d \in Dispatches PROVE Good(d)
  BY <1>1 DEF Init, Good, Truth, InStep, KeysOK, Ending, Accepted
<1> QED BY <1>2, <1>3 DEF IInv

\* A step of one dispatch has to be looked at for that dispatch only.
LEMMA OneDispatch ==
  ASSUME IInv, NEW d \in Dispatches, TypeOK', Good(d)', UNCHANGED <<issued, revoked>>,
         \A x \in Dispatches \ {d} : /\ run'[x] = run[x] /\ row'[x] = row[x]
                                     /\ posts'[x] = posts[x] /\ before'[x] = before[x]
                                     /\ audit'[x] = audit[x]
  PROVE  IInv'
<1>1. ASSUME NEW x \in Dispatches \ {d} PROVE Good(x)'
  <2>1. issued \in Nat /\ issued' \in Nat /\ issued <= issued' /\ Good(x)
    BY WebhookAssumption DEF IInv, TypeOK
  <2> QED BY <2>1, Untouched
<1> QED BY <1>1 DEF IInv

\* A dispatch begins by seeing the keys there are.
LEMMA BeginStep == ASSUME IInv, NEW d \in Dispatches, Begin(d) PROVE IInv'
<1>1. At(d, "idle") /\ Goto(d, "resolve") /\ UNCHANGED <<row, posts, audit, issued, revoked, rejections, crashes>>
  BY DEF Begin
<1>2. /\ run' \in [Dispatches -> Locals] /\ run'[d].pc = "resolve" /\ run'[d].attempt = run[d].attempt
      /\ \A x \in Dispatches \ {d} : run'[x] = run[x]
  BY <1>1, GotoEffect DEF IInv, RunPcs
<1>3. /\ before' \in [Dispatches -> [issued : SUBSET Keys, revoked : SUBSET Keys]]
      /\ before'[d] = [issued |-> 1..issued, revoked |-> revoked]
      /\ \A x \in Dispatches \ {d} : before'[x] = before[x]
  BY WebhookAssumption DEF Begin, IInv, TypeOK, Keys
<1>4. TypeOK'
  BY <1>1, <1>2, <1>3 DEF IInv, TypeOK
<1>5. Good(d)'
  BY <1>1, <1>2, <1>3 DEF IInv, Good, Truth, InStep, KeysOK, Ending, Ended, At, Accepted
<1> QED BY <1>1, <1>2, <1>3, <1>4, <1>5, OneDispatch

\* The secret is active, or every key is revoked.
LEMMA ResolveStep == ASSUME IInv, NEW d \in Dispatches, ResolveSecret(d) PROVE IInv'
<1>1. PICK secret \in IF ActiveKeys = {} THEN {TenantId} ELSE ActiveKeys :
        run' = [run EXCEPT ![d].pc = "insert", ![d].secret = secret]
  BY DEF ResolveSecret
<1>2. /\ secret \in {TenantId} \union Keys /\ secret \notin revoked
      /\ secret = TenantId => 1..issued \subseteq revoked
  BY <1>1, WebhookAssumption DEF IInv, TypeOK, ActiveKeys, TenantId, Keys
<1>3. /\ run' \in [Dispatches -> Locals] /\ run'[d].pc = "insert" /\ run'[d].attempt = run[d].attempt
      /\ run'[d].secret = secret /\ \A x \in Dispatches \ {d} : run'[x] = run[x]
  BY <1>1, <1>2 DEF IInv, TypeOK, Locals, RunPcs
<1>4. At(d, "resolve") /\ UNCHANGED <<row, posts, audit, issued, revoked, before, rejections, crashes>>
  BY DEF ResolveSecret
<1>5. TypeOK'
  BY <1>3, <1>4 DEF IInv, TypeOK
<1>6. Truth(d)' /\ InStep(d)'
  BY <1>3, <1>4 DEF IInv, Good, Truth, InStep, At, Accepted
<1>7. KeysOK(d)'
  BY <1>2, <1>3, <1>4 DEF IInv, Good, KeysOK
<1>8. Ending(d)'
  BY <1>3, <1>4 DEF IInv, Good, Ending, Ended, At
<1> QED BY <1>3, <1>4, <1>5, <1>6, <1>7, <1>8, OneDispatch DEF Good

\* The row is inserted before the first post.
LEMMA InsertStep == ASSUME IInv, NEW d \in Dispatches, InsertRow(d) PROVE IInv'
<1>1. /\ At(d, "insert") /\ Goto(d, "post") /\ row' = [row EXCEPT ![d].status = "PENDING"]
      /\ UNCHANGED <<posts, audit, issued, revoked, before, rejections, crashes>>
  BY DEF InsertRow
<1>2. /\ run' \in [Dispatches -> Locals] /\ run'[d].pc = "post" /\ run'[d].attempt = run[d].attempt
      /\ run'[d].secret = run[d].secret /\ \A x \in Dispatches \ {d} : run'[x] = run[x]
  BY <1>1, GotoEffect DEF IInv, RunPcs
<1>3. /\ row' \in [Dispatches -> Rows] /\ row'[d].status = "PENDING" /\ row'[d].attempts = row[d].attempts
      /\ \A x \in Dispatches \ {d} : row'[x] = row[x]
  BY <1>1 DEF IInv, TypeOK, Rows
<1>4. TypeOK'
  BY <1>1, <1>2, <1>3 DEF IInv, TypeOK
<1>5. Truth(d)' /\ InStep(d)'
  BY <1>1, <1>2, <1>3 DEF IInv, Good, Truth, InStep, At, Accepted
<1>6. KeysOK(d)'
  BY <1>1, <1>2 DEF IInv, Good, KeysOK, At
<1>7. Ending(d)'
  BY <1>1, <1>2 DEF IInv, Good, Ending, Ended, At
<1> QED BY <1>1, <1>2, <1>3, <1>4, <1>5, <1>6, <1>7, OneDispatch DEF Good

\* A post comes only after posts that were not accepted.
LEMMA PostStep == ASSUME IInv, NEW d \in Dispatches, Post(d) PROVE IInv'
<1>1. PICK result \in PostResults : posts' = [posts EXCEPT ![d] = Append(@, result)]
  BY DEF Post
<1>2. /\ At(d, "post") /\ Goto(d, "update")
      /\ UNCHANGED <<row, audit, issued, revoked, before, rejections, crashes>>
  BY DEF Post
<1>3. /\ run' \in [Dispatches -> Locals] /\ run'[d].pc = "update" /\ run'[d].attempt = run[d].attempt
      /\ run'[d].secret = run[d].secret /\ \A x \in Dispatches \ {d} : run'[x] = run[x]
  BY <1>2, GotoEffect DEF IInv, RunPcs
<1>4. /\ Len(posts[d]) = run[d].attempt - 1 /\ ~Accepted(d)
      /\ row[d].status = "PENDING" /\ row[d].attempts = run[d].attempt - 1
  BY <1>2 DEF IInv, Good, InStep, At
<1>5. posts[d] \in Seq(PostResults) /\ run[d].attempt \in 1..MaxAttempts
  BY DEF IInv, TypeOK, Locals
<1>6. /\ posts'[d] \in Seq(PostResults) /\ Len(posts'[d]) = run[d].attempt
      /\ posts'[d][Len(posts'[d])] = result
      /\ (\E i \in DOMAIN posts'[d] : posts'[d][i] = "ok") <=> result = "ok"
      /\ \A x \in Dispatches \ {d} : posts'[x] = posts[x]
  BY <1>1, <1>4, <1>5, AppendPost DEF IInv, TypeOK, Accepted
<1>7. TypeOK'
  <2>1. posts' \in [Dispatches -> Seq(PostResults)]
    BY <1>1, <1>6 DEF IInv, TypeOK
  <2>2. \A x \in Dispatches : Len(posts'[x]) <= MaxAttempts
    <3>1. Len(posts'[d]) <= MaxAttempts
      BY <1>5, <1>6, WebhookAssumption
    <3>2. ASSUME NEW x \in Dispatches \ {d} PROVE Len(posts'[x]) <= MaxAttempts
      BY <1>6 DEF IInv, TypeOK
    <3> QED BY <3>1, <3>2
  <2> QED BY <1>2, <1>3, <2>1, <2>2 DEF IInv, TypeOK
<1>8. Truth(d)' /\ InStep(d)'
  BY <1>2, <1>3, <1>4, <1>5, <1>6 DEF Truth, InStep, Accepted, Result
<1>9. KeysOK(d)'
  BY <1>2, <1>3 DEF IInv, Good, KeysOK, At
<1>10. Ending(d)'
  BY <1>2, <1>3 DEF IInv, Good, Ending, Ended, At
<1> QED BY <1>2, <1>3, <1>6, <1>7, <1>8, <1>9, <1>10, OneDispatch DEF Good

\* What was accepted is DELIVERED; what was not goes to the next attempt, whose
\* number the update has just recorded, or is exhausted.
LEMMA UpdateStep == ASSUME IInv, NEW d \in Dispatches, UpdateRow(d) PROVE IInv'
<1> DEFINE ok == Result(d) = "ok"
<1>1. At(d, "update") /\ UNCHANGED <<posts, audit, issued, revoked, before, rejections, crashes>>
  BY DEF UpdateRow
<1>2. /\ Len(posts[d]) = run[d].attempt /\ (Accepted(d) <=> ok)
      /\ run[d].attempt \in 1..MaxAttempts /\ run[d] \in Locals
  BY <1>1 DEF IInv, TypeOK, Locals, Good, InStep, At
<1>3. /\ row' \in [Dispatches -> Rows] /\ row'[d].attempts = run[d].attempt
      /\ row'[d].status = IF ok THEN "DELIVERED" ELSE "PENDING"
      /\ \A x \in Dispatches \ {d} : row'[x] = row[x]
  <2>1. row' = [row EXCEPT ![d] = [status   |-> IF ok THEN "DELIVERED" ELSE "PENDING",
                                   attempts |-> run[d].attempt]]
    BY DEF UpdateRow, Updated
  <2>2. run[d].attempt \in 0..MaxAttempts
    BY <1>2, WebhookAssumption
  <2> QED BY <2>1, <2>2 DEF IInv, TypeOK, Rows
<1>4. /\ run' \in [Dispatches -> Locals] /\ run'[d].secret = run[d].secret
      /\ \A x \in Dispatches \ {d} : run'[x] = run[x]
      /\ \/ ok /\ run'[d].pc = "logDelivered"
         \/ ~ok /\ run[d].attempt = MaxAttempts /\ run'[d].pc = "exhausted"
         \/ ~ok /\ run'[d].pc = "post" /\ run'[d].attempt = run[d].attempt + 1
  <2>1. CASE ok
    <3>1. Goto(d, "logDelivered")
      BY <2>1 DEF UpdateRow, Updated
    <3> QED BY <3>1, <2>1, GotoEffect DEF IInv, RunPcs
  <2>2. CASE ~ok /\ LastAttempt(d)
    <3>1. Goto(d, "exhausted") /\ run[d].attempt = MaxAttempts
      BY <1>2, <2>2, WebhookAssumption DEF UpdateRow, Updated, LastAttempt
    <3> QED BY <3>1, <2>2, GotoEffect DEF IInv, RunPcs
  <2>3. CASE ~ok /\ ~LastAttempt(d)
    <3>1. NextPost(d) /\ run[d].attempt + 1 \in 1..MaxAttempts
      BY <1>2, <2>3, WebhookAssumption DEF UpdateRow, Updated, LastAttempt
    <3> QED BY <3>1, <2>3 DEF NextPost, IInv, TypeOK, Locals, RunPcs
  <2> QED BY <2>1, <2>2, <2>3
<1>5. TypeOK'
  BY <1>1, <1>3, <1>4 DEF IInv, TypeOK
<1>6. Truth(d)' /\ InStep(d)'
  BY <1>1, <1>2, <1>3, <1>4 DEF Truth, InStep, Accepted
<1>7. KeysOK(d)'
  BY <1>1, <1>4 DEF IInv, Good, KeysOK, At
<1>8. Ending(d)'
  BY <1>1, <1>3, <1>4 DEF IInv, Good, Ending, Ended, At
<1> QED BY <1>1, <1>3, <1>4, <1>5, <1>6, <1>7, <1>8, OneDispatch DEF Good

\* FAILED is written after all attempts, none of which was accepted.
LEMMA ExhaustStep == ASSUME IInv, NEW d \in Dispatches, Exhaust(d) PROVE IInv'
<1>1. /\ At(d, "exhausted") /\ Goto(d, "logFailed") /\ row' = [row EXCEPT ![d].status = "FAILED"]
      /\ UNCHANGED <<posts, audit, issued, revoked, before, rejections, crashes>>
  BY DEF Exhaust
<1>2. /\ run' \in [Dispatches -> Locals] /\ run'[d].pc = "logFailed" /\ run'[d].secret = run[d].secret
      /\ \A x \in Dispatches \ {d} : run'[x] = run[x]
  BY <1>1, GotoEffect DEF IInv, RunPcs
<1>3. /\ row' \in [Dispatches -> Rows] /\ row'[d].status = "FAILED" /\ row'[d].attempts = row[d].attempts
      /\ \A x \in Dispatches \ {d} : row'[x] = row[x]
  BY <1>1 DEF IInv, TypeOK, Rows
<1>4. TypeOK'
  BY <1>1, <1>2, <1>3 DEF IInv, TypeOK
<1>5. Truth(d)' /\ InStep(d)'
  BY <1>1, <1>2, <1>3 DEF IInv, Good, Truth, InStep, At, Accepted
<1>6. KeysOK(d)'
  BY <1>1, <1>2 DEF IInv, Good, KeysOK, At
<1>7. Ending(d)'
  BY <1>1, <1>2, <1>3 DEF IInv, Good, Ending, Ended, At
<1> QED BY <1>1, <1>2, <1>3, <1>4, <1>5, <1>6, <1>7, OneDispatch DEF Good

\* The audit write touches neither row nor posts.
LEMMA LogStep == ASSUME IInv, NEW d \in Dispatches, LogOutcome(d) PROVE IInv'
<1>1. /\ run[d].pc \in {"logDelivered", "logFailed"} /\ Goto(d, "done")
      /\ UNCHANGED <<row, posts, issued, revoked, before, rejections, crashes>>
      /\ audit' \in [Dispatches -> SUBSET {"WEBHOOK_DELIVERED", "WEBHOOK_FAILED"}]
  BY DEF LogOutcome, At, IInv, TypeOK
<1>2. /\ run' \in [Dispatches -> Locals] /\ run'[d].pc = "done" /\ run'[d].secret = run[d].secret
      /\ \A x \in Dispatches \ {d} : run'[x] = run[x]
  BY <1>1, GotoEffect DEF IInv, RunPcs
<1>3. TypeOK'
  BY <1>1, <1>2 DEF IInv, TypeOK
<1>4. Good(d)'
  <2>1. Ending(d)'
    <3>1. row'[d] = row[d] /\ audit[d] = {} /\ run'[d].pc = "done"
      BY <1>1, <1>2 DEF IInv, Good, Ending, Ended
    <3>2. CASE /\ run[d].pc = "logDelivered"
               /\ audit' = [audit EXCEPT ![d] = @ \union {"WEBHOOK_DELIVERED"}]
      <4>1. audit'[d] = {"WEBHOOK_DELIVERED"} /\ row[d].status = "DELIVERED"
        BY <3>1, <3>2 DEF IInv, TypeOK, Good, Ending
      <4> QED BY <3>1, <4>1 DEF Ending, Ended
    <3>3. CASE /\ run[d].pc = "logFailed"
               /\ audit' = [audit EXCEPT ![d] = @ \union {"WEBHOOK_FAILED"}]
      <4>1. audit'[d] = {"WEBHOOK_FAILED"} /\ row[d].status = "FAILED"
        BY <3>1, <3>3 DEF IInv, TypeOK, Good, Ending
      <4> QED BY <3>1, <4>1 DEF Ending, Ended
    <3> QED BY <3>2, <3>3 DEF LogOutcome, At
  <2> QED BY <1>1, <1>2, <2>1 DEF IInv, Good, Truth, InStep, KeysOK, Accepted
<1>5. \A x \in Dispatches \ {d} : audit'[x] = audit[x]
  BY DEF LogOutcome, IInv, TypeOK
<1> QED BY <1>1, <1>2, <1>3, <1>4, <1>5, OneDispatch

\* A rejected call breaks off one dispatch.
LEMMA RejectStep == ASSUME IInv, NEW d \in Dispatches, RejectedCall(d) PROVE IInv'
<1>1. /\ Goto(d, "aborted") /\ UNCHANGED <<row, posts, audit, issued, revoked, before, crashes>>
      /\ rejections' \in 0..MaxRejections
  BY WebhookAssumption DEF RejectedCall, IInv, TypeOK
<1>2. /\ run' \in [Dispatches -> Locals] /\ run'[d] = [run[d] EXCEPT !.pc = "aborted"]
      /\ \A x \in Dispatches \ {d} : run'[x] = run[x]
  BY <1>1, GotoEffect DEF IInv, RunPcs, Goto, TypeOK
<1>3. TypeOK'
  BY <1>1, <1>2 DEF IInv, TypeOK
<1>4. Good(d)'
  BY <1>1, <1>2, Aborted DEF IInv
<1> QED BY <1>1, <1>2, <1>3, <1>4, OneDispatch

\* A crash breaks off the dispatches that are under way and leaves the others.
LEMMA CrashStep == ASSUME IInv, CrashWorker PROVE IInv'
<1>1. /\ crashes' \in 0..MaxCrashes /\ UNCHANGED <<row, posts, audit, issued, revoked, before, rejections>>
  BY WebhookAssumption DEF CrashWorker, IInv, TypeOK
<1>2. \A x \in Dispatches : run'[x] \in {run[x], [run[x] EXCEPT !.pc = "aborted"]}
  BY DEF CrashWorker
<1>3. run' \in [Dispatches -> Locals]
  <2>1. run' = [d \in Dispatches |-> run'[d]]
    BY DEF CrashWorker
  <2>2. ASSUME NEW x \in Dispatches PROVE run'[x] \in Locals
    <3>1. run[x] \in Locals
      BY DEF IInv, TypeOK
    <3>2. [run[x] EXCEPT !.pc = "aborted"] \in Locals
      BY <3>1 DEF Locals, RunPcs
    <3> QED BY <1>2, <3>1, <3>2
  <2> QED BY <2>1, <2>2
<1>4. TypeOK'
  BY <1>1, <1>3 DEF IInv, TypeOK
<1>5. ASSUME NEW x \in Dispatches PROVE Good(x)'
  <2>1. issued \in Nat /\ issued' \in Nat /\ Good(x) /\ TypeOK
    BY <1>1, WebhookAssumption DEF IInv, TypeOK
  <2>2. CASE run'[x] = run[x]
    BY <1>1, <2>1, <2>2, Untouched
  <2>3. CASE run'[x] = [run[x] EXCEPT !.pc = "aborted"]
    BY <1>1, <2>1, <2>3, Aborted
  <2> QED BY <1>2, <2>2, <2>3
<1> QED BY <1>4, <1>5 DEF IInv

\* Keys that are issued or revoked later do not make a chosen secret wrong.
LEMMA KeyStep == ASSUME IInv, IssueKey \/ RevokeKey PROVE IInv'
<1>1. /\ issued \in Nat /\ issued' \in 0..MaxKeys /\ issued <= issued'
      /\ revoked \subseteq revoked' /\ revoked' \subseteq 1..issued'
      /\ UNCHANGED <<run, row, posts, audit, before, rejections, crashes>>
  <2>1. issued \in 0..MaxKeys /\ revoked \subseteq 1..issued
    BY DEF IInv, TypeOK
  <2>2. CASE IssueKey
    <3>1. issued' = issued + 1 /\ issued < MaxKeys /\ revoked' = revoked
      BY <2>2 DEF IssueKey
    <3> QED BY <2>1, <2>2, <3>1, WebhookAssumption DEF IssueKey
  <2>3. CASE RevokeKey
    <3>1. PICK k \in (1..issued) \ revoked : revoked' = revoked \union {k}
      BY <2>3 DEF RevokeKey, ActiveKeys
    <3>2. UNCHANGED <<run, row, posts, audit, issued, before, rejections, crashes>>
      BY <2>3 DEF RevokeKey
    <3>3. revoked \subseteq revoked' /\ revoked' \subseteq 1..issued'
      BY <2>1, <3>1, <3>2
    <3> QED BY <2>1, <3>2, <3>3, WebhookAssumption
  <2> QED BY <2>2, <2>3
<1>2. TypeOK'
  BY <1>1 DEF IInv, TypeOK
<1>3. ASSUME NEW x \in Dispatches PROVE Good(x)'
  <2>1. issued' \in Nat /\ Good(x)
    BY <1>1, WebhookAssumption DEF IInv
  <2> QED BY <1>1, <2>1, Untouched
<1> QED BY <1>2, <1>3 DEF IInv

\* Where nothing changes, nothing is lost.
LEMMA StutterStep == ASSUME IInv, UNCHANGED vars PROVE IInv'
BY DEF vars, IInv, TypeOK, Good, Truth, InStep, KeysOK, Ending, Accepted, Result

\* Every step preserves the invariant.
LEMMA NextStep == ASSUME IInv, [Next]_vars PROVE IInv'
BY BeginStep, ResolveStep, InsertStep, PostStep, UpdateStep, ExhaustStep, LogStep, RejectStep,
   CrashStep, KeyStep, StutterStep DEF Next, Dispatch

-----------------------------------------------------------------------------
(* Theorems *)

\* The invariant is inductive.
THEOREM Inductive == Spec => []IInv
BY InitInvariant, NextStep, PTL DEF Spec

\* Type correctness, for every value of the constants.
THEOREM TypeCorrect == Spec => []TypeOK
BY Inductive, PTL DEF IInv

\* The row claims no more than the receiver has seen.
THEOREM RowsAreTrue == Spec => []RowsTellTheTruth
<1>1. IInv => RowsTellTheTruth
  BY DEF IInv, Good, Truth, Ending, At, RowsTellTheTruth
<1> QED BY <1>1, Inductive, PTL

\* No key that was revoked before a dispatch began signs its posts.
THEOREM LivingKeySigns == Spec => []SignedByALivingKey
<1>1. IInv => SignedByALivingKey
  BY DEF IInv, Good, KeysOK, SignedByALivingKey
<1> QED BY <1>1, Inductive, PTL

\* What was accepted is not sent again: only Post writes posts, and at "post"
\* nothing has been accepted.
THEOREM NoPostAfterAcceptance == Spec => AcceptedOnce
<1>1. IInv /\ [Next]_vars => [\A d \in Dispatches : Accepted(d) => posts'[d] = posts[d]]_vars
  <2> SUFFICES ASSUME IInv, Next, NEW d \in Dispatches, Accepted(d) PROVE posts'[d] = posts[d]
    OBVIOUS
  <2>1. CASE \E x \in Dispatches : Post(x)
    <3>1. PICK x \in Dispatches : Post(x)
      BY <2>1
    <3>2. x # d
      BY <3>1 DEF Post, IInv, Good, InStep, At
    <3> QED BY <3>1, <3>2 DEF Post, IInv, TypeOK
  <2>2. CASE UNCHANGED posts
    BY <2>2
  <2>3. UNCHANGED posts \/ \E x \in Dispatches : Post(x)
    BY DEF Next, Dispatch, Begin, ResolveSecret, InsertRow, UpdateRow, Exhaust, LogOutcome,
           RejectedCall, CrashWorker, IssueKey, RevokeKey
  <2> QED BY <2>1, <2>2, <2>3
<1> QED BY <1>1, Inductive, PTL DEF Spec, AcceptedOnce

-----------------------------------------------------------------------------
(* No dispatch goes on forever *)

\* What is left of an attempt, ...
Stage(pc) ==
  CASE pc = "idle"                        -> 7
    [] pc = "resolve"                     -> 6
    [] pc = "insert"                      -> 5
    [] pc = "post"                        -> 4
    [] pc = "update"                      -> 3
    [] pc = "exhausted"                   -> 2
    [] pc \in {"logDelivered", "logFailed"} -> 1
    [] OTHER                              -> 0

\* ... and of a dispatch.
Left(d) == 2 * (MaxAttempts - run[d].attempt) + Stage(run[d].pc)

\* No step brings a dispatch further from its end, and a step of a dispatch
\* brings it closer.
DispatchesRunDown ==
  [][ /\ \A d \in Dispatches : Left(d)' <= Left(d)
      /\ \A d \in Dispatches : run'[d] # run[d] => Left(d)' < Left(d) ]_vars

LEMMA StageFacts == ASSUME NEW pc PROVE Stage(pc) \in 0..7
BY DEF Stage

\* What a step makes of the dispatch it moves.
LEMMA LeftDrops ==
  ASSUME IInv, NEW d \in Dispatches, Begin(d) \/ Dispatch(d) \/ RejectedCall(d)
  PROVE  Left(d)' < Left(d) /\ \A x \in Dispatches \ {d} : run'[x] = run[x]
<1>1. run \in [Dispatches -> Locals] /\ run[d].attempt \in 1..MaxAttempts /\ MaxAttempts \in Nat
  BY WebhookAssumption DEF IInv, TypeOK, Locals
<1>2. Stage(run[d].pc) \in 0..7 /\ Stage(run'[d].pc) \in 0..7
  BY StageFacts
<1>3. ASSUME NEW pc \in RunPcs, Goto(d, pc), Stage(pc) < Stage(run[d].pc)
      PROVE  Left(d)' < Left(d) /\ \A x \in Dispatches \ {d} : run'[x] = run[x]
  <2>1. /\ run'[d].pc = pc /\ run'[d].attempt = run[d].attempt
        /\ \A x \in Dispatches \ {d} : run'[x] = run[x]
    BY <1>3, GotoEffect DEF IInv
  <2>2. Left(d)' = 2 * (MaxAttempts - run'[d].attempt) + Stage(run'[d].pc)
    BY DEF Left
  <2> QED BY <1>1, <1>2, <1>3, <2>1, <2>2 DEF Left
<1>4. CASE Begin(d)
  <2>1. run[d].pc = "idle" /\ Goto(d, "resolve")
    BY <1>4 DEF Begin, At
  <2> QED BY <1>3, <2>1 DEF Stage, RunPcs
<1>5. CASE ResolveSecret(d)
  <2>1. PICK secret : run[d].pc = "resolve"
                      /\ run' = [run EXCEPT ![d].pc = "insert", ![d].secret = secret]
    BY <1>5 DEF ResolveSecret, At
  <2>2. /\ run'[d].pc = "insert" /\ run'[d].attempt = run[d].attempt
        /\ \A x \in Dispatches \ {d} : run'[x] = run[x]
    BY <1>1, <2>1 DEF Locals
  <2>3. Left(d)' = 2 * (MaxAttempts - run'[d].attempt) + Stage(run'[d].pc)
    BY DEF Left
  <2>4. Stage("insert") = 5 /\ Stage("resolve") = 6
    BY DEF Stage
  <2> QED BY <1>1, <2>1, <2>2, <2>3, <2>4 DEF Left
<1>6. CASE InsertRow(d)
  <2>1. run[d].pc = "insert" /\ Goto(d, "post")
    BY <1>6 DEF InsertRow, At
  <2> QED BY <1>3, <2>1 DEF Stage, RunPcs
<1>7. CASE Post(d)
  <2>1. run[d].pc = "post" /\ Goto(d, "update")
    BY <1>7 DEF Post, At
  <2> QED BY <1>3, <2>1 DEF Stage, RunPcs
<1>8. CASE UpdateRow(d)
  <2>1. run[d].pc = "update" /\ (Goto(d, "logDelivered") \/ Goto(d, "exhausted") \/ NextPost(d))
    BY <1>8 DEF UpdateRow, Updated, At
  <2>2. CASE Goto(d, "logDelivered") \/ Goto(d, "exhausted")
    BY <1>3, <2>1, <2>2 DEF Stage, RunPcs
  <2>3. CASE NextPost(d)
    <3>1. /\ run'[d].pc = "post" /\ run'[d].attempt = run[d].attempt + 1
          /\ \A x \in Dispatches \ {d} : run'[x] = run[x]
      BY <1>1, <2>3 DEF NextPost, Locals
    <3>2. Left(d)' = 2 * (MaxAttempts - run'[d].attempt) + Stage(run'[d].pc)
      BY DEF Left
    <3>3. Stage("post") = 4 /\ Stage("update") = 3
      BY DEF Stage
    <3> QED BY <1>1, <2>1, <3>1, <3>2, <3>3 DEF Left
  <2> QED BY <2>1, <2>2, <2>3
<1>9. CASE Exhaust(d)
  <2>1. run[d].pc = "exhausted" /\ Goto(d, "logFailed")
    BY <1>9 DEF Exhaust, At
  <2> QED BY <1>3, <2>1 DEF Stage, RunPcs
<1>10. CASE LogOutcome(d)
  <2>1. run[d].pc \in {"logDelivered", "logFailed"} /\ Goto(d, "done")
    BY <1>10 DEF LogOutcome, At
  <2> QED BY <1>3, <2>1 DEF Stage, RunPcs
<1>11. CASE RejectedCall(d)
  <2>1. run[d].pc \in RunPcs \ (Ended \union {"idle", "post"}) /\ Goto(d, "aborted")
    BY <1>1, <1>11 DEF RejectedCall, Locals
  <2> QED BY <1>3, <2>1 DEF Stage, RunPcs, Ended
<1> QED BY <1>4, <1>5, <1>6, <1>7, <1>8, <1>9, <1>10, <1>11 DEF Dispatch

\* A crash ends whatever is under way and begins nothing.
LEMMA CrashLowers ==
  ASSUME IInv, CrashWorker, NEW d \in Dispatches, run'[d] # run[d]
  PROVE  Left(d)' < Left(d)
<1>1. run[d] \in Locals /\ run[d].attempt \in 1..MaxAttempts /\ MaxAttempts \in Nat
  BY WebhookAssumption DEF IInv, TypeOK, Locals
<1>2. run[d].pc \in RunPcs \ {"idle", "done"} /\ run'[d] = [run[d] EXCEPT !.pc = "aborted"]
  BY <1>1 DEF CrashWorker, At, Locals
<1>3. run'[d].pc = "aborted" /\ run'[d].attempt = run[d].attempt /\ run[d].pc # "aborted"
  <2>1. run'[d].pc = "aborted" /\ run'[d].attempt = run[d].attempt
    BY <1>1, <1>2 DEF Locals
  <2>2. run[d].pc = "aborted" => run'[d] = run[d]
    BY <1>1, <1>2 DEF Locals
  <2> QED BY <2>1, <2>2
<1>4. Stage(run'[d].pc) = 0 /\ Stage(run[d].pc) \in 1..7
  BY <1>2, <1>3 DEF Stage, RunPcs
<1>5. Left(d)' = 2 * (MaxAttempts - run'[d].attempt) + Stage(run'[d].pc)
  BY DEF Left
<1> QED BY <1>1, <1>3, <1>4, <1>5 DEF Left

\* The safety half of why a dispatch ends: however the receiver behaves, each
\* call, each rejection and each crash brings a dispatch closer to an end, and
\* there are no more than 2 * WEBHOOK_MAX_ATTEMPTS + 5 of them (75-124).
THEOREM NoDispatchGoesOn ==
  Spec => [](\A d \in Dispatches : Left(d) \in 0..(2 * MaxAttempts + 5)) /\ DispatchesRunDown
<1>1. IInv => \A d \in Dispatches : Left(d) \in 0..(2 * MaxAttempts + 5)
  <2> SUFFICES ASSUME IInv, NEW d \in Dispatches PROVE Left(d) \in 0..(2 * MaxAttempts + 5)
    OBVIOUS
  <2>1. run[d].attempt \in 1..MaxAttempts /\ Stage(run[d].pc) \in 0..7 /\ MaxAttempts \in Nat
    BY WebhookAssumption, StageFacts DEF IInv, TypeOK, Locals
  <2> QED BY <2>1 DEF Left
<1>2. ASSUME IInv, Next, NEW d \in Dispatches
      PROVE  Left(d)' <= Left(d) /\ (run'[d] # run[d] => Left(d)' < Left(d))
  <2>1. Left(d) \in Nat
    BY <1>1, <1>2, WebhookAssumption
  <2>2. run'[d] = run[d] => Left(d)' = Left(d)
    BY DEF Left
  <2>3. ASSUME NEW x \in Dispatches, Begin(x) \/ Dispatch(x) \/ RejectedCall(x), run'[d] # run[d]
        PROVE  Left(d)' < Left(d)
    BY <1>2, <2>3, LeftDrops
  <2>4. IssueKey \/ RevokeKey => run'[d] = run[d]
    BY DEF IssueKey, RevokeKey
  <2>5. run'[d] # run[d] => Left(d)' < Left(d)
    BY <1>2, <2>3, <2>4, CrashLowers DEF Next
  <2>6. Left(d)' \in Nat
    <3>1. run'[d].attempt \in 1..MaxAttempts /\ Stage(run'[d].pc) \in 0..7 /\ MaxAttempts \in Nat
      BY <1>2, NextStep, StageFacts, WebhookAssumption DEF IInv, TypeOK, Locals
    <3> QED BY <3>1 DEF Left
  <2> QED BY <2>1, <2>2, <2>5, <2>6
<1>3. IInv /\ [Next]_vars =>
        [ /\ \A d \in Dispatches : Left(d)' <= Left(d)
          /\ \A d \in Dispatches : run'[d] # run[d] => Left(d)' < Left(d) ]_vars
  BY <1>2
<1> QED BY <1>1, <1>3, Inductive, PTL DEF Spec, DispatchesRunDown
=============================================================================
