---------------------------- MODULE StepContract ----------------------------
(***************************************************************************)
(* What executing a step with recovery promises, with no word about how:   *)
(* the step is tried, each failed try is answered exactly once -- by        *)
(* settling the step, by another try, or by giving up -- and it is given    *)
(* up only when `limit' tries have failed.                                  *)
(***************************************************************************)
EXTENDS Naturals

CONSTANTS Runs          \* executions of the step, one for each delivery

VARIABLES limit,        \* how often the step may be tried
          phase,        \* of each execution
          tries         \* begun so far by each execution

contract == <<limit, phase, tries>>

Init ==
  /\ limit \in Nat \ {0}
  /\ phase = [r \in Runs |-> "waiting"]
  /\ tries = [r \in Runs |-> 0]

Becomes(r, from, to) ==
  /\ phase[r] = from
  /\ phase' = [phase EXCEPT ![r] = to]
  /\ UNCHANGED limit

\* A try begins: the first, or one more after a failure.
Try(r) ==
  /\ \E from \in {"waiting", "failed"} : Becomes(r, from, "trying")
  /\ tries[r] < limit
  /\ tries' = [tries EXCEPT ![r] = @ + 1]

Succeed(r) == Becomes(r, "trying", "settled") /\ UNCHANGED tries
Fail(r)    == Becomes(r, "trying", "failed") /\ UNCHANGED tries
Settle(r)  == Becomes(r, "failed", "settled") /\ UNCHANGED tries
GiveUp(r)  == Becomes(r, "failed", "exhausted") /\ tries[r] = limit /\ UNCHANGED tries

\* The delivery itself breaks off.
Abort(r) == \E from \in {"trying", "failed"} : Becomes(r, from, "aborted") /\ UNCHANGED tries

Next == \E r \in Runs :
          Try(r) \/ Succeed(r) \/ Fail(r) \/ Settle(r) \/ GiveUp(r) \/ Abort(r)

Spec == Init /\ [][Next]_contract
=============================================================================
