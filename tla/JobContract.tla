---------------------------- MODULE JobContract ----------------------------
(***************************************************************************)
(* What the engine promises of a job, with no word about steps, recovery,  *)
(* processes or the calls its handlers consist of.  A job is carried by    *)
(* tickets; whoever holds an open one may work on the job and write its    *)
(* end.  A job that is given up owes a letter to the operators, and a      *)
(* letter is thrown away only when a new ticket was issued for it.         *)
(***************************************************************************)
CONSTANTS Jobs, NoJob, Tickets, Letters

VARIABLES status,    \* of each job, "NONE" before it is submitted
          ticket,    \* where each ticket is
          job,       \* the job a ticket was issued for
          repeated,  \* the tickets that were interrupted and taken up again
          letter,    \* where each letter is
          subject    \* the job it is about

tickets  == <<ticket, job, repeated>>
letters  == <<letter, subject>>
contract == <<status, tickets, letters>>

Init ==
  /\ status = [j \in Jobs |-> "NONE"]
  /\ ticket = [t \in Tickets |-> "unissued"]
  /\ job = [t \in Tickets |-> NoJob]
  /\ repeated = {}
  /\ letter = [e \in Letters |-> "unwritten"]
  /\ subject = [e \in Letters |-> NoJob]

Issued(t, j) == ticket[t] # "unissued" /\ job[t] = j

Twice(j) == \E t, u \in Tickets : t # u /\ Issued(t, j) /\ Issued(u, j)
Again(j) == \E t \in repeated : Issued(t, j)

Writes(j, st) == status' = [status EXCEPT ![j] = st]

\* Who holds an open ticket writes the status of its job, but lets an end stand
\* unless the job has come again.
Tells(t, st) ==
  /\ ticket[t] = "open"
  /\ status[job[t]] \in {"COMPLETED", "FAILED"} =>
       st = status[job[t]] \/ Twice(job[t]) \/ Again(job[t])
  /\ Writes(job[t], st)
  /\ UNCHANGED <<job, repeated, letters>>

Turns(t, from, to) ==
  /\ ticket[t] = from
  /\ ticket' = [ticket EXCEPT ![t] = to]

Issues(t, j) ==
  /\ Turns(t, "unissued", "open")
  /\ job' = [job EXCEPT ![t] = j]
  /\ UNCHANGED <<status, repeated>>

-----------------------------------------------------------------------------
Submit(j) == status[j] = "NONE" /\ Writes(j, "PENDING") /\ UNCHANGED <<tickets, letters>>

Cancel(j) == status[j] # "NONE" /\ Writes(j, "CANCELLED") /\ UNCHANGED <<tickets, letters>>

\* The first ticket of a job that was submitted.
Issue(t, j) ==
  /\ status[j] # "NONE"
  /\ ~\E u \in Tickets : Issued(u, j)
  /\ Issues(t, j)
  /\ UNCHANGED letters

Work(t) ==
  /\ \E st \in {"RUNNING", "RETRYING"} : Tells(t, st)
  /\ UNCHANGED ticket

Complete(t) == Tells(t, "COMPLETED") /\ Turns(t, "open", "ending")

\* A job that is given up owes a letter, which is the next thing to be written.
GiveUp(t) == Tells(t, "FAILED") /\ Turns(t, "open", "owing")

WriteLetter(t, e) ==
  /\ letter[e] = "unwritten"
  /\ Turns(t, "owing", "ending")
  /\ letter' = [letter EXCEPT ![e] = "there"]
  /\ subject' = [subject EXCEPT ![e] = job[t]]
  /\ UNCHANGED <<status, job, repeated>>

\* A ticket is given back after the job's end, or when the job was cancelled; one
\* that something went wrong with is kept.
GiveBack(t) ==
  /\ \/ Turns(t, "ending", "closed")
     \/ Turns(t, "open", "closed") /\ status[job[t]] = "CANCELLED"
     \/ \E from \in {"open", "owing", "ending"} : Turns(t, from, "kept")
  /\ UNCHANGED <<status, job, repeated, letters>>

\* A crash: no ticket gets lost, but what was owed is forgotten.
Interrupt ==
  /\ UNCHANGED <<status, job, repeated, letters>>
  /\ ticket' = [t \in Tickets |-> IF ticket[t] \in {"owing", "ending"} THEN "open" ELSE ticket[t]]

TakeUpAgain(t) ==
  /\ ticket[t] = "open"
  /\ repeated' = repeated \union {t}
  /\ UNCHANGED <<status, ticket, job, letters>>

\* An operator answers a letter with a new ticket, ...
Reissue(t, e) ==
  /\ letter[e] # "unwritten"
  /\ Issues(t, subject[e])
  /\ letter' = [letter EXCEPT ![e] = IF @ = "there" THEN "answered" ELSE @]
  /\ UNCHANGED subject

\* ... and throws the letter away, or breaks off and leaves it there.
Settle(e, to) ==
  /\ letter[e] = "answered"
  /\ letter' = [letter EXCEPT ![e] = to]
  /\ UNCHANGED <<status, tickets, subject>>

\* Only a job that has come again starts over.
Reset(j) == Twice(j) /\ Writes(j, "PENDING") /\ UNCHANGED <<tickets, letters>>

Next ==
  \/ Interrupt
  \/ \E j \in Jobs : Submit(j) \/ Cancel(j) \/ Reset(j) \/ \E t \in Tickets : Issue(t, j)
  \/ \E t \in Tickets : Work(t) \/ Complete(t) \/ GiveUp(t) \/ GiveBack(t) \/ TakeUpAgain(t)
  \/ \E t \in Tickets, e \in Letters : WriteLetter(t, e) \/ Reissue(t, e)
  \/ \E e \in Letters, to \in {"there", "gone"} : Settle(e, to)

Spec == Init /\ [][Next]_contract
-----------------------------------------------------------------------------
(* What follows from it *)

\* A job in progress has a ticket that was not given back.
Held ==
  \A j \in Jobs : status[j] \in {"RUNNING", "RETRYING"} =>
    \E t \in Tickets : job[t] = j /\ ticket[t] \in {"open", "kept"}

\* A job that was given up has a letter, or a ticket that is open, owes a letter
\* or is kept.
Recoverable ==
  \A j \in Jobs : status[j] = "FAILED" =>
    \/ \E e \in Letters : subject[e] = j /\ letter[e] = "there"
    \/ \E t \in Tickets : job[t] = j /\ ticket[t] \in {"open", "owing", "kept"}
=============================================================================
