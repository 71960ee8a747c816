----------------------------- MODULE Dashboard -----------------------------
(***************************************************************************)
(* One browser with the dashboard: pages that show what the API answered   *)
(* some time ago, refresh it, and let the operator act on it.  The cache   *)
(* and the mutations are those of TanStack Query with the options of       *)
(* providers.tsx; the server is what the pages ask it for, and others      *)
(* change it meanwhile.                                                    *)
(*                                                                         *)
(* A page's data is the set of things its action has been done to: the     *)
(* workflows with a job of the filtered status, incidents resolved, dead-  *)
(* letter entries gone, services set to one status.                        *)
(***************************************************************************)
EXTENDS Naturals

CONSTANTS
  Pages,       \* the pages the operator opens
  Things,      \* workflows to run, incidents, entries, services
  ClickCount,  \* bound: clicks of the operator, numbered as they come
  MaxEvents,   \* bound: changes made by others, and of the page
  MaxFaults,   \* bound: requests that fail or take longer than 15 s
  Nothing      \* not a thing

\* The dashboard itself, a job and the list of workflows only show.
AllPages == {"overview", "jobs", "incidents", "dlq", "services"}

Clicks == 1..ClickCount

ASSUME DashboardAssumption ==
  /\ ClickCount \in Nat /\ Pages \subseteq AllPages
  /\ MaxEvents \in Nat /\ MaxFaults \in Nat
  /\ Nothing \notin Things

VARIABLES
  server,   \* the data of each page as the API would answer now
  cache,    \* the query of each page
  page,     \* the mounted one
  click,    \* the mutation each click starts
  requeued, \* how often the API re-queued each entry for this browser
  events, faults

vars == <<server, cache, page, click, requeued, events, faults>>

Acting == Pages \ {"overview"}

\* onSuccess of the dead-letter page returns nothing, the others the promise of
\* the refetch, and a mutation is pending until what onSuccess returns settles.
AwaitsRefetch(p) == p # "dlq"

Queries == [data : SUBSET Things, loaded : BOOLEAN, fetch : {"none", "sent", "read"},
            snapshot : SUBSET Things, failed : BOOLEAN, invalid : BOOLEAN]
\* `net` is where the request is, `ui` what the page that sent it knows; `stayed`
\* says that the page has been mounted since.
Mutated == [net : {"idle", "sent", "found", "gone", "handled"},
            ui : {"idle", "pending", "settling", "done", "failed"},
            page : Pages, thing : Things \union {Nothing}, stayed : BOOLEAN]

InFlight(c) == click[c].ui \in {"pending", "settling"}

\* The page on the screen has at most one mutation under way.
TypeOK ==
  /\ server \in [Pages -> SUBSET Things]
  /\ cache \in [Pages -> Queries]
  /\ page \in Pages
  /\ click \in [Clicks -> Mutated]
  /\ \A c, d \in Clicks : InFlight(c) /\ InFlight(d) /\ click[c].stayed /\ click[d].stayed => c = d
  /\ requeued \in [Things -> Nat]
  /\ events \in 0..MaxEvents /\ faults \in 0..MaxFaults

NoQuery == [data |-> {}, loaded |-> FALSE, fetch |-> "none", snapshot |-> {},
            failed |-> FALSE, invalid |-> FALSE]

Init ==
  /\ server = [p \in Pages |-> {}]
  /\ page \in Pages
  /\ cache = [p \in Pages |-> [NoQuery EXCEPT !.fetch = IF p = page THEN "sent" ELSE @]]
  /\ click = [c \in Clicks |-> [net |-> "idle", ui |-> "idle", page |-> page,
                                thing |-> Nothing, stayed |-> TRUE]]
  /\ requeued = [x \in Things |-> 0]
  /\ events = 0 /\ faults = 0

Event ==
  /\ events < MaxEvents
  /\ events' = events + 1

Fault ==
  /\ faults < MaxFaults
  /\ faults' = faults + 1

-----------------------------------------------------------------------------
(* Queries *)

\* Who waits for a refetch of p has waited enough, also when it was cancelled
\* or failed.
Settled(p) ==
  [c \in Clicks |-> IF click[c].ui = "settling" /\ click[c].page = p
                    THEN [click[c] EXCEPT !.ui = "done"] ELSE click[c]]

\* Mutant of Poll: no refetchInterval.
PollOnce ==
  /\ cache[page].fetch = "none" /\ ~cache[page].loaded
  /\ cache' = [cache EXCEPT ![page].fetch = "sent"]
  /\ UNCHANGED <<server, page, click, requeued, events, faults>>

\* refetchInterval, for the mounted query
Poll ==
  /\ cache[page].fetch = "none"
  /\ cache' = [cache EXCEPT ![page].fetch = "sent"]
  /\ UNCHANGED <<server, page, click, requeued, events, faults>>

Read(p) ==
  /\ cache[p].fetch = "sent"
  /\ cache' = [cache EXCEPT ![p].fetch = "read", ![p].snapshot = server[p]]
  /\ UNCHANGED <<server, page, click, requeued, events, faults>>

Fetched(p) ==
  /\ cache[p].fetch = "read"
  /\ cache' = [cache EXCEPT ![p] = [NoQuery EXCEPT !.data = cache[p].snapshot, !.loaded = TRUE]]
  /\ click' = Settled(p)
  /\ UNCHANGED <<server, page, requeued, events, faults>>

\* The last retry fails as well; the page keeps the data it has.
FetchFails(p) ==
  /\ cache[p].fetch # "none"
  /\ Fault
  /\ cache' = [cache EXCEPT ![p].fetch = "none", ![p].snapshot = {}, ![p].failed = TRUE]
  /\ click' = Settled(p)
  /\ UNCHANGED <<server, page, requeued, events>>

\* The mutations of the page left live on, but nobody shows that they do.  The
\* new page fetches, unless its data is younger than staleTime and still valid.
Navigate(p) ==
  /\ p # page /\ Event
  /\ page' = p
  /\ click' = [c \in Clicks |-> IF click[c].ui \in {"pending", "settling"}
                                THEN [click[c] EXCEPT !.stayed = FALSE] ELSE click[c]]
  /\ \/ cache' = [cache EXCEPT ![p].fetch = IF @ = "none" THEN "sent" ELSE @]
     \/ cache[p].loaded /\ ~cache[p].invalid /\ UNCHANGED cache
  /\ UNCHANGED <<server, requeued, faults>>

-----------------------------------------------------------------------------
(* Mutations *)

NextClick(c) == click[c].ui = "idle" /\ \A d \in Clicks : d < c => click[d].ui # "idle"

IsPending(p) == \E c \in Clicks : InFlight(c) /\ click[c].page = p /\ click[c].stayed

\* The button of x is there: a workflow can be run whatever jobs are shown.
Offered(p, x) == p = "jobs" \/ (cache[p].loaded /\ x \notin cache[p].data)
Enabled(p, x) == page = p /\ Offered(p, x) /\ ~IsPending(p)

\* Mutant of Click: nothing is disabled while the first one is pending.
ClickAgain(c) ==
  /\ NextClick(c) /\ page \in Acting
  /\ \E x \in Things :
       /\ Offered(page, x)
       /\ click' = [click EXCEPT ![c] = [net |-> "sent", ui |-> "pending", page |-> page,
                                         thing |-> x, stayed |-> TRUE]]
  /\ UNCHANGED <<server, cache, page, requeued, events, faults>>

Click(c) ==
  /\ NextClick(c) /\ page \in Acting
  /\ \E x \in Things :
       /\ Enabled(page, x)
       /\ click' = [click EXCEPT ![c] = [net |-> "sent", ui |-> "pending", page |-> page,
                                         thing |-> x, stayed |-> TRUE]]
  /\ UNCHANGED <<server, cache, page, requeued, events, faults>>

\* DeadLetterService.retry looks the entry up first.
FindEntry(c) ==
  /\ click[c].net = "sent" /\ click[c].page = "dlq"
  /\ click' = [click EXCEPT ![c].net = IF click[c].thing \in server["dlq"] THEN "gone" ELSE "found"]
  /\ UNCHANGED <<server, cache, page, requeued, events, faults>>

Handle(c) ==
  /\ click[c].net = IF click[c].page = "dlq" THEN "found" ELSE "sent"
  /\ click' = [click EXCEPT ![c].net = "handled"]
  /\ server' = [server EXCEPT ![click[c].page] = @ \union {click[c].thing}]
  /\ requeued' = IF click[c].page = "dlq" THEN [requeued EXCEPT ![click[c].thing] = @ + 1]
                                          ELSE requeued
  /\ UNCHANGED <<cache, page, events, faults>>

\* What onSuccess invalidates: the page's query, and after a Retry the jobs too.
Invalidated(p) == IF p = "dlq" THEN {"dlq", "jobs"} ELSE {p}

\* What they become, the mounted one being fetched if `anew' holds.
Invalid(queries, anew) ==
  [q \in Pages |->
     IF q \notin queries THEN cache[q]
     ELSE [cache[q] EXCEPT !.invalid = TRUE, !.fetch = IF q = page /\ anew THEN "sent" ELSE @]]

\* Who started the mutation waits for the refetch of the page it is still on.
Follows(c) == IF click[c].page = page /\ AwaitsRefetch(page) THEN "settling" ELSE "done"

\* Mutant of Succeeds: a fetch that is under way is left alone.
SucceedsAndJoins(c) ==
  /\ click[c].ui = "pending" /\ click[c].net = "handled"
  /\ cache' = Invalid(Invalidated(click[c].page), cache[page].fetch = "none")
  /\ click' = [click EXCEPT ![c].ui = Follows(c)]
  /\ UNCHANGED <<server, page, requeued, events, faults>>

\* onSuccess: the queries are invalid, and fetched anew if mounted; a fetch under
\* way is cancelled, unless it is the first one.
Succeeds(c) ==
  /\ click[c].ui = "pending" /\ click[c].net = "handled"
  /\ LET queries == Invalidated(click[c].page)
         anew == cache[page].loaded \/ cache[page].fetch = "none"
     IN /\ cache' = Invalid(queries, anew)
        /\ click' = [(IF page \in queries /\ anew THEN Settled(page) ELSE click)
                       EXCEPT ![c].ui = Follows(c)]
  /\ UNCHANGED <<server, page, requeued, events, faults>>

\* An error answer, a lost one, or none within 15 s while the API goes on.
Fails(c) ==
  /\ click[c].ui = "pending"
  /\ IF click[c].net = "gone" THEN UNCHANGED faults ELSE Fault
  /\ click' = [click EXCEPT ![c].ui = "failed"]
  /\ UNCHANGED <<server, cache, page, requeued, events>>

-----------------------------------------------------------------------------

\* Others do the same, or set a service back; a job leaves the filtered status.
ChangeElsewhere ==
  /\ Event
  /\ \E p \in Pages, x \in Things :
       \/ server' = [server EXCEPT ![p] = @ \union {x}]
       \/ p \in {"services", "overview", "jobs"} /\ server' = [server EXCEPT ![p] = @ \ {x}]
  /\ UNCHANGED <<cache, page, click, requeued, faults>>

Next ==
  \/ Poll \/ ChangeElsewhere
  \/ \E p \in Pages : Read(p) \/ Fetched(p) \/ FetchFails(p) \/ Navigate(p)
  \/ \E c \in Clicks : Click(c) \/ FindEntry(c) \/ Handle(c) \/ Succeeds(c) \/ Fails(c)

Spec == Init /\ [][Next]_vars

\* The timer of the mounted query fires, the API answers.
FairSpec ==
  /\ Spec
  /\ WF_vars(Poll)
  /\ \A p \in Pages : WF_vars(Read(p)) /\ WF_vars(Fetched(p))

-----------------------------------------------------------------------------

\* One operator has an entry re-queued twice only after a request was given up
\* (15 s) or the page was left while it was pending: the stale list with its
\* Retry button is harmless, because the entry is gone (dead-letter 19-25, 70-74).
RequeuedOnce ==
  \A x \in Things : requeued[x] > 1 =>
    \E c \in Clicks : /\ click[c].page = "dlq" /\ click[c].thing = x
                      /\ click[c].ui = "failed" \/ ~click[c].stayed

\* Who stays on the incidents page until Resolve has succeeded is not offered it
\* again, whatever fetches were under way, unless the refetch failed or another
\* one runs; a list once fetched after it stays so (incidents 19-22, 71-76).
ResolvedIsNotOffered ==
  \A c \in Clicks :
    /\ click[c].ui = "done" /\ click[c].stayed /\ click[c].page = "incidents"
    /\ Enabled("incidents", click[c].thing)
    => cache["incidents"].failed \/ cache["incidents"].fetch # "none"

\* When nothing changes any more, the page on the screen shows the server's data
\* ("Auto-refresh every 10s", page.tsx 92), with no event from the server.
ViewsCatchUp == <>[](cache[page].data = server[page])
=============================================================================
