-------------------------- MODULE DashboardProofs --------------------------
(***************************************************************************)
(* Proofs about Dashboard, for any pages, things, clicks, changes made by  *)
(* others, and faults.                                                     *)
(*                                                                         *)
(* The argument: a click that is under way and whose page was never left   *)
(* belongs to the page on the screen, which disables its buttons meanwhile *)
(* (Placed); a fetch that could overwrite what a click has done was sent   *)
(* or cancelled after it (Shown); and only one request at a time looks at  *)
(* an entry unless one was given up or left behind (Counted).              *)
(***************************************************************************)
EXTENDS Dashboard, TLAPS

Placed(c) ==
  /\ click[c].net = "idle" <=> click[c].ui = "idle"
  /\ click[c].ui = "idle" => click[c].stayed
  /\ click[c].net # "idle" =>
       /\ click[c].thing \in Things
       /\ click[c].page = "jobs" \/ cache[click[c].page].loaded
  /\ InFlight(c) /\ click[c].stayed => click[c].page = page
  /\ click[c].net \in {"found", "gone"} => click[c].page = "dlq"
  /\ click[c].ui \in {"settling", "done"} => click[c].net = "handled"
  /\ click[c].net = "handled" /\ click[c].page = "incidents"
       => click[c].thing \in server["incidents"]

\* What a click on Resolve has done is in the list, or will be after a fetch
\* that was not there when it was done.
Shown(c) ==
  click[c].ui \in {"settling", "done"} /\ click[c].stayed /\ click[c].page = "incidents" =>
    LET query == cache["incidents"] IN
    /\ query.fetch = "read" => click[c].thing \in query.snapshot
    /\ click[c].ui = "done" =>
         click[c].thing \in query.data \/ query.failed \/ query.fetch # "none"

\* No request for x was given up, nor its page left meanwhile.
Attended(x) == \A c \in Clicks :
  click[c].page = "dlq" /\ click[c].thing = x => click[c].ui # "failed" /\ click[c].stayed

Counted(x) == Attended(x) =>
  \/ requeued[x] = 0
  \/ /\ requeued[x] = 1 /\ "dlq" \in Pages /\ x \in server["dlq"]
     /\ \A c \in Clicks : click[c].page = "dlq" /\ click[c].thing = x => click[c].net # "found"

IInv ==
  /\ TypeOK
  /\ \A c \in Clicks : Placed(c) /\ Shown(c)
  /\ \A x \in Things : Counted(x)

-----------------------------------------------------------------------------
(* Steps that leave the clicks as they are, or let them go on *)

\* What a step may do to a click that it is not about.
Onward(c) ==
  /\ click'[c].net = click[c].net /\ click'[c].page = click[c].page
  /\ click'[c].thing = click[c].thing /\ click'[c].stayed = click[c].stayed
  /\ click'[c].ui = click[c].ui \/ (click[c].ui = "settling" /\ click'[c].ui = "done")

\* Fetches and their settling keep everything but what the list shows.
LEMMA FetchStep ==
  ASSUME IInv, cache' \in [Pages -> Queries], click' \in [Clicks -> Mutated],
         \A c \in Clicks : Onward(c), UNCHANGED <<server, page, requeued>>,
         events' \in 0..MaxEvents, faults' \in 0..MaxFaults,
         \A p \in Pages : cache[p].loaded => cache'[p].loaded,
         \A c \in Clicks : Shown(c)'
  PROVE  IInv'
<1>1. TypeOK'
  BY DEF IInv, TypeOK, Onward, InFlight
<1>2. \A c \in Clicks : Placed(c)'
  <2> SUFFICES ASSUME NEW c \in Clicks
               PROVE  Placed(c)'
    OBVIOUS
  <2>1. Placed(c) /\ Onward(c) /\ click[c] \in Mutated
    BY DEF IInv, TypeOK
  <2>2. click[c].page \in Pages
    BY <2>1 DEF Mutated
  <2> QED BY <2>1, <2>2 DEF Placed, Onward, InFlight
<1>3. \A x \in Things : Counted(x)'
  <2> SUFFICES ASSUME NEW x \in Things
               PROVE  Counted(x)'
    OBVIOUS
  <2>1. Counted(x) /\ \A c \in Clicks : Placed(c) /\ Onward(c)
    BY DEF IInv
  <2>2. Attended(x)' => Attended(x)
    BY <2>1 DEF Attended, Onward
  <2> QED BY <2>1, <2>2 DEF Counted, Onward
<1> QED BY <1>1, <1>2, <1>3 DEF IInv

\* Who waits for a refetch.
LEMMA SettledEffect ==
  ASSUME TypeOK, NEW p \in Pages
  PROVE  /\ Settled(p) \in [Clicks -> Mutated]
         /\ \A c \in Clicks :
              /\ Settled(p)[c].net = click[c].net /\ Settled(p)[c].page = click[c].page
              /\ Settled(p)[c].thing = click[c].thing /\ Settled(p)[c].stayed = click[c].stayed
              /\ Settled(p)[c].ui = IF click[c].ui = "settling" /\ click[c].page = p
                                    THEN "done" ELSE click[c].ui
<1>1. click \in [Clicks -> Mutated]
  BY DEF TypeOK
<1>2. ASSUME NEW c \in Clicks
      PROVE  /\ [click[c] EXCEPT !.ui = "done"] \in Mutated
             /\ [click[c] EXCEPT !.ui = "done"].ui = "done"
  BY <1>1, <1>2 DEF Mutated
<1>3. ASSUME NEW c \in Clicks
      PROVE  Settled(p)[c] = IF click[c].ui = "settling" /\ click[c].page = p
                             THEN [click[c] EXCEPT !.ui = "done"] ELSE click[c]
  BY DEF Settled
<1>4. Settled(p) \in [Clicks -> Mutated]
  BY <1>1, <1>2 DEF Settled
<1>5. ASSUME NEW c \in Clicks
      PROVE  /\ Settled(p)[c].net = click[c].net /\ Settled(p)[c].page = click[c].page
             /\ Settled(p)[c].thing = click[c].thing /\ Settled(p)[c].stayed = click[c].stayed
             /\ Settled(p)[c].ui = IF click[c].ui = "settling" /\ click[c].page = p
                                   THEN "done" ELSE click[c].ui
  BY <1>1, <1>2, <1>3, <1>5 DEF Mutated
<1> QED BY <1>4, <1>5

\* The query of one page changes.
LEMMA QueryEffect ==
  ASSUME TypeOK, NEW p \in Pages, NEW query \in Queries,
         cache' = [cache EXCEPT ![p] = query]
  PROVE  /\ cache' \in [Pages -> Queries] /\ cache'[p] = query
         /\ \A q \in Pages \ {p} : cache'[q] = cache[q]
BY DEF TypeOK

LEMMA PollStep ==
  ASSUME IInv, Poll
  PROVE  IInv'
<1> DEFINE query == [cache[page] EXCEPT !.fetch = "sent"]
<1>1. TypeOK /\ page \in Pages /\ UNCHANGED <<server, page, click, requeued, events, faults>>
  BY DEF IInv, TypeOK, Poll
<1>2. cache' = [cache EXCEPT ![page] = query]
  BY <1>1 DEF Poll, TypeOK
<1>3. query \in Queries /\ query.loaded = cache[page].loaded /\ query.fetch = "sent"
  BY <1>1 DEF TypeOK, Queries
<1> HIDE DEF query
<1>4. /\ cache' \in [Pages -> Queries] /\ cache'[page] = query
      /\ \A q \in Pages \ {page} : cache'[q] = cache[q]
  BY <1>1, <1>2, <1>3, QueryEffect
<1>5. \A c \in Clicks : Shown(c)'
  <2> SUFFICES ASSUME NEW c \in Clicks
               PROVE  Shown(c)'
    OBVIOUS
  <2>1. Shown(c) /\ click[c].page \in Pages
    BY <1>1 DEF IInv, TypeOK, Mutated
  <2> QED BY <1>1, <1>3, <1>4, <2>1 DEF Shown
<1>6. \A q \in Pages : cache[q].loaded => cache'[q].loaded
  BY <1>3, <1>4
<1> QED BY <1>1, <1>4, <1>5, <1>6, FetchStep DEF Onward, TypeOK

LEMMA ReadStep ==
  ASSUME IInv, NEW p \in Pages, Read(p)
  PROVE  IInv'
<1> DEFINE query == [cache[p] EXCEPT !.fetch = "read", !.snapshot = server[p]]
<1>1. TypeOK
  BY DEF IInv
<1>2. cache' = [cache EXCEPT ![p] = query]
  BY <1>1 DEF Read, TypeOK
<1>3. /\ query \in Queries /\ query.loaded = cache[p].loaded
      /\ query.fetch = "read" /\ query.snapshot = server[p]
  BY <1>1 DEF TypeOK, Queries
<1> HIDE DEF query
<1>4. /\ cache' \in [Pages -> Queries] /\ cache'[p] = query
      /\ \A q \in Pages \ {p} : cache'[q] = cache[q]
  BY <1>1, <1>2, <1>3, QueryEffect
<1>5. \A c \in Clicks : Shown(c)'
  <2> SUFFICES ASSUME NEW c \in Clicks
               PROVE  Shown(c)'
    OBVIOUS
  <2>1. Shown(c) /\ Placed(c) /\ click[c].page \in Pages /\ click' = click
    BY <1>1 DEF IInv, TypeOK, Mutated, Read
  <2> QED BY <1>3, <1>4, <2>1 DEF Shown, Placed
<1>6. \A q \in Pages : cache[q].loaded => cache'[q].loaded
  BY <1>3, <1>4
<1> QED BY <1>1, <1>4, <1>5, <1>6, FetchStep DEF Read, Onward, TypeOK

LEMMA FetchedStep ==
  ASSUME IInv, NEW p \in Pages, Fetched(p)
  PROVE  IInv'
<1> DEFINE query == [NoQuery EXCEPT !.data = cache[p].snapshot, !.loaded = TRUE]
<1>1. TypeOK /\ cache[p].fetch = "read" /\ click' = Settled(p)
      /\ UNCHANGED <<server, page, requeued, events, faults>>
  BY DEF IInv, Fetched
<1>2. cache' = [cache EXCEPT ![p] = query]
  BY DEF Fetched
<1>3. query \in Queries /\ query.loaded /\ query.fetch = "none" /\ query.data = cache[p].snapshot
  BY <1>1 DEF TypeOK, Queries, NoQuery
<1> HIDE DEF query
<1>4. /\ cache' \in [Pages -> Queries] /\ cache'[p] = query
      /\ \A q \in Pages \ {p} : cache'[q] = cache[q]
  BY <1>1, <1>2, <1>3, QueryEffect
<1>5. click' \in [Clicks -> Mutated] /\ \A c \in Clicks : Onward(c)
  BY <1>1, SettledEffect DEF Onward
<1>6. \A c \in Clicks : Shown(c)'
  <2> SUFFICES ASSUME NEW c \in Clicks
               PROVE  Shown(c)'
    OBVIOUS
  <2>1. Shown(c) /\ click[c].page \in Pages
    BY <1>1 DEF IInv, TypeOK, Mutated
  <2>2. click[c].page # p => click'[c].ui = click[c].ui
    BY <1>1, SettledEffect
  <2>3. Onward(c)
    BY <1>5
  <2> QED BY <1>1, <1>3, <1>4, <2>1, <2>2, <2>3 DEF Shown, Onward
<1>7. \A q \in Pages : cache[q].loaded => cache'[q].loaded
  BY <1>3, <1>4
<1> QED BY <1>1, <1>4, <1>5, <1>6, <1>7, FetchStep DEF TypeOK

LEMMA FetchFailsStep ==
  ASSUME IInv, NEW p \in Pages, FetchFails(p)
  PROVE  IInv'
<1> DEFINE query == [cache[p] EXCEPT !.fetch = "none", !.snapshot = {}, !.failed = TRUE]
<1>1. TypeOK /\ click' = Settled(p) /\ UNCHANGED <<server, page, requeued, events>>
  BY DEF IInv, FetchFails
<1>2. cache' = [cache EXCEPT ![p] = query]
  BY <1>1 DEF FetchFails, TypeOK
<1>3. query \in Queries /\ query.loaded = cache[p].loaded /\ query.fetch = "none" /\ query.failed
  BY <1>1 DEF TypeOK, Queries
<1> HIDE DEF query
<1>4. /\ cache' \in [Pages -> Queries] /\ cache'[p] = query
      /\ \A q \in Pages \ {p} : cache'[q] = cache[q]
  BY <1>1, <1>2, <1>3, QueryEffect
<1>5. click' \in [Clicks -> Mutated] /\ \A c \in Clicks : Onward(c)
  BY <1>1, SettledEffect DEF Onward
<1>6. \A c \in Clicks : Shown(c)'
  <2> SUFFICES ASSUME NEW c \in Clicks
               PROVE  Shown(c)'
    OBVIOUS
  <2>1. Shown(c) /\ click[c].page \in Pages
    BY <1>1 DEF IInv, TypeOK, Mutated
  <2>2. click[c].page # p => click'[c].ui = click[c].ui
    BY <1>1, SettledEffect
  <2>3. Onward(c)
    BY <1>5
  <2> QED BY <1>1, <1>3, <1>4, <2>1, <2>2, <2>3 DEF Shown, Onward
<1>7. \A q \in Pages : cache[q].loaded => cache'[q].loaded
  BY <1>3, <1>4
<1>8. faults' \in 0..MaxFaults /\ events' \in 0..MaxEvents
  BY <1>1, DashboardAssumption DEF FetchFails, Fault, TypeOK
<1> QED BY <1>1, <1>4, <1>5, <1>6, <1>7, <1>8, FetchStep

-----------------------------------------------------------------------------
(* Steps of a click, and changes made elsewhere *)

\* One click moves, the others go on.
ClickMoved(c, net, ui) ==
  /\ click' \in [Clicks -> Mutated]
  /\ click'[c].net = net /\ click'[c].ui = ui
  /\ click'[c].page = click[c].page /\ click'[c].thing = click[c].thing
  /\ click'[c].stayed = click[c].stayed
  /\ \A d \in Clicks \ {c} : Onward(d)

LEMMA NetEffect ==
  ASSUME TypeOK, NEW c \in Clicks, NEW net \in {"found", "gone", "handled"},
         click' = [click EXCEPT ![c].net = net]
  PROVE  ClickMoved(c, net, click[c].ui) /\ \A d \in Clicks \ {c} : click'[d] = click[d]
<1>1. click' = [click EXCEPT ![c] = [click[c] EXCEPT !.net = net]]
  BY DEF TypeOK
<1>2. [click[c] EXCEPT !.net = net] \in Mutated
  BY DEF TypeOK, Mutated
<1>3. click' \in [Clicks -> Mutated] /\ \A d \in Clicks \ {c} : click'[d] = click[d]
  BY <1>1, <1>2 DEF TypeOK
<1> QED BY <1>1, <1>3 DEF ClickMoved, Onward, TypeOK, Mutated

LEMMA UiTyped ==
  ASSUME NEW old \in Mutated, NEW ui \in {"settling", "done", "failed"}
  PROVE  [old EXCEPT !.ui = ui] \in Mutated
BY DEF Mutated

LEMMA UiEffect ==
  ASSUME TypeOK, NEW c \in Clicks, NEW ui \in {"settling", "done", "failed"},
         NEW from \in [Clicks -> Mutated],
         \A d \in Clicks \ {c} : /\ from[d].net = click[d].net /\ from[d].page = click[d].page
                                 /\ from[d].thing = click[d].thing
                                 /\ from[d].stayed = click[d].stayed
                                 /\ \/ from[d].ui = click[d].ui
                                    \/ click[d].ui = "settling" /\ from[d].ui = "done",
         from[c] = click[c], click' = [from EXCEPT ![c].ui = ui]
  PROVE  ClickMoved(c, click[c].net, ui)
<1>1. click' = [from EXCEPT ![c] = [click[c] EXCEPT !.ui = ui]]
  OBVIOUS
<1>2. [click[c] EXCEPT !.ui = ui] \in Mutated
  BY UiTyped DEF TypeOK
<1>3. click' \in [Clicks -> Mutated] /\ \A d \in Clicks \ {c} : click'[d] = from[d]
  BY <1>1, <1>2
<1>4. click'[c] = [click[c] EXCEPT !.ui = ui] /\ click[c] \in Mutated
  BY <1>1 DEF TypeOK
<1> QED BY <1>3, <1>4 DEF ClickMoved, Onward, Mutated

\* A click that moves, and does not start, keeps at most one under way.
LEMMA MovedStep ==
  ASSUME IInv, NEW c \in Clicks, NEW net, NEW ui, ClickMoved(c, net, ui), page' = page,
         ui \in {"pending", "settling"} => InFlight(c),
         server' \in [Pages -> SUBSET Things], cache' \in [Pages -> Queries],
         requeued' \in [Things -> Nat], UNCHANGED events, faults' \in 0..MaxFaults,
         \A p \in Pages : cache[p].loaded => cache'[p].loaded,
         "incidents" \in Pages => server["incidents"] \subseteq server'["incidents"],
         Placed(c)', \A d \in Clicks : Shown(d)', \A x \in Things : Counted(x)'
  PROVE  IInv'
<1>1. TypeOK'
  BY DEF IInv, TypeOK, ClickMoved, Onward, InFlight
<1>2. \A d \in Clicks \ {c} : Placed(d)'
  <2> SUFFICES ASSUME NEW d \in Clicks \ {c}
               PROVE  Placed(d)'
    OBVIOUS
  <2>1. Placed(d) /\ Onward(d) /\ click[d] \in Mutated
    BY DEF IInv, TypeOK, ClickMoved
  <2>2. click[d].page \in Pages
    BY <2>1 DEF Mutated
  <2> QED BY <2>1, <2>2 DEF Placed, Onward, InFlight
<1> QED BY <1>1, <1>2 DEF IInv

LEMMA FindEntryStep ==
  ASSUME IInv, NEW c \in Clicks, FindEntry(c)
  PROVE  IInv'
<1>1. /\ TypeOK /\ Placed(c) /\ click[c].net = "sent" /\ click[c].page = "dlq"
      /\ UNCHANGED <<server, cache, page, requeued, events, faults>>
  BY DEF IInv, FindEntry
<1>2. PICK net \in {"found", "gone"} :
        /\ click' = [click EXCEPT ![c].net = net]
        /\ net = "found" => click[c].thing \notin server["dlq"]
  BY DEF FindEntry
<1>3. ClickMoved(c, net, click[c].ui) /\ \A d \in Clicks \ {c} : click'[d] = click[d]
  BY <1>1, <1>2, NetEffect
<1>4. Placed(c)'
  BY <1>1, <1>3 DEF Placed, ClickMoved, InFlight
<1>5. \A d \in Clicks : Shown(d)'
  BY <1>1, <1>3 DEF IInv, Shown, ClickMoved
<1>6. \A x \in Things : Counted(x)'
  <2> SUFFICES ASSUME NEW x \in Things
               PROVE  Counted(x)'
    OBVIOUS
  <2>1. Counted(x) /\ Attended(x)' => Attended(x)
    BY <1>3 DEF IInv, Attended, ClickMoved
  <2> QED BY <1>1, <1>2, <1>3, <2>1 DEF IInv, Counted, ClickMoved
<1> QED BY <1>1, <1>3, <1>4, <1>5, <1>6, MovedStep DEF TypeOK, InFlight, Placed, Mutated

LEMMA HandleStep ==
  ASSUME IInv, NEW c \in Clicks, Handle(c)
  PROVE  IInv'
<1>1. /\ TypeOK /\ Placed(c) /\ click[c].page \in Pages
      /\ click[c].net = IF click[c].page = "dlq" THEN "found" ELSE "sent"
      /\ server' = [server EXCEPT ![click[c].page] = @ \union {click[c].thing}]
      /\ UNCHANGED <<cache, page, events, faults>>
  BY DEF IInv, Handle, TypeOK, Mutated
<1>2. ClickMoved(c, "handled", click[c].ui) /\ \A d \in Clicks \ {c} : click'[d] = click[d]
  BY <1>1, NetEffect DEF Handle
<1>3. click[c].thing \in Things /\ click[c].ui \in {"pending", "failed"}
  BY <1>1 DEF Placed, TypeOK, Mutated
<1>4. /\ server' \in [Pages -> SUBSET Things]
      /\ \A p \in Pages : server[p] \subseteq server'[p]
      /\ click[c].thing \in server'[click[c].page]
  BY <1>1, <1>3 DEF TypeOK
<1>5. requeued' \in [Things -> Nat]
  BY <1>1, <1>3 DEF Handle, TypeOK
<1>6. Placed(c)'
  BY <1>1, <1>2, <1>3, <1>4 DEF Placed, ClickMoved, InFlight
<1>7. \A d \in Clicks : Shown(d)'
  BY <1>1, <1>2, <1>3 DEF IInv, Shown, ClickMoved
<1>8. \A x \in Things : Counted(x)'
  <2> SUFFICES ASSUME NEW x \in Things, Attended(x)'
               PROVE  \/ requeued'[x] = 0
                      \/ /\ requeued'[x] = 1 /\ "dlq" \in Pages /\ x \in server'["dlq"]
                         /\ \A d \in Clicks : click'[d].page = "dlq" /\ click'[d].thing = x
                                                => click'[d].net # "found"
    BY DEF Counted
  <2>1. Counted(x) /\ Attended(x)
    BY <1>2 DEF IInv, Attended, ClickMoved
  <2>2. CASE click[c].page = "dlq" /\ click[c].thing = x
    <3>1. requeued[x] = 0 /\ requeued'[x] = 1
      BY <1>1, <1>3, <2>1, <2>2 DEF Counted, Handle, TypeOK
    <3>2. InFlight(c) /\ click[c].stayed
      BY <1>3, <2>1, <2>2 DEF Attended, InFlight
    <3>3. ASSUME NEW d \in Clicks \ {c}, click[d].page = "dlq", click[d].thing = x,
                 click[d].net = "found"
          PROVE  FALSE
      <4>1. Placed(d) /\ click[d].ui # "failed" /\ click[d].stayed /\ click[d] \in Mutated
        BY <1>1, <2>1, <3>3 DEF IInv, Attended, TypeOK
      <4>2. InFlight(d)
        BY <3>3, <4>1 DEF Placed, InFlight, Mutated
      <4> QED BY <1>1, <3>2, <4>1, <4>2 DEF TypeOK
    <3> QED BY <1>1, <1>2, <1>4, <2>2, <3>1, <3>3 DEF ClickMoved
  <2>3. CASE ~(click[c].page = "dlq" /\ click[c].thing = x)
    <3>1. requeued'[x] = requeued[x]
      BY <1>3, <2>3 DEF Handle, IInv, TypeOK
    <3>2. x \in server["dlq"] => x \in server'["dlq"]
      BY <1>1, <1>3, <2>3 DEF TypeOK
    <3> QED BY <1>2, <2>1, <2>3, <3>1, <3>2 DEF Counted, ClickMoved
  <2> QED BY <2>2, <2>3
<1> QED BY <1>1, <1>2, <1>3, <1>4, <1>5, <1>6, <1>7, <1>8, MovedStep DEF TypeOK, InFlight

\* The queries that onSuccess invalidates keep what they have, and only the mounted
\* one is fetched.
LEMMA InvalidEffect ==
  ASSUME TypeOK, NEW queries, NEW anew, cache' = Invalid(queries, anew)
  PROVE  /\ cache' \in [Pages -> Queries]
         /\ \A q \in Pages :
              /\ cache'[q].loaded = cache[q].loaded /\ cache'[q].failed = cache[q].failed
              /\ cache'[q].data = cache[q].data /\ cache'[q].snapshot = cache[q].snapshot
              /\ cache'[q].fetch = IF q \in queries /\ q = page /\ anew
                                   THEN "sent" ELSE cache[q].fetch
<1> SUFFICES ASSUME NEW q \in Pages
             PROVE  /\ Invalid(queries, anew)[q] \in Queries
                    /\ cache'[q].loaded = cache[q].loaded /\ cache'[q].failed = cache[q].failed
                    /\ cache'[q].data = cache[q].data /\ cache'[q].snapshot = cache[q].snapshot
                    /\ cache'[q].fetch = IF q \in queries /\ q = page /\ anew
                                         THEN "sent" ELSE cache[q].fetch
  BY DEF Invalid
<1>1. cache[q] \in Queries
  BY DEF TypeOK
<1>2. CASE q \notin queries
  BY <1>1, <1>2 DEF Invalid
<1>3. CASE q \in queries /\ q = page /\ anew
  <2>1. cache'[q] = [cache[q] EXCEPT !.invalid = TRUE, !.fetch = "sent"]
    BY <1>3 DEF Invalid
  <2>2. Invalid(queries, anew)[q] = [cache[q] EXCEPT !.invalid = TRUE, !.fetch = "sent"]
    BY <1>3 DEF Invalid
  <2> QED BY <1>1, <1>3, <2>1, <2>2 DEF Queries
<1>4. CASE q \in queries /\ ~(q = page /\ anew)
  <2>1. cache'[q] = [cache[q] EXCEPT !.invalid = TRUE, !.fetch = cache[q].fetch]
    BY <1>4 DEF Invalid
  <2>2. Invalid(queries, anew)[q] = [cache[q] EXCEPT !.invalid = TRUE, !.fetch = cache[q].fetch]
    BY <1>4 DEF Invalid
  <2> QED BY <1>1, <1>4, <2>1, <2>2 DEF Queries
<1> QED BY <1>2, <1>3, <1>4

LEMMA SucceedsStep ==
  ASSUME IInv, NEW c \in Clicks, Succeeds(c)
  PROVE  IInv'
<1> DEFINE p == click[c].page
           anew == cache[page].loaded \/ cache[page].fetch = "none"
           again == page \in Invalidated(p) /\ anew
           from == IF again THEN Settled(page) ELSE click
<1>1. /\ TypeOK /\ Placed(c) /\ click[c].ui = "pending" /\ click[c].net = "handled"
      /\ p \in Pages /\ page \in Pages /\ UNCHANGED <<server, page, requeued, events, faults>>
  BY DEF IInv, Succeeds, TypeOK, Mutated
<1>2. /\ cache' \in [Pages -> Queries]
      /\ \A q \in Pages :
           /\ cache'[q].loaded = cache[q].loaded /\ cache'[q].failed = cache[q].failed
           /\ cache'[q].data = cache[q].data /\ cache'[q].snapshot = cache[q].snapshot
           /\ cache'[q].fetch = IF q = page /\ again THEN "sent" ELSE cache[q].fetch
  <2>1. cache' = Invalid(Invalidated(p), anew)
    BY DEF Succeeds
  <2> HIDE DEF anew
  <2> QED BY <1>1, <2>1, InvalidEffect
<1>3. click' = [from EXCEPT ![c].ui = Follows(c)] /\ Follows(c) \in {"settling", "done"}
  BY DEF Succeeds, Follows
<1>4. from \in [Clicks -> Mutated] /\ from[c] = click[c]
  <2>1. CASE ~again
    BY <2>1, <1>1 DEF TypeOK
  <2>2. CASE again
    <3>1. Settled(page)[c] = click[c]
      BY <1>1 DEF Settled
    <3> QED BY <2>2, <3>1, <1>1, SettledEffect
  <2> QED BY <2>1, <2>2
<1>5. \A d \in Clicks \ {c} :
        /\ from[d].net = click[d].net /\ from[d].page = click[d].page
        /\ from[d].thing = click[d].thing /\ from[d].stayed = click[d].stayed
        /\ from[d].ui = click[d].ui \/ (click[d].ui = "settling" /\ from[d].ui = "done")
        /\ from[d].ui # click[d].ui => click[d].page = page /\ again
  <2>1. CASE ~again
    <3>1. from = click
      BY <2>1
    <3> HIDE DEF from
    <3> QED BY <3>1
  <2>2. CASE again
    <3>1. from = Settled(page)
      BY <2>2
    <3> HIDE DEF from
    <3> QED BY <2>2, <3>1, <1>1, SettledEffect
  <2> QED BY <2>1, <2>2
<1>6. again <=> page \in Invalidated(p) /\ (cache[page].loaded \/ cache[page].fetch = "none")
  OBVIOUS
<1> HIDE DEF from, again
<1>9. ClickMoved(c, click[c].net, Follows(c))
  BY <1>1, <1>3, <1>4, <1>5, UiEffect
<1>10. \A d \in Clicks \ {c} : click'[d] = from[d]
  BY <1>3, <1>4
<1>11. Placed(c)'
  BY <1>1, <1>2, <1>3, <1>9 DEF Placed, ClickMoved, InFlight, Follows
<1>12. Shown(c)'
  <2> SUFFICES ASSUME click[c].stayed, p = "incidents"
               PROVE  Shown(c)'
    BY <1>9 DEF Shown, ClickMoved
  <2>1. p = page /\ cache[p].loaded /\ page \in Invalidated(p)
    BY <1>1 DEF Placed, InFlight, Invalidated
  <2>2. cache'["incidents"].fetch = "sent"
    BY <1>1, <1>2, <1>6, <2>1
  <2> QED BY <2>2 DEF Shown
<1>13. \A d \in Clicks \ {c} : Shown(d)'
  <2> SUFFICES ASSUME NEW d \in Clicks \ {c}
               PROVE  Shown(d)'
    OBVIOUS
  <2>1. Shown(d) /\ Onward(d) /\ click[d].page \in Pages
    BY <1>1, <1>9 DEF IInv, ClickMoved, TypeOK, Mutated
  <2>2. click'[d].ui # click[d].ui => click[d].page = page /\ again
    BY <1>5, <1>10
  <2>3. CASE page = "incidents" /\ again
    <3>1. cache'["incidents"].fetch = "sent"
      BY <1>1, <1>2, <2>3
    <3> QED BY <3>1 DEF Shown
  <2>4. CASE ~(page = "incidents" /\ again)
    <3>1. click[d].page = "incidents" => click'[d].ui = click[d].ui
      BY <2>2, <2>4
    <3>2. "incidents" \in Pages =>
            /\ cache'["incidents"].fetch = cache["incidents"].fetch
            /\ cache'["incidents"].data = cache["incidents"].data
            /\ cache'["incidents"].snapshot = cache["incidents"].snapshot
            /\ cache'["incidents"].failed = cache["incidents"].failed
      BY <1>2, <2>4
    <3> QED BY <2>1, <3>1, <3>2 DEF Shown, Onward
  <2> QED BY <2>3, <2>4
<1>14. \A x \in Things : Counted(x)'
  <2> SUFFICES ASSUME NEW x \in Things
               PROVE  Counted(x)'
    OBVIOUS
  <2>1. Counted(x) /\ Attended(x)' => Attended(x)
    BY <1>1, <1>3, <1>9 DEF IInv, Attended, ClickMoved, Onward
  <2> QED BY <1>1, <1>9, <2>1 DEF IInv, Counted, ClickMoved, Onward
<1>15. \A q \in Pages : cache[q].loaded => cache'[q].loaded
  BY <1>2
<1> QED BY <1>1, <1>2, <1>3, <1>9, <1>11, <1>12, <1>13, <1>14, <1>15, MovedStep
        DEF TypeOK, InFlight

LEMMA FailsStep ==
  ASSUME IInv, NEW c \in Clicks, Fails(c)
  PROVE  IInv'
<1>1. /\ TypeOK /\ Placed(c) /\ click[c].ui = "pending"
      /\ click' = [click EXCEPT ![c].ui = "failed"]
      /\ UNCHANGED <<server, cache, page, requeued, events>>
  BY DEF IInv, Fails
<1>2. ClickMoved(c, click[c].net, "failed")
  BY <1>1, UiEffect DEF TypeOK
<1>3. \A d \in Clicks \ {c} : click'[d] = click[d]
  BY <1>1 DEF TypeOK
<1>4. Placed(c)'
  BY <1>1, <1>2 DEF Placed, ClickMoved, InFlight
<1>5. \A d \in Clicks : Shown(d)'
  BY <1>1, <1>2, <1>3 DEF IInv, Shown, ClickMoved
<1>6. \A x \in Things : Counted(x)'
  <2> SUFFICES ASSUME NEW x \in Things
               PROVE  Counted(x)'
    OBVIOUS
  <2>1. Counted(x) /\ Attended(x)' => Attended(x)
    BY <1>1, <1>2 DEF IInv, Attended, ClickMoved, Onward
  <2> QED BY <1>1, <1>2, <2>1 DEF IInv, Counted, ClickMoved, Onward
<1>7. faults' \in 0..MaxFaults
  BY <1>1, DashboardAssumption DEF Fails, Fault, TypeOK
<1> QED BY <1>1, <1>2, <1>4, <1>5, <1>6, <1>7, MovedStep DEF TypeOK, InFlight

LEMMA ClickStep ==
  ASSUME IInv, NEW c \in Clicks, Click(c)
  PROVE  IInv'
<1>1. PICK x \in Things :
        /\ Enabled(page, x)
        /\ click' = [click EXCEPT ![c] = [net |-> "sent", ui |-> "pending", page |-> page,
                                          thing |-> x, stayed |-> TRUE]]
  BY DEF Click
<1>2. /\ TypeOK /\ Placed(c) /\ click[c].ui = "idle" /\ page \in Pages
      /\ UNCHANGED <<server, cache, page, requeued, events, faults>>
  BY DEF IInv, Click, NextClick, TypeOK
<1>3. /\ click' \in [Clicks -> Mutated]
      /\ click'[c] = [net |-> "sent", ui |-> "pending", page |-> page,
                      thing |-> x, stayed |-> TRUE]
      /\ \A d \in Clicks \ {c} : click'[d] = click[d]
  BY <1>1, <1>2 DEF TypeOK, Mutated
<1>4. \A d \in Clicks \ {c} : ~(InFlight(d) /\ click[d].stayed)
  <2> SUFFICES ASSUME NEW d \in Clicks \ {c}, InFlight(d), click[d].stayed
               PROVE  FALSE
    OBVIOUS
  <2>1. click[d].page = page
    BY DEF IInv, Placed
  <2> QED BY <1>1, <2>1 DEF Enabled, IsPending
<1>5. TypeOK'
  BY <1>2, <1>3, <1>4 DEF TypeOK, InFlight
<1>6. Placed(c)'
  BY <1>1, <1>2, <1>3 DEF Placed, InFlight, Enabled, Offered
<1>7. \A d \in Clicks \ {c} : Placed(d)'
  BY <1>2, <1>3 DEF IInv, Placed, InFlight
<1>8. \A d \in Clicks : Shown(d)'
  BY <1>2, <1>3 DEF IInv, Shown
<1>9. \A y \in Things : Counted(y)'
  <2> SUFFICES ASSUME NEW y \in Things
               PROVE  Counted(y)'
    OBVIOUS
  <2>1. Counted(y) /\ Attended(y)' => Attended(y)
    BY <1>2, <1>3 DEF IInv, Attended, Placed
  <2> QED BY <1>2, <1>3, <2>1 DEF IInv, Counted
<1> QED BY <1>5, <1>6, <1>7, <1>8, <1>9 DEF IInv

LEMMA NavigateStep ==
  ASSUME IInv, NEW p \in Pages, Navigate(p)
  PROVE  IInv'
<1>1. TypeOK /\ page' = p /\ UNCHANGED <<server, requeued, faults>>
  BY DEF IInv, Navigate
<1>2. click \in [Clicks -> Mutated]
  BY <1>1 DEF TypeOK
<1>3. ASSUME NEW c \in Clicks
      PROVE  [click[c] EXCEPT !.stayed = FALSE] \in Mutated
  BY <1>2 DEF Mutated
<1>4. \A c \in Clicks : click'[c] = IF InFlight(c) THEN [click[c] EXCEPT !.stayed = FALSE]
                                                   ELSE click[c]
  BY DEF Navigate, InFlight
<1>5. click' \in [Clicks -> Mutated]
  BY <1>2, <1>3 DEF Navigate
<1>6. \A c \in Clicks :
        /\ click'[c].net = click[c].net /\ click'[c].ui = click[c].ui
        /\ click'[c].page = click[c].page /\ click'[c].thing = click[c].thing
        /\ click'[c].stayed <=> click[c].stayed /\ ~InFlight(c)
  BY <1>2, <1>4 DEF Mutated
<1> DEFINE query == [cache[p] EXCEPT !.fetch = IF @ = "none" THEN "sent" ELSE @]
<1>7. /\ query \in Queries /\ query.loaded = cache[p].loaded /\ query.failed = cache[p].failed
      /\ query.data = cache[p].data /\ query.snapshot = cache[p].snapshot
      /\ query.fetch = IF cache[p].fetch = "none" THEN "sent" ELSE cache[p].fetch
  BY <1>1 DEF TypeOK, Queries
<1> HIDE DEF query
<1>8. /\ cache' \in [Pages -> Queries]
      /\ \A q \in Pages :
           /\ cache'[q].loaded = cache[q].loaded /\ cache'[q].failed = cache[q].failed
           /\ cache'[q].data = cache[q].data /\ cache'[q].snapshot = cache[q].snapshot
           /\ cache'[q].fetch = cache[q].fetch
              \/ (cache[q].fetch = "none" /\ cache'[q].fetch = "sent")
  <2>1. CASE cache' = cache
    BY <1>1, <2>1 DEF TypeOK
  <2>2. CASE cache' = [cache EXCEPT ![p].fetch = IF @ = "none" THEN "sent" ELSE @]
    <3>1. cache' = [cache EXCEPT ![p] = query]
      BY <1>1, <2>2 DEF TypeOK, query
    <3>2. /\ cache' \in [Pages -> Queries] /\ cache'[p] = query
          /\ \A q \in Pages \ {p} : cache'[q] = cache[q]
      BY <1>1, <1>7, <3>1, QueryEffect
    <3> QED BY <1>7, <3>2
  <2> QED BY <2>1, <2>2 DEF Navigate
<1>9. TypeOK'
  BY <1>1, <1>5, <1>6, <1>8, DashboardAssumption DEF TypeOK, Navigate, Event, InFlight
<1>10. \A c \in Clicks : Placed(c)' /\ Shown(c)'
  <2> SUFFICES ASSUME NEW c \in Clicks
               PROVE  Placed(c)' /\ Shown(c)'
    OBVIOUS
  <2>1. Placed(c) /\ Shown(c) /\ click[c].page \in Pages
    BY <1>2 DEF IInv, Mutated
  <2>2. Placed(c)'
    BY <1>1, <1>6, <1>8, <2>1 DEF Placed, InFlight
  <2>3. Shown(c)'
    BY <1>1, <1>6, <1>8, <2>1 DEF Shown
  <2> QED BY <2>2, <2>3
<1>11. \A x \in Things : Counted(x)'
  <2> SUFFICES ASSUME NEW x \in Things
               PROVE  Counted(x)'
    OBVIOUS
  <2>1. Counted(x) /\ Attended(x)' => Attended(x)
    BY <1>6 DEF IInv, Attended
  <2> QED BY <1>1, <1>6, <2>1 DEF IInv, Counted
<1> QED BY <1>9, <1>10, <1>11 DEF IInv

LEMMA ChangeElsewhereStep ==
  ASSUME IInv, ChangeElsewhere
  PROVE  IInv'
<1>1. TypeOK /\ UNCHANGED <<cache, page, click, requeued, faults>>
  BY DEF IInv, ChangeElsewhere
<1>2. /\ server' \in [Pages -> SUBSET Things]
      /\ \A p \in Pages \ {"services", "overview", "jobs"} : server[p] \subseteq server'[p]
  BY <1>1 DEF ChangeElsewhere, TypeOK
<1>3. TypeOK'
  BY <1>1, <1>2, DashboardAssumption DEF TypeOK, ChangeElsewhere, Event, InFlight
<1>4. \A c \in Clicks : Placed(c)' /\ Shown(c)'
  <2> SUFFICES ASSUME NEW c \in Clicks
               PROVE  Placed(c)' /\ Shown(c)'
    OBVIOUS
  <2>1. Placed(c) /\ Shown(c) /\ click[c].page \in Pages
    BY <1>1 DEF IInv, TypeOK, Mutated
  <2> QED BY <1>1, <1>2, <2>1 DEF Placed, Shown, InFlight
<1>5. \A x \in Things : Counted(x)'
  <2> SUFFICES ASSUME NEW x \in Things
               PROVE  Counted(x)'
    OBVIOUS
  <2>1. "dlq" \in Pages => server["dlq"] \subseteq server'["dlq"]
    BY <1>2
  <2>2. Counted(x) /\ Attended(x)' = Attended(x)
    BY <1>1 DEF IInv, Attended
  <2> QED BY <1>1, <2>1, <2>2 DEF Counted
<1> QED BY <1>3, <1>4, <1>5 DEF IInv

-----------------------------------------------------------------------------
(* The invariant *)

LEMMA InvariantInit == Init => IInv
<1> SUFFICES ASSUME Init
             PROVE  IInv
  OBVIOUS
<1>1. NoQuery \in Queries /\ [NoQuery EXCEPT !.fetch = "sent"] \in Queries
  BY DEF NoQuery, Queries
<1>2. cache \in [Pages -> Queries]
  BY <1>1 DEF Init, NoQuery
<1>3. \A c \in Clicks : click[c] = [net |-> "idle", ui |-> "idle", page |-> page,
                                    thing |-> Nothing, stayed |-> TRUE]
  BY DEF Init
<1>4. TypeOK
  BY <1>2, <1>3, DashboardAssumption DEF Init, TypeOK, Mutated, InFlight
<1>5. \A c \in Clicks : Placed(c) /\ Shown(c)
  BY <1>3 DEF Placed, Shown, InFlight
<1>6. \A x \in Things : Counted(x)
  BY DEF Counted, Init
<1> QED BY <1>4, <1>5, <1>6 DEF IInv

LEMMA InvariantStep == IInv /\ [Next]_vars => IInv'
<1> SUFFICES ASSUME IInv, [Next]_vars
             PROVE  IInv'
  OBVIOUS
<1>1. ASSUME NEW p \in Pages, Read(p) \/ Fetched(p) \/ FetchFails(p) \/ Navigate(p)
      PROVE  IInv'
  BY <1>1, ReadStep, FetchedStep, FetchFailsStep, NavigateStep
<1>2. ASSUME NEW c \in Clicks,
             Click(c) \/ FindEntry(c) \/ Handle(c) \/ Succeeds(c) \/ Fails(c)
      PROVE  IInv'
  BY <1>2, ClickStep, FindEntryStep, HandleStep, SucceedsStep, FailsStep
<1>3. CASE UNCHANGED vars
  BY <1>3 DEF vars, IInv, TypeOK, Placed, Shown, Counted, Attended, InFlight
<1> QED BY <1>1, <1>2, <1>3, PollStep, ChangeElsewhereStep DEF Next

LEMMA Invariant == Spec => []IInv
BY InvariantInit, InvariantStep, PTL DEF Spec

\* The page on the screen has one mutation under way, and all else its type.
THEOREM TypeCorrect == Spec => []TypeOK
<1>1. IInv => TypeOK
  BY DEF IInv
<1> QED BY <1>1, Invariant, PTL

\* No entry is re-queued twice by an operator who waits for the answer
\* (dead-letter 19-25, 70-74).
THEOREM RequeuedAtMostOnce == Spec => []RequeuedOnce
<1>1. IInv => RequeuedOnce
  <2> SUFFICES ASSUME IInv, NEW x \in Things, requeued[x] > 1
               PROVE  ~Attended(x)
    BY DEF RequeuedOnce, Attended
  <2> QED BY DEF IInv, Counted
<1> QED BY <1>1, Invariant, PTL

\* A resolved incident does not come back to who stays, whatever fetches were
\* under way (incidents 19-22, 71-76).
THEOREM ResolvedStaysAway == Spec => []ResolvedIsNotOffered
<1>1. IInv => ResolvedIsNotOffered
  BY DEF IInv, ResolvedIsNotOffered, Shown, Enabled, Offered
<1> QED BY <1>1, Invariant, PTL
=============================================================================
