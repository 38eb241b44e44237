----------------------------- MODULE FleetJobs -----------------------------
(***************************************************************************)
(* What the portal asks of many clients at once, and the clients that      *)
(* answer late: the bulk job with its workers, its semaphore and the event *)
(* streams of the browsers that watch it                                   *)
(* (portal/bulk_operations_service.py), the alignment of the fleet when    *)
(* the market opens (portal/scheduler.py), a single sync, and the global   *)
(* panic (portal/main.py, portal/telemetry_service.py).                    *)
(*                                                                         *)
(* A request is tried at several addresses of one client, each with a      *)
(* timeout. A client does not stop a handler whose caller has gone, so     *)
(* several handlers of one request may run there; a sync holds the         *)
(* runner's lock (client/supertrend_engine.py), a panic does not.          *)
(***************************************************************************)
EXTENDS Integers, FiniteSets, Sequences

CONSTANTS
    Tenant,
    Trend,      \* the position each tenant's strategy should hold
    Held,       \* the position it holds at first
    Permits,    \* syncs of one job that the portal keeps under way
    Urls,       \* addresses of a client
    Stream,     \* browsers that watch the job
    MaxWaits,   \* timeouts a stream waits for
    Calls,      \* what may be asked: "pause", "resume", "sync", "align", "panic"
    MaxCalls,   \* bound: operations asked
    MaxFaults   \* bound: requests lost or timed out, refusals, restarts of the portal

ASSUME FleetAssumption ==
    /\ IsFiniteSet(Tenant)
    /\ Trend \in [Tenant -> Int \ {0}] /\ Held \in [Tenant -> Int]
    /\ Permits \in Nat \ {0} /\ Urls \in Nat \ {0} /\ MaxWaits \in Nat
    /\ Calls \subseteq {"pause", "resume", "sync", "align", "panic"}
    /\ MaxCalls \in Nat /\ MaxFaults \in Nat

VARIABLES
    job,      \* "none", "pause", "resume" or "completed"
    worker,   \* per tenant: "idle", "toggle", "wait", "sync" or "over"
    result,   \* per tenant: "none", "paused", "ok" or "error"
    free,     \* permits of the job's semaphore
    queue,    \* the job's events that no stream has taken
    stream,   \* per browser: "off" or "open"
    waits,    \* per browser: timeouts so far
    fleet,    \* tenants the alignment has still to ask
    post,     \* requests of the portal, each at one address
    hand,     \* handlers that run in the clients
    virt,     \* per tenant: the runner's virtual position
    book,     \* per tenant: the broker's position
    asked,    \* what was asked so far
    faults

jobs    == <<job, worker, result, free>>
viewers == <<stream, waits>>
client  == <<virt, book>>
count   == <<asked, faults>>
vars    == <<jobs, queue, viewers, fleet, post, hand, client, count>>

Init ==
    /\ job = "none" /\ worker = [t \in Tenant |-> "idle"]
    /\ result = [t \in Tenant |-> "none"] /\ free = Permits
    /\ queue = <<>> /\ stream = [s \in Stream |-> "off"] /\ waits = [s \in Stream |-> 0]
    /\ fleet = {} /\ post = {} /\ hand = {}
    /\ virt = Held /\ book = Held
    /\ asked = <<>> /\ faults = 0

Asks(kind) == kind \in Calls /\ Len(asked) < MaxCalls /\ asked' = Append(asked, kind)
Fault == faults < MaxFaults /\ faults' = faults + 1

Request(t, kind, by, id) == [t |-> t, kind |-> kind, by |-> by, id |-> id, left |-> Urls, sent |-> FALSE]

-----------------------------------------------------------------------------
(* The job *)

\* Every worker writes its tenant's rows and posts the toggle at once.
JobStarts(what) ==
    /\ Asks(what) /\ job = "none"
    /\ job' = what /\ worker' = [t \in Tenant |-> "toggle"]
    /\ post' = post \cup {Request(t, "toggle", "job", Len(asked)) : t \in Tenant}
    /\ queue' = <<"INIT">>
    /\ UNCHANGED <<result, free, viewers, fleet, hand, client, faults>>

\* A pause ends with the toggle, answered or not; a resume goes on to a sync.
Toggled(t) ==
    IF job = "resume"
    THEN worker' = [worker EXCEPT ![t] = "wait"] /\ UNCHANGED <<job, result, free, queue>>
    ELSE /\ worker' = [worker EXCEPT ![t] = "over"] /\ result' = [result EXCEPT ![t] = "paused"]
         /\ queue' = Append(queue, "PROGRESS") /\ UNCHANGED <<job, free>>

TakesPermit(t) ==
    /\ worker[t] = "wait" /\ free > 0 /\ free' = free - 1
    /\ worker' = [worker EXCEPT ![t] = "sync"]
    /\ post' = post \cup {Request(t, "sync", "job", Len(asked))}
    /\ UNCHANGED <<job, result, queue, viewers, fleet, hand, client, count>>

\* Mutation: only a worker that succeeds gives its permit back.
SyncedKeepsPermit(t, outcome) ==
    /\ worker' = [worker EXCEPT ![t] = "over"] /\ result' = [result EXCEPT ![t] = outcome]
    /\ free' = IF outcome = "ok" THEN free + 1 ELSE free
    /\ queue' = Append(queue, "PROGRESS") /\ UNCHANGED job

Synced(t, outcome) ==
    /\ worker' = [worker EXCEPT ![t] = "over"] /\ result' = [result EXCEPT ![t] = outcome]
    /\ free' = free + 1
    /\ queue' = Append(queue, "PROGRESS") /\ UNCHANGED job

JobCompletes ==
    /\ job \in {"pause", "resume"} /\ \A t \in Tenant : worker[t] = "over"
    /\ job' = "completed" /\ queue' = Append(queue, "COMPLETE")
    /\ UNCHANGED <<worker, result, free, viewers, fleet, post, hand, client, count>>

-----------------------------------------------------------------------------
(* The browsers: all streams of a job take from its one queue *)

\* An unknown job and a completed one are answered at once.
Opens(s) ==
    /\ stream[s] = "off" /\ job \in {"pause", "resume"}
    /\ stream' = [stream EXCEPT ![s] = "open"]
    /\ UNCHANGED <<jobs, queue, waits, fleet, post, hand, client, count>>

Closes(s) == stream' = [stream EXCEPT ![s] = "off"] /\ waits' = [waits EXCEPT ![s] = 0]

Takes(s) ==
    /\ stream[s] = "open" /\ queue # <<>> /\ queue' = Tail(queue)
    /\ IF Head(queue) = "COMPLETE" THEN Closes(s) ELSE UNCHANGED viewers
    /\ UNCHANGED <<jobs, fleet, post, hand, client, count>>

\* Mutation: the timeouts of a stream never end it.
IdlesOn(s) ==
    /\ stream[s] = "open" /\ queue = <<>>
    /\ waits' = [waits EXCEPT ![s] = IF @ < MaxWaits THEN @ + 1 ELSE 0]
    /\ UNCHANGED <<jobs, queue, stream, fleet, post, hand, client, count>>

\* Fifteen seconds without an event. The timeouts of a stream are never reset.
Idles(s) ==
    /\ stream[s] = "open" /\ queue = <<>>
    /\ IF waits[s] < MaxWaits
       THEN waits' = [waits EXCEPT ![s] = @ + 1] /\ UNCHANGED stream
       ELSE Closes(s)
    /\ UNCHANGED <<jobs, queue, fleet, post, hand, client, count>>

-----------------------------------------------------------------------------
(* The other senders *)

AsksSync(t) ==
    /\ Asks("sync") /\ post' = post \cup {Request(t, "sync", "operator", Len(asked))}
    /\ UNCHANGED <<jobs, queue, viewers, fleet, hand, client, faults>>

\* Telemetry shows no broker position, so no strategy is ever seen as aligned.
FleetStarts ==
    /\ Asks("align") /\ fleet' = Tenant
    /\ UNCHANGED <<jobs, queue, viewers, post, hand, client, faults>>

FleetAsks(t) ==
    /\ t \in fleet /\ \A q \in post : q.by # "fleet"
    /\ fleet' = fleet \ {t}
    /\ post' = post \cup {Request(t, "sync", "fleet", Len(asked))}
    /\ UNCHANGED <<jobs, queue, viewers, hand, client, count>>

PanicsAll ==
    /\ Asks("panic") /\ post' = post \cup {Request(t, "panic", "operator", Len(asked)) : t \in Tenant}
    /\ UNCHANGED <<jobs, queue, viewers, fleet, hand, client, faults>>

-----------------------------------------------------------------------------
(* A request and its handlers *)

\* The sender has its answer, or has tried every address.
Resolves(q, outcome) ==
    /\ post' = post \ {q}
    /\ IF q.by # "job" THEN UNCHANGED <<jobs, queue>>
       ELSE IF q.kind = "toggle" THEN Toggled(q.t) ELSE Synced(q.t, outcome)

GoesOn(q) ==
    IF q.left = 1 THEN Resolves(q, "error")
    ELSE /\ post' = (post \ {q}) \cup {[q EXCEPT !.left = @ - 1, !.sent = FALSE]}
         /\ UNCHANGED <<jobs, queue>>

Handler(q, pc) == [t |-> q.t, kind |-> q.kind, by |-> q.by, id |-> q.id, left |-> q.left, pc |-> pc, n |-> 0]

Arrives(q) ==
    /\ q \in post /\ q.kind # "toggle" /\ ~q.sent
    /\ post' = (post \ {q}) \cup {[q EXCEPT !.sent = TRUE]}
    /\ hand' = hand \cup {Handler(q, "begun")}
    /\ UNCHANGED <<jobs, queue, viewers, fleet, client, count>>

\* The switch of all strategies needs no lock and no broker.
Toggles(q) ==
    /\ q \in post /\ q.kind = "toggle"
    /\ Resolves(q, "ok")
    /\ UNCHANGED <<viewers, fleet, hand, client, count>>

\* The connection fails, or the answer has not come in time.
TimesOut(q) ==
    /\ q \in post /\ Fault
    /\ GoesOn(q)
    /\ UNCHANGED <<viewers, fleet, hand, client, asked>>

\* The handler answers; only the bulk job takes an error for an answer.
Ends(h, outcome) ==
    /\ hand' = hand \ {h}
    /\ LET waiting == {q \in post : q.sent /\ Handler(q, h.pc) = [h EXCEPT !.n = 0]}
       IN IF waiting = {} THEN UNCHANGED <<jobs, queue, post>>
          ELSE \E q \in waiting :
                  IF outcome = "ok" \/ q.by = "job" THEN Resolves(q, outcome) ELSE GoesOn(q)

Continues(h, pc, n) ==
    /\ hand' = (hand \ {h}) \cup {[h EXCEPT !.pc = pc, !.n = n]}
    /\ UNCHANGED <<jobs, queue, post>>

Size(n) == IF n < 0 THEN -n ELSE n

Locked(t) == \E h \in hand : h.t = t /\ h.kind = "sync" /\ h.pc # "begun"

\* Long enough on the side of the trend: the sync does not reduce a position.
Aligned(t) == virt[t] * Trend[t] > 0 /\ Size(virt[t]) >= Size(Trend[t])

Works(h) ==
    \/ Aligned(h.t) /\ Ends(h, "ok") /\ UNCHANGED faults
    \/ virt[h.t] * Trend[h.t] < 0 /\ Continues(h, "exit", virt[h.t]) /\ UNCHANGED faults
    \/ virt[h.t] * Trend[h.t] >= 0 /\ ~Aligned(h.t)
          /\ Continues(h, "enter", Trend[h.t] - virt[h.t]) /\ UNCHANGED faults
    \/ Fault /\ Ends(h, "error")

\* Mutation: the sync does not wait for the runner's lock.
SyncBeginsAtOnce(h) ==
    /\ h \in hand /\ h.kind = "sync" /\ h.pc = "begun"
    /\ Works(h)
    /\ UNCHANGED <<viewers, fleet, client, asked>>

\* Under the lock: nothing to do, two legs, one leg, or no contract or candles.
SyncBegins(h) ==
    /\ h \in hand /\ h.kind = "sync" /\ h.pc = "begun" /\ ~Locked(h.t)
    /\ Works(h)
    /\ UNCHANGED <<viewers, fleet, client, asked>>

\* The entry leg is sent only when the exit leg was accepted.
SyncExits(h) ==
    /\ h \in hand /\ h.pc = "exit"
    /\ \/ /\ book' = [book EXCEPT ![h.t] = @ - h.n] /\ virt' = [virt EXCEPT ![h.t] = 0]
          /\ Continues(h, "enter", Trend[h.t]) /\ UNCHANGED faults
       \/ Fault /\ Ends(h, "error") /\ UNCHANGED client
    /\ UNCHANGED <<viewers, fleet, asked>>

\* Mutation: a refused entry is reported as a success.
SyncEntersAnyhow(h) ==
    /\ h \in hand /\ h.pc = "enter"
    /\ \/ /\ book' = [book EXCEPT ![h.t] = @ + h.n] /\ virt' = [virt EXCEPT ![h.t] = Trend[h.t]]
          /\ Ends(h, "ok") /\ UNCHANGED faults
       \/ Fault /\ Ends(h, "ok") /\ UNCHANGED client
    /\ UNCHANGED <<viewers, fleet, asked>>

SyncEnters(h) ==
    /\ h \in hand /\ h.pc = "enter"
    /\ \/ /\ book' = [book EXCEPT ![h.t] = @ + h.n] /\ virt' = [virt EXCEPT ![h.t] = Trend[h.t]]
          /\ Ends(h, "ok") /\ UNCHANGED faults
       \/ Fault /\ Ends(h, "error") /\ UNCHANGED client
    /\ UNCHANGED <<viewers, fleet, asked>>

\* The positions are asked for, then closed; nothing keeps a second panic out, and
\* the virtual position is zeroed also when the broker refuses.
PanicAsks(h) ==
    /\ h \in hand /\ h.kind = "panic" /\ h.pc = "begun"
    /\ Continues(h, "close", book[h.t])
    /\ UNCHANGED <<viewers, fleet, client, count>>

PanicCloses(h) ==
    /\ h \in hand /\ h.pc = "close"
    /\ \/ book' = [book EXCEPT ![h.t] = @ - h.n] /\ UNCHANGED faults
       \/ Fault /\ UNCHANGED book
    /\ virt' = [virt EXCEPT ![h.t] = 0]
    /\ Ends(h, "ok")
    /\ UNCHANGED <<viewers, fleet, asked>>

\* Jobs, streams and requests are in the portal's memory; the handlers are not.
PortalRestarts ==
    /\ Fault
    /\ job' = "none" /\ worker' = [t \in Tenant |-> "idle"]
    /\ result' = [t \in Tenant |-> "none"] /\ free' = Permits
    /\ queue' = <<>> /\ stream' = [s \in Stream |-> "off"] /\ waits' = [s \in Stream |-> 0]
    /\ fleet' = {} /\ post' = {}
    /\ UNCHANGED <<hand, client, asked>>

-----------------------------------------------------------------------------
Portal ==
    \/ JobCompletes \/ \E t \in Tenant : TakesPermit(t) \/ FleetAsks(t)
    \/ \E q \in post : Arrives(q) \/ Toggles(q)

Clients == \E h \in hand :
    \/ SyncBegins(h) \/ SyncExits(h) \/ SyncEnters(h) \/ PanicAsks(h) \/ PanicCloses(h)

Watches(s) == Takes(s) \/ Idles(s)

Next ==
    \/ JobStarts("pause") \/ JobStarts("resume") \/ FleetStarts \/ PanicsAll
    \/ \E t \in Tenant : AsksSync(t)
    \/ \E s \in Stream : Opens(s) \/ Watches(s)
    \/ \E q \in post : TimesOut(q)
    \/ Portal \/ Clients \/ PortalRestarts

Spec == Init /\ [][Next]_vars

\* Event loops go on; what waits for an answer gets one or times out.
FairSpec == Spec /\ WF_vars(Portal) /\ WF_vars(Clients) /\ \A s \in Stream : WF_vars(Watches(s))

-----------------------------------------------------------------------------
(* Properties *)

TypeOK ==
    /\ job \in {"none", "pause", "resume", "completed"}
    /\ worker \in [Tenant -> {"idle", "toggle", "wait", "sync", "over"}]
    /\ result \in [Tenant -> {"none", "paused", "ok", "error"}]
    /\ free \in 0 .. Permits /\ fleet \subseteq Tenant
    /\ stream \in [Stream -> {"off", "open"}] /\ waits \in [Stream -> 0 .. MaxWaits]
    /\ \A q \in post : q.left \in 1 .. Urls
    /\ virt \in [Tenant -> Int] /\ book \in [Tenant -> Int]
    /\ asked \in Seq(Calls) /\ faults \in 0 .. MaxFaults

\* However often a sync is repeated at the next address while an earlier handler of
\* it still runs, and whoever else asks for one, the broker holds what the runner
\* believes and never more than the strategy's lots, unless a panic came between.
Bigger(m, n) == IF Size(m) > Size(n) THEN Size(m) ELSE Size(n)
Panicked == \E i \in DOMAIN asked : asked[i] = "panic"
RepeatedSyncsAgree == Panicked \/ \A t \in Tenant :
    book[t] = virt[t] /\ Size(book[t]) <= Bigger(Held[t], Trend[t])

\* A tenant the job reports as synced holds its trend's lots at the broker.
SyncedMeansSynced == Panicked \/ \A t \in Tenant :
    result[t] = "ok" => book[t] * Trend[t] > 0 /\ Size(book[t]) >= Size(Trend[t])

\* The permits are neither lost nor multiplied, whatever ends a worker's sync.
PermitsHold == Cardinality({t \in Tenant : worker[t] = "sync"}) + free = Permits

\* The job comes to its end, and every stream to its own, also the one whose last
\* events another stream has taken.
JobEnds == job \in {"pause", "resume"} ~> job \in {"none", "completed"}
StreamsEnd == \A s \in Stream : stream[s] = "open" ~> stream[s] = "off"

\* Two that the code does not keep: a panic whose answer is late is repeated and
\* turns the position round; and the handlers that trade for a job are as few as
\* its permits.
PanicTurnsNothing == \A t \in Tenant : book[t] * Held[t] >= 0
FewTrade == Cardinality({h \in hand : h.kind = "sync"}) <= Permits
=============================================================================
