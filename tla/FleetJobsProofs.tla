-------------------------- MODULE FleetJobsProofs --------------------------
(***************************************************************************)
(* Safety of the portal's jobs and of the clients' syncs, for any number   *)
(* of tenants, permits, addresses, calls and faults.                       *)
(***************************************************************************)
EXTENDS FleetJobs, FiniteSetTheorems, TLAPS

-----------------------------------------------------------------------------
(* The inductive invariants *)

Sender    == {"job", "operator", "fleet"}
Requests  == [t : Tenant, kind : {"toggle", "sync", "panic"}, by : Sender, id : Nat,
              left : 1 .. Urls, sent : BOOLEAN]
Handlers  == [t : Tenant, kind : {"sync", "panic"}, by : Sender, id : Nat,
              left : 1 .. Urls, pc : {"begun", "exit", "enter", "close"}, n : Int]

JobTypes ==
    /\ job \in {"none", "pause", "resume", "completed"}
    /\ worker \in [Tenant -> {"idle", "toggle", "wait", "sync", "over"}]
    /\ result \in [Tenant -> {"none", "paused", "ok", "error"}]
    /\ free \in Nat
    /\ post \subseteq Requests

\* Only the job toggles. A tenant's worker waits for the one request it has sent, and
\* before a job there are no workers.
OneRequestEach ==
    /\ \A q \in post : q.kind = "toggle" => q.by = "job"
    /\ \A q \in post : q.by = "job" => worker[q.t] = q.kind
    /\ \A q, r \in post : q.by = "job" /\ r.by = "job" /\ q.t = r.t => q = r
    /\ job = "none" => \A t \in Tenant : worker[t] = "idle"

PortalInv == JobTypes /\ OneRequestEach /\ PermitsHold

\* The runner's lock, and what a sync under it has read and not yet ordered.
OneTrades == \A g, h \in hand : g.t = h.t /\ g.pc # "begun" /\ h.pc # "begun" => g = h
LegsFit == \A h \in hand :
    /\ h.kind = "sync" /\ h.pc # "close"
    /\ h.pc = "exit" => h.n = virt[h.t] /\ virt[h.t] * Trend[h.t] < 0
    /\ h.pc = "enter" => /\ h.n = Trend[h.t] - virt[h.t]
                         /\ virt[h.t] * Trend[h.t] >= 0 /\ ~Aligned(h.t)
OkIsAligned == \A t \in Tenant : result[t] = "ok" => Aligned(t)

BooksFit == \A t \in Tenant : book[t] = virt[t] /\ Size(book[t]) <= Bigger(Held[t], Trend[t])
NoPanic == \A q \in post : q.kind # "panic"

Calm == NoPanic /\ OneTrades /\ LegsFit /\ OkIsAligned /\ BooksFit
ClientInv == Panicked \/ Calm

RestTypes ==
    /\ fleet \subseteq Tenant
    /\ stream \in [Stream -> {"off", "open"}] /\ waits \in [Stream -> 0 .. MaxWaits]
    /\ hand \subseteq Handlers
    /\ virt \in [Tenant -> Int] /\ book \in [Tenant -> Int]
    /\ asked \in Seq(Calls) /\ faults \in 0 .. MaxFaults

FleetInv == PortalInv /\ RestTypes /\ ClientInv

-----------------------------------------------------------------------------
(* The permits *)

Syncing == {t \in Tenant : worker[t] = "sync"}

\* Permits are counted over a finite set of workers.
LEMMA SyncingIsFinite ==
  ASSUME JobTypes
  PROVE  IsFiniteSet(Syncing) /\ Cardinality(Syncing) \in Nat
  <1>1. IsFiniteSet(Tenant) /\ Syncing \in SUBSET Tenant
    BY FleetAssumption DEF FleetAssumption, Syncing
  <1>2. IsFiniteSet(Syncing)  BY <1>1, FS_Subset
  <1> QED BY <1>2, FS_CardinalityType

LEMMA WorkerAt ==
  ASSUME JobTypes, NEW t \in Tenant, NEW w, worker' = [worker EXCEPT ![t] = w]
  PROVE  \A u \in Tenant : worker'[u] = IF u = t THEN w ELSE worker[u]
  BY DEF JobTypes

\* A worker that begins to sync has one permit more, one that ends has one less.
LEMMA PermitTaken ==
  ASSUME JobTypes, NEW t \in Tenant, worker[t] # "sync",
         worker' = [worker EXCEPT ![t] = "sync"]
  PROVE  Cardinality(Syncing') = Cardinality(Syncing) + 1
  <1>0. \A u \in Tenant : worker'[u] = IF u = t THEN "sync" ELSE worker[u]
    BY WorkerAt
  <1>1. Syncing' = Syncing \cup {t} /\ t \notin Syncing  BY <1>0 DEF Syncing
  <1> QED BY <1>1, SyncingIsFinite, FS_AddElement

LEMMA PermitBack ==
  ASSUME JobTypes, NEW t \in Tenant, worker[t] = "sync",
         worker' = [worker EXCEPT ![t] = "over"]
  PROVE  Cardinality(Syncing') = Cardinality(Syncing) - 1
  <1>0. \A u \in Tenant : worker'[u] = IF u = t THEN "over" ELSE worker[u]
    BY WorkerAt
  <1>1. Syncing' = Syncing \ {t} /\ t \in Syncing  BY <1>0 DEF Syncing
  <1> QED BY <1>1, SyncingIsFinite, FS_RemoveElement

LEMMA PermitKept ==
  ASSUME JobTypes, NEW t \in Tenant, worker[t] # "sync",
         NEW w, w # "sync", worker' = [worker EXCEPT ![t] = w]
  PROVE  Syncing' = Syncing
  BY WorkerAt DEF Syncing

\* As long as the workers stay where they are, so do the permits.
LEMMA WorkersRest ==
  ASSUME PermitsHold, UNCHANGED <<worker, free>> PROVE PermitsHold'
  BY DEF PermitsHold

-----------------------------------------------------------------------------
(* How a request ends *)

LEMMA ResolvesKeeps ==
  ASSUME PortalInv, NEW q \in post, NEW outcome \in {"ok", "error"}, Resolves(q, outcome)
  PROVE  PortalInv'
  <1>t. q \in Requests /\ q.t \in Tenant  BY DEF PortalInv, JobTypes, Requests
  <1>p. post' = post \ {q}  BY DEF Resolves
  <1>1. CASE q.by # "job"
    BY <1>1, <1>p, WorkersRest DEF Resolves, PortalInv, JobTypes, OneRequestEach, jobs
  <1>2. CASE q.by = "job" /\ q.kind = "toggle"
    <2>1. worker[q.t] = "toggle"  BY <1>2 DEF PortalInv, OneRequestEach
    <2>2. \E w \in {"wait", "over"} : worker' = [worker EXCEPT ![q.t] = w]
      BY <1>2 DEF Resolves, Toggled
    <2>3. job' = job /\ free' = free /\ result' \in {result, [result EXCEPT ![q.t] = "paused"]}
      BY <1>2 DEF Resolves, Toggled
    <2>4. Syncing' = Syncing
      BY <2>1, <2>2, <1>t, PermitKept DEF PortalInv
    <2>5. PermitsHold'  BY <2>3, <2>4 DEF PermitsHold, PortalInv, Syncing
    <2>6. JobTypes'  BY <2>2, <2>3, <1>p, <1>t DEF PortalInv, JobTypes
    <2>7. OneRequestEach'
      BY <2>1, <2>2, <2>3, <1>2, <1>p, <1>t DEF PortalInv, JobTypes, OneRequestEach
    <2> QED BY <2>5, <2>6, <2>7 DEF PortalInv
  <1>3. CASE q.by = "job" /\ q.kind # "toggle"
    <2>0. Synced(q.t, outcome)  BY <1>3 DEF Resolves
    <2>1. worker[q.t] = q.kind  BY <1>3 DEF PortalInv, OneRequestEach
    <2>2. worker[q.t] = "sync"
      BY <2>1, <1>3, <1>t DEF PortalInv, JobTypes, Requests
    <2>w. worker' = [worker EXCEPT ![q.t] = "over"]  BY <2>0 DEF Synced
    <2>j. JobTypes  BY DEF PortalInv
    <2>3. Cardinality(Syncing') = Cardinality(Syncing) - 1
      BY <2>j, <2>w, <2>2, <1>t, PermitBack
    <2>4. Cardinality(Syncing) \in Nat  BY SyncingIsFinite DEF PortalInv
    <2>5. PermitsHold'
      BY <2>0, <2>3, <2>4 DEF PermitsHold, PortalInv, Syncing, Synced, JobTypes
    <2>6. JobTypes'  BY <2>0, <1>p, <1>t DEF PortalInv, JobTypes, Synced
    <2>7. OneRequestEach'
      BY <2>0, <2>2, <1>3, <1>p, <1>t DEF PortalInv, JobTypes, OneRequestEach, Synced
    <2> QED BY <2>5, <2>6, <2>7 DEF PortalInv
  <1> QED BY <1>1, <1>2, <1>3

LEMMA NextAddress ==
  ASSUME NEW q \in Requests, q.left # 1
  PROVE  /\ [q EXCEPT !.left = @ - 1, !.sent = FALSE] \in Requests
         /\ [q EXCEPT !.left = @ - 1, !.sent = FALSE].t = q.t
         /\ [q EXCEPT !.left = @ - 1, !.sent = FALSE].kind = q.kind
         /\ [q EXCEPT !.left = @ - 1, !.sent = FALSE].by = q.by
  <1>1. Urls \in Nat  BY FleetAssumption DEF FleetAssumption
  <1>2. q.left - 1 \in 1 .. Urls  BY <1>1 DEF Requests
  <1>3. ASSUME NEW x \in 1 .. Urls PROVE [q EXCEPT !.left = x, !.sent = FALSE] \in Requests
    BY DEF Requests
  <1>4. [q EXCEPT !.left = @ - 1, !.sent = FALSE] \in Requests  BY <1>2, <1>3
  <1> QED BY <1>4 DEF Requests

\* The next address is tried by the same request.
LEMMA GoesOnKeeps ==
  ASSUME PortalInv, NEW q \in post, GoesOn(q) PROVE PortalInv'
  <1>1. CASE q.left = 1  BY <1>1, ResolvesKeeps DEF GoesOn
  <1>2. CASE q.left # 1
    <2> DEFINE r == [q EXCEPT !.left = @ - 1, !.sent = FALSE]
    <2>1. post' = (post \ {q}) \cup {r} /\ UNCHANGED <<job, worker, result, free>>
      BY <1>2 DEF GoesOn, jobs
    <2>2. q \in Requests  BY DEF PortalInv, JobTypes
    <2>3. r \in Requests /\ r.t = q.t /\ r.kind = q.kind /\ r.by = q.by
      BY <2>2, <1>2, NextAddress
    <2> HIDE DEF r
    <2>4. JobTypes'  BY <2>1, <2>3 DEF PortalInv, JobTypes
    <2>5. OneRequestEach'  BY <2>1, <2>3 DEF PortalInv, OneRequestEach
    <2> QED BY <2>1, <2>4, <2>5, WorkersRest DEF PortalInv
  <1> QED BY <1>1, <1>2

LEMMA EndsKeeps ==
  ASSUME PortalInv, NEW h, NEW outcome \in {"ok", "error"}, Ends(h, outcome)
  PROVE  PortalInv'
  <1>1. CASE UNCHANGED <<jobs, queue, post>>
    BY <1>1, WorkersRest DEF PortalInv, JobTypes, OneRequestEach, jobs
  <1>2. CASE \E q \in post : Resolves(q, outcome) \/ GoesOn(q)
    BY <1>2, ResolvesKeeps, GoesOnKeeps
  <1> QED BY <1>1, <1>2 DEF Ends

-----------------------------------------------------------------------------
(* The portal's steps *)

\* New requests that are not the job's change nothing for its workers.
LEMMA OthersAsk ==
  ASSUME PortalInv, UNCHANGED jobs, NEW S \in SUBSET Requests, post' = post \cup S,
         \A q \in S : q.by # "job" /\ q.kind # "toggle"
  PROVE  PortalInv'
  BY WorkersRest DEF PortalInv, JobTypes, OneRequestEach, jobs

\* What is asked is a request, under a number that was not used before.
LEMMA RequestTypes ==
  ASSUME RestTypes, NEW t \in Tenant, NEW kind \in {"toggle", "sync", "panic"}, NEW by \in Sender
  PROVE  /\ Request(t, kind, by, Len(asked)) \in Requests
         /\ Request(t, kind, by, Len(asked)).t = t
         /\ Request(t, kind, by, Len(asked)).kind = kind
         /\ Request(t, kind, by, Len(asked)).by = by
  <1>1. Len(asked) \in Nat  BY DEF RestTypes
  <1>2. Urls \in 1 .. Urls  BY FleetAssumption DEF FleetAssumption
  <1> QED BY <1>1, <1>2 DEF Request, Requests

LEMMA JobStartsKeeps ==
  ASSUME PortalInv, RestTypes, NEW what \in {"pause", "resume"}, JobStarts(what)
  PROVE  PortalInv'
  <1> DEFINE S == {Request(t, "toggle", "job", Len(asked)) : t \in Tenant}
  <1>1. S \subseteq Requests  BY RequestTypes DEF Sender
  <1>2. \A q \in S : q.kind = "toggle" /\ q.by = "job"  BY RequestTypes DEF Sender
  <1>3. \A q, r \in S : q.t = r.t => q = r  BY RequestTypes DEF Sender
  <1>4. /\ job = "none" /\ job' = what /\ post' = post \cup S
        /\ worker' = [t \in Tenant |-> "toggle"] /\ UNCHANGED <<result, free>>
    BY DEF JobStarts
  <1> HIDE DEF S
  <1>5. \A t \in Tenant : worker[t] = "idle"  BY <1>4 DEF PortalInv, OneRequestEach
  <1>6. \A q \in post : q.by # "job"
    BY <1>5 DEF PortalInv, JobTypes, OneRequestEach, Requests
  <1>7. JobTypes'  BY <1>1, <1>4 DEF PortalInv, JobTypes
  <1>8. OneRequestEach'
    BY <1>1, <1>2, <1>3, <1>4, <1>6 DEF PortalInv, JobTypes, OneRequestEach, Requests
  <1>9. Syncing = {} /\ Syncing' = {}  BY <1>4, <1>5 DEF Syncing
  <1>10. PermitsHold'  BY <1>4, <1>9 DEF PortalInv, PermitsHold, Syncing
  <1> QED BY <1>7, <1>8, <1>10 DEF PortalInv

LEMMA TakesPermitKeeps ==
  ASSUME PortalInv, RestTypes, NEW t \in Tenant, TakesPermit(t)
  PROVE  PortalInv'
  <1> DEFINE r == Request(t, "sync", "job", Len(asked))
  <1>1. r \in Requests /\ r.t = t /\ r.kind = "sync" /\ r.by = "job"
    BY RequestTypes DEF Sender
  <1>2. /\ worker[t] = "wait" /\ free > 0 /\ free' = free - 1 /\ post' = post \cup {r}
        /\ worker' = [worker EXCEPT ![t] = "sync"] /\ UNCHANGED <<job, result>>
    BY DEF TakesPermit
  <1> HIDE DEF r
  <1>3. \A q \in post : q.by = "job" => q.t # t
    BY <1>2 DEF PortalInv, JobTypes, OneRequestEach, Requests
  <1>4. JobTypes'  BY <1>1, <1>2 DEF PortalInv, JobTypes
  <1>5. OneRequestEach'
    BY <1>1, <1>2, <1>3 DEF PortalInv, JobTypes, OneRequestEach, Requests
  <1>6. JobTypes  BY DEF PortalInv
  <1>7. Cardinality(Syncing') = Cardinality(Syncing) + 1
    BY <1>2, <1>6, PermitTaken
  <1>8. Cardinality(Syncing) \in Nat  BY <1>6, SyncingIsFinite
  <1>9. PermitsHold'
    BY <1>2, <1>7, <1>8 DEF PortalInv, PermitsHold, Syncing, JobTypes
  <1> QED BY <1>4, <1>5, <1>9 DEF PortalInv

LEMMA ArrivesKeeps ==
  ASSUME PortalInv, NEW q, Arrives(q) PROVE PortalInv'
  <1> DEFINE r == [q EXCEPT !.sent = TRUE]
  <1>1. q \in post /\ q \in Requests  BY DEF Arrives, PortalInv, JobTypes
  <1>2. r \in Requests /\ r.t = q.t /\ r.kind = q.kind /\ r.by = q.by
    BY <1>1 DEF Requests
  <1>3. post' = (post \ {q}) \cup {r} /\ UNCHANGED <<job, worker, result, free>>
    BY DEF Arrives, jobs
  <1> HIDE DEF r
  <1>4. JobTypes'  BY <1>2, <1>3 DEF PortalInv, JobTypes
  <1>5. OneRequestEach'  BY <1>1, <1>2, <1>3 DEF PortalInv, OneRequestEach
  <1> QED BY <1>3, <1>4, <1>5, WorkersRest DEF PortalInv

LEMMA RestartKeeps ==
  ASSUME PortalRestarts PROVE PortalInv'
  <1>1. Syncing' = {}  BY DEF PortalRestarts, Syncing
  <1>2. Permits \in Nat  BY FleetAssumption DEF FleetAssumption
  <1>c. Cardinality(Syncing') = 0  BY <1>1, FS_EmptySet
  <1>3. PermitsHold'  BY <1>c, <1>2 DEF PermitsHold, Syncing, PortalRestarts
  <1>4. JobTypes'  BY <1>2 DEF JobTypes, PortalRestarts
  <1> QED BY <1>3, <1>4 DEF PortalInv, OneRequestEach, PortalRestarts

LEMMA PortalStep == PortalInv /\ RestTypes /\ [Next]_vars => PortalInv'
  <1> SUFFICES ASSUME PortalInv, RestTypes, [Next]_vars PROVE PortalInv'
    OBVIOUS
  <1>1. ASSUME UNCHANGED <<jobs, post>> PROVE PortalInv'
    BY <1>1, WorkersRest DEF PortalInv, JobTypes, OneRequestEach, jobs
  <1>2. CASE UNCHANGED vars  BY <1>1, <1>2 DEF vars
  <1>3. CASE JobStarts("pause") \/ JobStarts("resume")  BY <1>3, JobStartsKeeps
  <1>4. CASE FleetStarts  BY <1>1, <1>4 DEF FleetStarts
  <1>5. CASE PanicsAll
    <2> DEFINE S == {Request(t, "panic", "operator", Len(asked)) : t \in Tenant}
    <2>1. S \subseteq Requests  BY RequestTypes DEF Sender
    <2>2. \A q \in S : q.by # "job" /\ q.kind # "toggle"  BY RequestTypes DEF Sender
    <2>3. post' = post \cup S /\ UNCHANGED jobs  BY <1>5 DEF PanicsAll
    <2> HIDE DEF S
    <2> QED BY <2>1, <2>2, <2>3, OthersAsk
  <1>6. ASSUME NEW t \in Tenant, AsksSync(t) PROVE PortalInv'
    <2> DEFINE S == {Request(t, "sync", "operator", Len(asked))}
    <2>1. S \subseteq Requests /\ \A q \in S : q.by # "job" /\ q.kind # "toggle"
      BY RequestTypes DEF Sender
    <2>2. post' = post \cup S /\ UNCHANGED jobs  BY <1>6 DEF AsksSync
    <2> HIDE DEF S
    <2> QED BY <2>1, <2>2, OthersAsk
  <1>7. ASSUME NEW t \in Tenant, FleetAsks(t) PROVE PortalInv'
    <2> DEFINE S == {Request(t, "sync", "fleet", Len(asked))}
    <2>1. S \subseteq Requests /\ \A q \in S : q.by # "job" /\ q.kind # "toggle"
      BY RequestTypes DEF Sender
    <2>2. post' = post \cup S /\ UNCHANGED jobs  BY <1>7 DEF FleetAsks
    <2> HIDE DEF S
    <2> QED BY <2>1, <2>2, OthersAsk
  <1>8. ASSUME NEW s \in Stream, Opens(s) \/ Watches(s) PROVE PortalInv'
    BY <1>1, <1>8 DEF Opens, Watches, Takes, Idles
  <1>9. ASSUME NEW q \in post, TimesOut(q) PROVE PortalInv'
    BY <1>9, GoesOnKeeps DEF TimesOut
  <1>10. CASE JobCompletes
    BY <1>10, WorkersRest DEF JobCompletes, PortalInv, JobTypes, OneRequestEach
  <1>11. ASSUME NEW t \in Tenant, TakesPermit(t) PROVE PortalInv'
    BY <1>11, TakesPermitKeeps
  <1>12. ASSUME NEW q \in post, Arrives(q) \/ Toggles(q) PROVE PortalInv'
    BY <1>12, ArrivesKeeps, ResolvesKeeps DEF Toggles
  <1>13. ASSUME NEW h \in hand, SyncBegins(h) PROVE PortalInv'
    BY <1>1, <1>13, EndsKeeps DEF SyncBegins, Works, Continues
  <1>14. ASSUME NEW h \in hand, SyncExits(h) \/ SyncEnters(h) PROVE PortalInv'
    BY <1>1, <1>14, EndsKeeps DEF SyncExits, SyncEnters, Continues
  <1>15. ASSUME NEW h \in hand, PanicAsks(h) \/ PanicCloses(h) PROVE PortalInv'
    BY <1>1, <1>15, EndsKeeps DEF PanicAsks, PanicCloses, Continues
  <1>16. CASE PortalRestarts  BY <1>16, RestartKeeps
  <1> QED
    BY <1>2, <1>3, <1>4, <1>5, <1>6, <1>7, <1>8, <1>9, <1>10, <1>11, <1>12, <1>13, <1>14,
       <1>15, <1>16 DEF Next, Portal, Clients

-----------------------------------------------------------------------------
(* The clients' types *)

LEMMA ContinuesTypes ==
  ASSUME RestTypes, NEW h \in hand, NEW pc \in {"exit", "enter", "close"}, NEW n \in Int,
         Continues(h, pc, n)
  PROVE  hand' \subseteq Handlers
  <1>1. h \in Handlers  BY DEF RestTypes
  <1>2. [h EXCEPT !.pc = pc, !.n = n] \in Handlers  BY <1>1 DEF Handlers
  <1> QED BY <1>2 DEF Continues, RestTypes

LEMMA HandlerTypes ==
  ASSUME NEW q \in Requests, q.kind # "toggle"
  PROVE  Handler(q, "begun") \in Handlers
  BY DEF Handler, Handlers, Requests

LEMMA FaultTypes ==
  ASSUME faults \in 0 .. MaxFaults, Fault \/ UNCHANGED faults PROVE faults' \in 0 .. MaxFaults
  BY FleetAssumption DEF FleetAssumption, Fault

LEMMA AskedTypes ==
  ASSUME asked \in Seq(Calls), NEW kind, Asks(kind) PROVE asked' \in Seq(Calls)
  BY DEF Asks

LEMMA RestStep == PortalInv /\ RestTypes /\ [Next]_vars => RestTypes'
  <1> SUFFICES ASSUME PortalInv, RestTypes, [Next]_vars PROVE RestTypes'
    OBVIOUS
  <1>0. Trend \in [Tenant -> Int] /\ MaxWaits \in Nat
    BY FleetAssumption DEF FleetAssumption
  <1>1. ASSUME UNCHANGED <<fleet, viewers, hand, client>>, asked' \in Seq(Calls),
               Fault \/ UNCHANGED faults
        PROVE  RestTypes'
    BY <1>1, FaultTypes DEF RestTypes, viewers, client
  <1>2. CASE UNCHANGED vars  BY <1>1, <1>2 DEF vars, count, RestTypes
  <1>3. CASE JobStarts("pause") \/ JobStarts("resume")
    BY <1>1, <1>3, AskedTypes DEF JobStarts, RestTypes
  <1>4. CASE FleetStarts
    BY <1>4, AskedTypes DEF FleetStarts, RestTypes, viewers, client
  <1>5. CASE PanicsAll  BY <1>1, <1>5, AskedTypes DEF PanicsAll, RestTypes
  <1>6. ASSUME NEW t \in Tenant, AsksSync(t) PROVE RestTypes'
    BY <1>1, <1>6, AskedTypes DEF AsksSync, RestTypes
  <1>7. ASSUME NEW t \in Tenant, FleetAsks(t) PROVE RestTypes'
    BY <1>7 DEF FleetAsks, RestTypes, viewers, client, count
  <1>8. ASSUME NEW s \in Stream, Opens(s) \/ Watches(s) PROVE RestTypes'
    <2>1. UNCHANGED <<fleet, hand, client, count>>
      BY <1>8 DEF Opens, Watches, Takes, Idles
    <2>2. ASSUME Closes(s) \/ UNCHANGED viewers
          PROVE  stream' \in [Stream -> {"off", "open"}] /\ waits' \in [Stream -> 0 .. MaxWaits]
      <3>1. 0 \in 0 .. MaxWaits  BY <1>0
      <3>2. CASE Closes(s)  BY <2>2, <3>1, <3>2 DEF Closes, RestTypes
      <3>3. CASE UNCHANGED viewers  BY <3>3 DEF RestTypes, viewers
      <3> QED BY <2>2, <3>2, <3>3
    <2>3. CASE Opens(s)  BY <2>1, <2>3 DEF Opens, RestTypes, client, count
    <2>4. CASE Takes(s)  BY <2>1, <2>2, <2>4 DEF Takes, RestTypes, client, count
    <2>5. CASE Idles(s) /\ waits[s] < MaxWaits
      <3>1. waits[s] + 1 \in 0 .. MaxWaits  BY <1>0, <2>5 DEF RestTypes
      <3>2. waits' = [waits EXCEPT ![s] = waits[s] + 1] /\ UNCHANGED stream
        BY <2>5 DEF Idles
      <3>3. waits' \in [Stream -> 0 .. MaxWaits]  BY <3>1, <3>2 DEF RestTypes
      <3> QED BY <2>1, <3>2, <3>3 DEF RestTypes, client, count
    <2>6. CASE Idles(s) /\ ~(waits[s] < MaxWaits)
      BY <2>1, <2>2, <2>6 DEF Idles, RestTypes, client, count
    <2> QED BY <1>8, <2>3, <2>4, <2>5, <2>6 DEF Watches
  <1>9. ASSUME NEW q \in post, TimesOut(q) PROVE RestTypes'
    BY <1>1, <1>9 DEF TimesOut, RestTypes
  <1>10. CASE JobCompletes  BY <1>1, <1>10 DEF JobCompletes, RestTypes, count
  <1>11. ASSUME NEW t \in Tenant, TakesPermit(t) PROVE RestTypes'
    BY <1>1, <1>11 DEF TakesPermit, RestTypes, count
  <1>12. ASSUME NEW q \in post, Arrives(q) PROVE RestTypes'
    <2>1. Handler(q, "begun") \in Handlers
      BY <1>12, HandlerTypes DEF Arrives, PortalInv, JobTypes
    <2> QED BY <1>12, <2>1 DEF Arrives, RestTypes, viewers, client, count
  <1>13. ASSUME NEW q \in post, Toggles(q) PROVE RestTypes'
    BY <1>1, <1>13 DEF Toggles, RestTypes, count
  <1>t. ASSUME NEW h \in hand PROVE h \in Handlers /\ h.t \in Tenant /\ h.n \in Int
    BY DEF RestTypes, Handlers
  <1>14. ASSUME NEW h \in hand, SyncBegins(h) PROVE RestTypes'
    <2>1. virt[h.t] \in Int /\ Trend[h.t] - virt[h.t] \in Int
      BY <1>0, <1>t DEF RestTypes
    <2>2. hand' \subseteq Handlers
      BY <1>14, <2>1, ContinuesTypes DEF SyncBegins, Works, Ends, RestTypes
    <2>3. Fault \/ UNCHANGED faults  BY <1>14 DEF SyncBegins, Works
    <2> QED BY <1>14, <2>2, <2>3, FaultTypes DEF SyncBegins, RestTypes, viewers, client
  <1>15. ASSUME NEW h \in hand, SyncExits(h) PROVE RestTypes'
    <2>1. Trend[h.t] \in Int  BY <1>0, <1>t
    <2>2. hand' \subseteq Handlers
      BY <1>15, <2>1, ContinuesTypes DEF SyncExits, Ends, RestTypes
    <2>3. Fault \/ UNCHANGED faults  BY <1>15 DEF SyncExits
    <2>4. virt' \in [Tenant -> Int] /\ book' \in [Tenant -> Int]
      BY <1>15, <1>t DEF SyncExits, RestTypes, client
    <2> QED BY <1>15, <2>2, <2>3, <2>4, FaultTypes DEF SyncExits, RestTypes, viewers
  <1>16. ASSUME NEW h \in hand, SyncEnters(h) PROVE RestTypes'
    <2>1. Trend[h.t] \in Int  BY <1>0, <1>t
    <2>2. hand' \subseteq Handlers  BY <1>16 DEF SyncEnters, Ends, RestTypes
    <2>3. Fault \/ UNCHANGED faults  BY <1>16 DEF SyncEnters
    <2>4. virt' \in [Tenant -> Int] /\ book' \in [Tenant -> Int]
      BY <1>16, <2>1, <1>t DEF SyncEnters, RestTypes, client
    <2> QED BY <1>16, <2>2, <2>3, <2>4, FaultTypes DEF SyncEnters, RestTypes, viewers
  <1>17. ASSUME NEW h \in hand, PanicAsks(h) PROVE RestTypes'
    <2>1. book[h.t] \in Int  BY <1>t DEF RestTypes
    <2>2. hand' \subseteq Handlers  BY <1>17, <2>1, ContinuesTypes DEF PanicAsks
    <2> QED BY <1>17, <2>2 DEF PanicAsks, RestTypes, viewers, client, count
  <1>18. ASSUME NEW h \in hand, PanicCloses(h) PROVE RestTypes'
    <2>1. hand' \subseteq Handlers  BY <1>18 DEF PanicCloses, Ends, RestTypes
    <2>2. Fault \/ UNCHANGED faults  BY <1>18 DEF PanicCloses
    <2>3. virt' \in [Tenant -> Int] /\ book' \in [Tenant -> Int]
      BY <1>18, <1>t DEF PanicCloses, RestTypes
    <2> QED BY <1>18, <2>1, <2>2, <2>3, FaultTypes DEF PanicCloses, RestTypes, viewers
  <1>19. CASE PortalRestarts
    BY <1>0, <1>19, FaultTypes DEF PortalRestarts, RestTypes, client
  <1> QED
    BY <1>2, <1>3, <1>4, <1>5, <1>6, <1>7, <1>8, <1>9, <1>10, <1>11, <1>12, <1>13, <1>14,
       <1>15, <1>16, <1>17, <1>18, <1>19 DEF Next, Portal, Clients

-----------------------------------------------------------------------------
(* Positions and results, until there is a panic *)

\* A panic that was asked for is never forgotten.
LEMMA PanicLasts ==
  ASSUME asked \in Seq(Calls), asked' = asked \/ \E kind : asked' = Append(asked, kind)
  PROVE  Panicked => Panicked'
  BY DEF Panicked

LEMMA NumbersFit ==
  /\ \A m, n \in Int : Size(m) >= 0 /\ Size(n) <= Bigger(m, n) /\ 0 <= Bigger(m, n)
  /\ Size(0) = 0
  /\ \A n \in Int : 0 * n = 0
  /\ \A n \in Int \ {0} : n * n > 0
  BY DEF Size, Bigger

\* A result becomes ok only by the answer ok to a request of the same tenant.
LEMMA ResolvesReports ==
  ASSUME JobTypes, NEW q \in post, NEW outcome \in {"ok", "error"}, Resolves(q, outcome)
  PROVE  /\ post' \subseteq post
         /\ \A t \in Tenant : result'[t] = "ok" =>
               result[t] = "ok" \/ (outcome = "ok" /\ q.kind # "toggle" /\ t = q.t)
  BY DEF JobTypes, Resolves, Toggled, Synced, jobs

LEMMA GoesOnReports ==
  ASSUME JobTypes, NoPanic, NEW q \in post, GoesOn(q)
  PROVE  NoPanic' /\ \A t \in Tenant : result'[t] = "ok" => result[t] = "ok"
  <1>1. CASE q.left = 1
    BY <1>1, ResolvesReports DEF GoesOn, NoPanic
  <1>2. CASE q.left # 1
    <2>1. q \in Requests  BY DEF JobTypes
    <2>2. [q EXCEPT !.left = @ - 1, !.sent = FALSE].kind = q.kind
      BY <2>1, <1>2, NextAddress
    <2> QED BY <1>2, <2>2 DEF GoesOn, NoPanic, jobs
  <1> QED BY <1>1, <1>2

LEMMA EndsReports ==
  ASSUME JobTypes, NoPanic, NEW h \in Handlers, NEW outcome \in {"ok", "error"}, Ends(h, outcome)
  PROVE  /\ NoPanic' /\ hand' = hand \ {h}
         /\ \A t \in Tenant : result'[t] = "ok" =>
               result[t] = "ok" \/ (outcome = "ok" /\ t = h.t)
  <1>1. CASE UNCHANGED <<jobs, queue, post>>  BY <1>1 DEF Ends, NoPanic, jobs
  <1>2. ASSUME NEW q \in post, Handler(q, h.pc) = [h EXCEPT !.n = 0],
               Resolves(q, outcome) \/ GoesOn(q)
        PROVE  /\ NoPanic'
               /\ \A t \in Tenant : result'[t] = "ok" =>
                     result[t] = "ok" \/ (outcome = "ok" /\ t = h.t)
    <2>1. q.t = h.t
      <3>1. Handler(q, h.pc).t = q.t  BY DEF Handler
      <3>2. [h EXCEPT !.n = 0].t = h.t  BY DEF Handlers
      <3> QED BY <3>1, <3>2, <1>2
    <2>2. CASE Resolves(q, outcome)  BY <2>1, <2>2, ResolvesReports DEF NoPanic
    <2>3. CASE GoesOn(q)  BY <2>3, GoesOnReports
    <2> QED BY <1>2, <2>2, <2>3
  <1>3. hand' = hand \ {h}  BY DEF Ends
  <1> QED BY <1>1, <1>2, <1>3 DEF Ends

\* A step that leaves the clients alone and reports no success.
LEMMA ClientsRest ==
  ASSUME Calm, UNCHANGED <<hand, client>>, NoPanic',
         \A t \in Tenant : result'[t] = "ok" => result[t] = "ok"
  PROVE  Calm'
  BY DEF Calm, OneTrades, LegsFit, OkIsAligned, BooksFit, Aligned, client

\* A handler ends without a trade; it reports a success only of an aligned runner.
LEMMA EndsCalmly ==
  ASSUME JobTypes, Calm, NEW h \in Handlers, NEW outcome \in {"ok", "error"}, Ends(h, outcome),
         outcome = "ok" => Aligned(h.t), UNCHANGED client
  PROVE  Calm'
  <1>1. NoPanic  BY DEF Calm
  <1>2. /\ NoPanic' /\ hand' = hand \ {h}
        /\ \A t \in Tenant : result'[t] = "ok" => result[t] = "ok" \/ (outcome = "ok" /\ t = h.t)
    BY <1>1, EndsReports
  <1> QED BY <1>2 DEF Calm, OneTrades, LegsFit, OkIsAligned, BooksFit, Aligned, client

LEMMA HandlerMoves ==
  ASSUME NEW h \in Handlers, NEW pc, NEW n
  PROVE  /\ [h EXCEPT !.pc = pc, !.n = n].t = h.t
         /\ [h EXCEPT !.pc = pc, !.n = n].kind = h.kind
         /\ [h EXCEPT !.pc = pc, !.n = n].pc = pc
         /\ [h EXCEPT !.pc = pc, !.n = n].n = n
  BY DEF Handlers

LEMMA ClientTypes ==
  ASSUME RestTypes, NEW h \in hand
  PROVE  /\ h \in Handlers /\ h.t \in Tenant /\ h.n \in Int
         /\ virt[h.t] \in Int /\ book[h.t] \in Int
         /\ Trend[h.t] \in Int \ {0} /\ Held[h.t] \in Int
  BY FleetAssumption DEF RestTypes, Handlers, FleetAssumption

LEMMA SyncBeginsCalmly ==
  ASSUME JobTypes, RestTypes, Calm, NEW h \in hand, SyncBegins(h) PROVE Calm'
  <1>0. h \in Handlers /\ h.t \in Tenant  BY ClientTypes
  <1>1. h.kind = "sync" /\ Works(h) /\ UNCHANGED client  BY DEF SyncBegins
  <1>2. \A g \in hand : g.t = h.t => g.pc = "begun"
    BY DEF SyncBegins, Locked, Calm, LegsFit
  <1>3. CASE Aligned(h.t) /\ Ends(h, "ok")  BY <1>0, <1>1, <1>3, EndsCalmly
  <1>4. CASE Ends(h, "error")  BY <1>0, <1>1, <1>4, EndsCalmly
  <1>5. ASSUME NEW pc \in {"exit", "enter"}, NEW n \in Int, Continues(h, pc, n),
               pc = "exit" => n = virt[h.t] /\ virt[h.t] * Trend[h.t] < 0,
               pc = "enter" => /\ n = Trend[h.t] - virt[h.t]
                               /\ virt[h.t] * Trend[h.t] >= 0 /\ ~Aligned(h.t)
        PROVE  Calm'
    <2> DEFINE r == [h EXCEPT !.pc = pc, !.n = n]
    <2>1. r.t = h.t /\ r.kind = h.kind /\ r.pc = pc /\ r.n = n  BY <1>0, HandlerMoves
    <2>2. hand' = (hand \ {h}) \cup {r} /\ UNCHANGED <<jobs, post>>
      BY <1>5 DEF Continues
    <2> HIDE DEF r
    <2>3. NoPanic' /\ OkIsAligned' /\ BooksFit'
      BY <1>1, <2>2 DEF Calm, NoPanic, OkIsAligned, BooksFit, Aligned, client, jobs
    <2>4. OneTrades'  BY <1>2, <2>1, <2>2 DEF Calm, OneTrades
    <2>5. LegsFit'
      BY <1>1, <1>5, <2>1, <2>2 DEF Calm, LegsFit, Aligned, client
    <2> QED BY <2>3, <2>4, <2>5 DEF Calm
  <1>6. virt[h.t] \in Int /\ Trend[h.t] - virt[h.t] \in Int  BY ClientTypes
  <1> QED BY <1>1, <1>3, <1>4, <1>5, <1>6 DEF Works

\* The lock is free for nobody else while h trades.
LEMMA OthersWait ==
  ASSUME Calm, NEW h \in hand, h.pc # "begun"
  PROVE  \A g \in hand : g # h /\ g.t = h.t => g.pc = "begun"
  BY DEF Calm, OneTrades

LEMMA SyncExitsCalmly ==
  ASSUME JobTypes, RestTypes, Calm, NEW h \in hand, SyncExits(h) PROVE Calm'
  <1>0. /\ h \in Handlers /\ h.t \in Tenant
        /\ virt[h.t] \in Int /\ Trend[h.t] \in Int \ {0} /\ Held[h.t] \in Int
    BY ClientTypes
  <1>1. h.pc = "exit" /\ h.kind = "sync" /\ h.n = virt[h.t] /\ virt[h.t] * Trend[h.t] < 0
    BY DEF SyncExits, Calm, LegsFit
  <1>2. CASE Ends(h, "error") /\ UNCHANGED client  BY <1>0, <1>2, EndsCalmly
  <1>3. CASE /\ book' = [book EXCEPT ![h.t] = @ - h.n] /\ virt' = [virt EXCEPT ![h.t] = 0]
             /\ Continues(h, "enter", Trend[h.t])
    <2> DEFINE r == [h EXCEPT !.pc = "enter", !.n = Trend[h.t]]
    <2>1. r.t = h.t /\ r.kind = h.kind /\ r.pc = "enter" /\ r.n = Trend[h.t]
      BY <1>0, HandlerMoves
    <2>2. hand' = (hand \ {h}) \cup {r} /\ UNCHANGED <<jobs, post>>
      BY <1>3 DEF Continues
    <2> HIDE DEF r
    <2>3. virt'[h.t] = 0 /\ book'[h.t] = 0
      BY <1>0, <1>1, <1>3 DEF RestTypes, Calm, BooksFit
    <2>4. \A t \in Tenant \ {h.t} : virt'[t] = virt[t] /\ book'[t] = book[t]
      BY <1>3 DEF RestTypes
    <2>5. ~Aligned(h.t) /\ ~Aligned(h.t)'
      BY <1>0, <1>1, <2>3, NumbersFit DEF Aligned
    <2>6. NoPanic'  BY <2>2 DEF Calm, NoPanic
    <2>7. OneTrades'  BY <1>1, <2>1, <2>2, OthersWait DEF Calm, OneTrades
    <2>8. LegsFit'
      <3>1. \A g \in hand \ {h} : g.t = h.t => g.pc = "begun"  BY <1>1, OthersWait
      <3>2. \A g \in hand : g.t \in Tenant  BY ClientTypes
      <3>3. \A t \in Tenant \ {h.t} : Aligned(t)' = Aligned(t)  BY <2>4 DEF Aligned
      <3>4. 0 * Trend[h.t] >= 0 /\ Trend[h.t] = Trend[h.t] - 0  BY <1>0, NumbersFit
      <3> QED
        BY <1>1, <2>1, <2>2, <2>3, <2>4, <2>5, <3>1, <3>2, <3>3, <3>4 DEF Calm, LegsFit
    <2>9. OkIsAligned'
      BY <2>2, <2>4, <2>5 DEF Calm, OkIsAligned, Aligned, jobs
    <2>10. BooksFit'
      BY <1>0, <2>3, <2>4, NumbersFit DEF Calm, BooksFit
    <2> QED BY <2>6, <2>7, <2>8, <2>9, <2>10 DEF Calm
  <1> QED BY <1>2, <1>3 DEF SyncExits

LEMMA SyncEntersCalmly ==
  ASSUME JobTypes, RestTypes, Calm, NEW h \in hand, SyncEnters(h) PROVE Calm'
  <1>0. /\ h \in Handlers /\ h.t \in Tenant
        /\ virt[h.t] \in Int /\ Trend[h.t] \in Int \ {0} /\ Held[h.t] \in Int
    BY ClientTypes
  <1>1. h.pc = "enter" /\ h.n = Trend[h.t] - virt[h.t]
    BY DEF SyncEnters, Calm, LegsFit
  <1>2. CASE Ends(h, "error") /\ UNCHANGED client  BY <1>0, <1>2, EndsCalmly
  <1>3. CASE /\ book' = [book EXCEPT ![h.t] = @ + h.n]
             /\ virt' = [virt EXCEPT ![h.t] = Trend[h.t]] /\ Ends(h, "ok")
    <2>1. NoPanic  BY DEF Calm
    <2>2. /\ NoPanic' /\ hand' = hand \ {h}
          /\ \A t \in Tenant : result'[t] = "ok" => result[t] = "ok" \/ t = h.t
      BY <1>0, <1>3, <2>1, EndsReports
    <2>3. virt'[h.t] = Trend[h.t] /\ book'[h.t] = Trend[h.t]
      BY <1>0, <1>1, <1>3 DEF RestTypes, Calm, BooksFit
    <2>4. \A t \in Tenant \ {h.t} : virt'[t] = virt[t] /\ book'[t] = book[t]
      BY <1>3 DEF RestTypes
    <2>5. Aligned(h.t)'  BY <1>0, <2>3, NumbersFit DEF Aligned, Size
    <2>6. \A t \in Tenant \ {h.t} : Aligned(t)' = Aligned(t)  BY <2>4 DEF Aligned
    <2>7. OneTrades'  BY <2>2 DEF Calm, OneTrades
    <2>8. LegsFit'
      <3>1. \A g \in hand' : g.t = h.t => g.pc = "begun"  BY <1>1, <2>2, OthersWait
      <3>2. \A g \in hand' : g.t \in Tenant  BY <2>2, ClientTypes
      <3> QED BY <2>2, <2>4, <2>6, <3>1, <3>2 DEF Calm, LegsFit
    <2>9. OkIsAligned'  BY <2>2, <2>5, <2>6 DEF Calm, OkIsAligned
    <2>10. BooksFit'  BY <1>0, <2>3, <2>4, NumbersFit DEF Calm, BooksFit
    <2> QED BY <2>2, <2>7, <2>8, <2>9, <2>10 DEF Calm
  <1> QED BY <1>2, <1>3 DEF SyncEnters

LEMMA ClientStep == PortalInv /\ RestTypes /\ ClientInv /\ [Next]_vars => ClientInv'
  <1> SUFFICES ASSUME PortalInv, RestTypes, ClientInv, [Next]_vars, ~Panicked' PROVE Calm'
    BY DEF ClientInv
  <1>0. JobTypes  BY DEF PortalInv
  <1>p. asked' = asked \/ \E kind : asked' = Append(asked, kind)
    BY DEF Next, vars, Portal, Clients, JobStarts, FleetStarts, PanicsAll, AsksSync, Asks, Opens, Watches,
           Takes, Idles, TimesOut, JobCompletes, TakesPermit, FleetAsks, Arrives, Toggles, SyncBegins,
           SyncExits, SyncEnters, PanicAsks, PanicCloses, PortalRestarts, count
  <1>c. Calm  BY <1>p, PanicLasts DEF ClientInv, RestTypes
  <1>1. ASSUME UNCHANGED <<hand, client, result>>, NoPanic' PROVE Calm'
    BY <1>c, <1>1, ClientsRest
  <1>2. CASE UNCHANGED vars
    BY <1>c, <1>1, <1>2 DEF vars, jobs, Calm, NoPanic
  <1>3. ASSUME NEW what, JobStarts(what) PROVE Calm'
    BY <1>c, <1>1, <1>3 DEF JobStarts, Calm, NoPanic, Request
  <1>4. CASE FleetStarts  BY <1>c, <1>1, <1>4 DEF FleetStarts, Calm, NoPanic, jobs
  <1>5. CASE PanicsAll
    <2>1. asked' = Append(asked, "panic")  BY <1>5 DEF PanicsAll, Asks
    <2>2. Panicked'  BY <2>1 DEF Panicked, RestTypes
    <2> QED BY <2>2
  <1>6. ASSUME NEW t \in Tenant, AsksSync(t) PROVE Calm'
    BY <1>c, <1>1, <1>6 DEF AsksSync, Calm, NoPanic, Request, jobs
  <1>7. ASSUME NEW t \in Tenant, FleetAsks(t) PROVE Calm'
    BY <1>c, <1>1, <1>7 DEF FleetAsks, Calm, NoPanic, Request, jobs
  <1>8. ASSUME NEW s \in Stream, Opens(s) \/ Watches(s) PROVE Calm'
    BY <1>c, <1>1, <1>8 DEF Opens, Watches, Takes, Idles, Calm, NoPanic, jobs
  <1>9. ASSUME NEW q \in post, TimesOut(q) PROVE Calm'
    BY <1>0, <1>c, <1>9, GoesOnReports, ClientsRest DEF TimesOut, Calm
  <1>10. CASE JobCompletes  BY <1>c, <1>1, <1>10 DEF JobCompletes, Calm, NoPanic
  <1>11. ASSUME NEW t \in Tenant, TakesPermit(t) PROVE Calm'
    BY <1>c, <1>1, <1>11 DEF TakesPermit, Calm, NoPanic, Request
  <1>12. ASSUME NEW q \in post, Toggles(q) PROVE Calm'
    BY <1>0, <1>c, <1>12, ResolvesReports, ClientsRest DEF Toggles, Calm, NoPanic
  <1>13. ASSUME NEW q \in post, Arrives(q) PROVE Calm'
    <2>1. q \in Requests /\ q.kind = "sync"
      BY <1>0, <1>c, <1>13 DEF JobTypes, Calm, NoPanic, Requests, Arrives
    <2>2. [q EXCEPT !.sent = TRUE].kind = q.kind  BY <2>1 DEF Requests
    <2>3. Handler(q, "begun").pc = "begun" /\ Handler(q, "begun").kind = "sync"
      BY <2>1 DEF Handler
    <2>4. /\ post' = (post \ {q}) \cup {[q EXCEPT !.sent = TRUE]}
          /\ hand' = hand \cup {Handler(q, "begun")} /\ UNCHANGED <<jobs, client>>
      BY <1>13 DEF Arrives
    <2>5. NoPanic'  BY <1>c, <2>1, <2>2, <2>4 DEF Calm, NoPanic
    <2>6. OneTrades' /\ LegsFit'
      BY <1>c, <2>3, <2>4 DEF Calm, OneTrades, LegsFit, Aligned, client
    <2>7. OkIsAligned' /\ BooksFit'
      BY <1>c, <2>4 DEF Calm, OkIsAligned, BooksFit, Aligned, client, jobs
    <2> QED BY <2>5, <2>6, <2>7 DEF Calm
  <1>14. ASSUME NEW h \in hand, SyncBegins(h) PROVE Calm'
    BY <1>0, <1>c, <1>14, SyncBeginsCalmly
  <1>15. ASSUME NEW h \in hand, SyncExits(h) PROVE Calm'
    BY <1>0, <1>c, <1>15, SyncExitsCalmly
  <1>16. ASSUME NEW h \in hand, SyncEnters(h) PROVE Calm'
    BY <1>0, <1>c, <1>16, SyncEntersCalmly
  <1>17. ASSUME NEW h \in hand, PanicAsks(h) \/ PanicCloses(h) PROVE Calm'
    BY <1>c, <1>17 DEF PanicAsks, PanicCloses, Calm, LegsFit
  <1>18. CASE PortalRestarts
    BY <1>c, <1>18, ClientsRest DEF PortalRestarts, NoPanic
  <1> QED
    BY <1>2, <1>3, <1>4, <1>5, <1>6, <1>7, <1>8, <1>9, <1>10, <1>11, <1>12, <1>13, <1>14,
       <1>15, <1>16, <1>17, <1>18 DEF Next, Portal, Clients

-----------------------------------------------------------------------------
(* The theorems *)

LEMMA InitHolds == Init => FleetInv
  <1> SUFFICES ASSUME Init PROVE FleetInv
    OBVIOUS
  <1> USE FleetAssumption DEF FleetAssumption
  <1>1. Cardinality(Syncing) = 0
    <2>1. Syncing = {}  BY DEF Init, Syncing
    <2> QED BY <2>1, FS_EmptySet
  <1>2. PermitsHold  BY <1>1 DEF Init, PermitsHold, Syncing
  <1>3. PortalInv  BY <1>2 DEF Init, PortalInv, JobTypes, OneRequestEach
  <1>4. RestTypes  BY DEF Init, RestTypes
  <1>5. Calm
    <2>1. \A t \in Tenant : Held[t] \in Int /\ Trend[t] \in Int
      OBVIOUS
    <2>2. \A m, n \in Int : Size(m) <= Bigger(m, n)  BY DEF Size, Bigger
    <2>3. BooksFit  BY <2>1, <2>2 DEF Init, BooksFit
    <2> QED BY <2>3 DEF Init, Calm, NoPanic, OneTrades, LegsFit, OkIsAligned
  <1> QED BY <1>3, <1>4, <1>5 DEF FleetInv, ClientInv

LEMMA Invariance == Spec => []FleetInv
  <1>1. FleetInv /\ [Next]_vars => FleetInv'
    BY PortalStep, RestStep, ClientStep DEF FleetInv
  <1> QED BY <1>1, InitHolds, PTL DEF Spec

\* The types, with the permits between none and all.
THEOREM Types == Spec => []TypeOK
  <1>1. FleetInv => TypeOK
    <2> SUFFICES ASSUME FleetInv PROVE TypeOK
      OBVIOUS
    <2>1. Cardinality(Syncing) \in Nat /\ Permits \in Nat
      BY SyncingIsFinite, FleetAssumption DEF FleetInv, PortalInv, FleetAssumption
    <2>2. free \in Nat /\ Cardinality(Syncing) + free = Permits
      BY DEF FleetInv, PortalInv, JobTypes, PermitsHold, Syncing
    <2>3. free \in 0 .. Permits  BY <2>1, <2>2
    <2>4. \A q \in post : q.left \in 1 .. Urls
      BY DEF FleetInv, PortalInv, JobTypes, Requests
    <2> QED BY <2>3, <2>4 DEF FleetInv, PortalInv, JobTypes, RestTypes, TypeOK
  <1> QED BY <1>1, Invariance, PTL

\* The permits are neither lost nor multiplied by answers, errors, timeouts at the
\* last address, or a restart of the portal.
THEOREM PermitsKept == Spec => []PermitsHold
  <1>1. FleetInv => PermitsHold  BY DEF FleetInv, PortalInv
  <1> QED BY <1>1, Invariance, PTL

\* Repeated and concurrent syncs leave the broker where the runner believes it is,
\* and never with more than the strategy's lots, as long as nobody panics.
THEOREM SyncsAgree == Spec => []RepeatedSyncsAgree
  <1>1. FleetInv => RepeatedSyncsAgree
    BY DEF FleetInv, ClientInv, Calm, BooksFit, RepeatedSyncsAgree
  <1> QED BY <1>1, Invariance, PTL

\* What the job reports as synced is what the broker holds.
THEOREM SyncedIsTrue == Spec => []SyncedMeansSynced
  <1>1. FleetInv => SyncedMeansSynced
    BY DEF FleetInv, ClientInv, Calm, BooksFit, OkIsAligned, Aligned, SyncedMeansSynced
  <1> QED BY <1>1, Invariance, PTL
=============================================================================
