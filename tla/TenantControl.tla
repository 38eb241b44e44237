--------------------------- MODULE TenantControl ---------------------------
(***************************************************************************)
(* The portal's hold on its tenants: the row of each in the portal's       *)
(* database (portal/main.py, portal/bulk_operations_service.py), the       *)
(* config.json and the container made from it (portal/docker_manager.py),  *)
(* the webhook routes (portal/caddy_manager.py), what the running client   *)
(* has in memory (client/main.py), and the scheduler that restarts and     *)
(* pauses tenants by itself (portal/scheduler.py).                         *)
(*                                                                         *)
(* The portal is one event loop and its handlers await only the requests   *)
(* they send to a client: a handler is one step up to there, and one step  *)
(* for each address it then tries. A tenant has one strategy here.         *)
(***************************************************************************)
EXTENDS Integers

CONSTANTS
    Tenant,
    Legacy,     \* tenants that begin with a row of the old single-strategy table
    Urls,       \* addresses a request is tried at, one after the other
    Calls,      \* operations the operator may ask for
    MaxCalls,   \* bound: operations
    MaxFaults   \* bound: crashes, failed or late requests, Docker and Caddy errors

Kinds == {"add", "pause", "resume", "edit", "delete", "save", "toggle", "remove",
          "api", "config", "bulk", "panic"}

ASSUME TenantAssumption ==
    /\ Legacy \subseteq Tenant /\ Urls \in Nat \ {0}
    /\ Calls \subseteq Kinds
    /\ MaxCalls \in Nat /\ MaxFaults \in Nat

VARIABLES
    status,   \* of the tenant's row: "none", "ACTIVE" or "PAUSED"
    row,      \* the strategy in the database: "absent", "off" or "on"
    old,      \* the strategy in the old table
    file,     \* the strategy in config.json
    box,      \* the container: "none", "down", "boot" or "up"
    live,     \* the strategy in the client's memory
    halted,   \* the client's TRADING_PAUSED
    loss,     \* the day's loss is over the tenant's limit
    route,    \* tenants whose webhooks Caddy routes
    stale,    \* the last reload of Caddy failed
    post,     \* requests the portal is sending
    late,     \* requests given up by the portal that the client will still serve
    sched,    \* what the scheduler does: "idle", "breaker", "panic", "pause", "rest", "warmup", "broken"
    list,     \* tenants it has still to visit
    hit,      \* the tenant it is stopping
    calls,
    faults

table  == <<status, row, old>>
memory == <<live, halted>>
caddy  == <<route, stale>>
wire   == <<post, late>>
loop   == <<sched, list, hit>>
count  == <<calls, faults>>
vars   == <<table, file, box, memory, loss, caddy, wire, loop, count>>

Strategy == {"absent", "off", "on"}
Requests == {"enable", "disable", "save_on", "save_off", "remove", "all_on", "all_off", "panic"}

Active == {t \in Tenant : status[t] = "ACTIVE"}

Init ==
    /\ status = [t \in Tenant |-> "ACTIVE"]
    /\ row = [t \in Tenant |-> "on"] /\ file = row
    /\ old = [t \in Tenant |-> IF t \in Legacy THEN "on" ELSE "absent"]
    /\ box = [t \in Tenant |-> "up"]
    /\ live = row
    /\ halted = [t \in Tenant |-> FALSE]
    /\ loss = [t \in Tenant |-> FALSE]
    /\ route = Tenant /\ stale = FALSE
    /\ post = {} /\ late = {}
    /\ sched = "idle" /\ list = {} /\ hit = {}
    /\ calls = 0 /\ faults = 0

Asks(kind) == kind \in Calls /\ calls < MaxCalls /\ calls' = calls + 1
Fault == faults < MaxFaults /\ faults' = faults + 1

-----------------------------------------------------------------------------
(* Containers *)

\* What the client had in memory is gone, and so are the requests it had accepted.
Forgets(t) ==
    /\ live' = [live EXCEPT ![t] = "absent"]
    /\ halted' = [halted EXCEPT ![t] = FALSE]
    /\ late' = {q \in late : q.t # t}

\* The strategy of config.json: the old table's, when the new one has none.
Made(t, r) == IF r = "absent" THEN old[t] ELSE r

\* The caller does not look whether Docker has stopped it.
Stops(t, works) ==
    IF works THEN box' = [box EXCEPT ![t] = IF @ = "none" THEN "none" ELSE "down"] /\ Forgets(t)
             ELSE UNCHANGED <<box, memory, late>>

\* Docker fails, or raises: it cannot be reached, and in its image the portal has no
\* client's code beside it that it could start as a process instead.
Outcome == {"works", "fails", "raises"}

\* The container is restarted, or replaced when that fails. When that fails too the
\* tenant has none, or one that was not started; or the old one could not be removed
\* either, its name is taken, and it stays as it is, stopped or running on with what
\* it has in memory.
Starts(t, docker) ==
    \/ docker = "works" /\ box' = [box EXCEPT ![t] = "boot"] /\ Forgets(t)
    \/ /\ docker = "fails" /\ Forgets(t)
       /\ \E left \in {"none", "down"} : box' = [box EXCEPT ![t] = left]
    \/ docker # "works" /\ \E stopped \in BOOLEAN : Stops(t, stopped)

\* Mutation: the container comes back with the config.json it had.
RestartsStale(t, r, docker) == Starts(t, docker) /\ UNCHANGED file

\* config.json is written anew first.
Restarts(t, r, docker) ==
    /\ file' = [file EXCEPT ![t] = Made(t, r)]
    /\ Starts(t, docker)

Boots(t) ==
    /\ box[t] = "boot"
    /\ box' = [box EXCEPT ![t] = "up"]
    /\ live' = [live EXCEPT ![t] = file[t]]
    /\ UNCHANGED <<table, file, halted, loss, caddy, wire, loop, count>>

\* Docker restarts a container that was not stopped.
Crashes(t) ==
    /\ box[t] = "up" /\ Fault
    /\ box' = [box EXCEPT ![t] = "boot"]
    /\ Forgets(t)
    /\ UNCHANGED <<table, file, loss, caddy, post, loop, calls>>

\* Caddy is given a route for each tenant that is now ACTIVE.
Reloads(now, works) ==
    IF works THEN route' = {t \in Tenant : now[t] = "ACTIVE"} /\ stale' = FALSE
             ELSE stale' = TRUE /\ UNCHANGED route

\* What Docker raises ends a handler before Caddy is reloaded.
ReloadsAfter(docker, now, works) ==
    IF docker = "raises" THEN UNCHANGED caddy ELSE Reloads(now, works)

\* Docker or Caddy may fail a handler.
Spends(docker, proxy) == IF docker /\ proxy THEN UNCHANGED faults ELSE Fault

-----------------------------------------------------------------------------
(* Operations that act on the container *)

AddsWith(t, r, docker, proxy) ==
    /\ Asks("add") /\ status[t] = "none" /\ Spends(docker = "works", proxy)
    /\ status' = [status EXCEPT ![t] = "ACTIVE"]
    /\ row' = [row EXCEPT ![t] = r]
    /\ Restarts(t, r, docker)
    /\ ReloadsAfter(docker, status', proxy)
    /\ UNCHANGED <<old, loss, post, loop>>

\* The form comes with strategies that are switched on, the JSON interface with none.
Add(t, docker, proxy)    == AddsWith(t, "on", docker, proxy)
ApiAdd(t, docker, proxy) == AddsWith(t, "absent", docker, proxy)

Pause(t, docker, proxy) ==
    /\ Asks("pause") /\ status[t] # "none" /\ Spends(docker, proxy)
    /\ status' = [status EXCEPT ![t] = "PAUSED"]
    /\ Stops(t, docker)
    /\ Reloads(status', proxy)
    /\ UNCHANGED <<row, old, file, loss, post, loop>>

Resume(t, docker, proxy) ==
    /\ Asks("resume") /\ status[t] # "none" /\ Spends(docker = "works", proxy)
    /\ status' = [status EXCEPT ![t] = "ACTIVE"]
    /\ Restarts(t, row[t], docker)
    /\ ReloadsAfter(docker, status', proxy)
    /\ UNCHANGED <<row, old, loss, post, loop>>

\* An edit or a restart starts the container whatever the tenant's status.
Edit(t, docker) ==
    /\ Asks("edit") /\ status[t] # "none" /\ Spends(docker = "works", TRUE)
    /\ Restarts(t, row[t], docker)
    /\ UNCHANGED <<table, loss, caddy, post, loop>>

\* Mutation: foreign keys are not enforced, so the old table keeps its row.
DeleteKeepsOld(t, docker, proxy) ==
    /\ Asks("delete") /\ status[t] # "none" /\ Spends(docker, proxy)
    /\ IF docker THEN box' = [box EXCEPT ![t] = "none"] /\ Forgets(t)
                 ELSE \E stopped \in BOOLEAN : Stops(t, stopped)
    /\ status' = [status EXCEPT ![t] = "none"]
    /\ row' = [row EXCEPT ![t] = "absent"]
    /\ Reloads(status', proxy)
    /\ UNCHANGED <<old, file, loss, post, loop>>

\* Credentials and strategies, old and new, go with the tenant's row; the container
\* stays, and may run, when Docker does not remove it.
Delete(t, docker, proxy) ==
    /\ Asks("delete") /\ status[t] # "none" /\ Spends(docker, proxy)
    /\ IF docker THEN box' = [box EXCEPT ![t] = "none"] /\ Forgets(t)
                 ELSE \E stopped \in BOOLEAN : Stops(t, stopped)
    /\ status' = [status EXCEPT ![t] = "none"]
    /\ row' = [row EXCEPT ![t] = "absent"] /\ old' = [old EXCEPT ![t] = "absent"]
    /\ Reloads(status', proxy)
    /\ UNCHANGED <<file, loss, post, loop>>

-----------------------------------------------------------------------------
(* Operations that tell the running client *)

Sends(t, what) ==
    post' = post \cup {[id |-> calls', t |-> t, what |-> what, left |-> Urls]}

\* Row and file change, then the client is told.
Writes(t, now) ==
    /\ row' = [row EXCEPT ![t] = now]
    /\ file' = [file EXCEPT ![t] = Made(t, now)]
    /\ UNCHANGED <<status, old, box, memory, loss, caddy, late, loop, faults>>

Save(t) ==
    /\ Asks("save") /\ status[t] # "none"
    /\ \/ Writes(t, "on") /\ Sends(t, "save_on")
       \/ Writes(t, "off") /\ Sends(t, "save_off")

Toggle(t) ==
    /\ Asks("toggle")
    /\ \/ row[t] = "on" /\ Writes(t, "off") /\ Sends(t, "disable")
       \/ row[t] = "off" /\ Writes(t, "on") /\ Sends(t, "enable")

Remove(t) ==
    /\ Asks("remove") /\ row[t] # "absent"
    /\ Writes(t, "absent") /\ Sends(t, "remove")

\* The JSON interface saves and removes strategies without telling the client.
ApiSave(t) ==
    /\ Asks("api") /\ status[t] # "none"
    /\ Writes(t, "on") /\ UNCHANGED post

ApiRemove(t) ==
    /\ Asks("api") /\ row[t] # "absent"
    /\ Writes(t, "absent") /\ UNCHANGED post

\* The old table's form changes that table and the client.
SaveConfig(t) ==
    /\ Asks("config") /\ status[t] # "none"
    /\ \/ old' = [old EXCEPT ![t] = "on"] /\ Sends(t, "save_on")
       \/ old' = [old EXCEPT ![t] = "off"] /\ Sends(t, "save_off")
    /\ UNCHANGED <<status, row, file, box, memory, loss, caddy, late, loop, faults>>

\* A bulk operation changes the rows and the client, not config.json nor the routes.
Bulk(t) ==
    /\ Asks("bulk") /\ status[t] # "none"
    /\ \/ /\ status' = [status EXCEPT ![t] = "PAUSED"]
          /\ row' = [row EXCEPT ![t] = IF @ = "on" THEN "off" ELSE @]
          /\ Sends(t, "all_off")
       \/ /\ status' = [status EXCEPT ![t] = "ACTIVE"]
          /\ row' = [row EXCEPT ![t] = IF @ = "off" THEN "on" ELSE @]
          /\ Sends(t, "all_on")
    /\ UNCHANGED <<old, file, box, memory, loss, caddy, late, loop, faults>>

Panic(t) ==
    /\ Asks("panic") /\ status[t] # "none"
    /\ Sends(t, "panic")
    /\ UNCHANGED <<table, file, box, memory, loss, caddy, late, loop, faults>>

-----------------------------------------------------------------------------
(* Requests on their way *)

Switched(now, to) == IF now = "absent" THEN now ELSE to

\* The strategy after the client has served the request.
After(what, now) ==
    CASE what = "save_on"  -> "on"
      [] what = "save_off" -> "off"
      [] what = "remove"   -> "absent"
      [] what \in {"enable", "all_on"}   -> Switched(now, "on")
      [] what \in {"disable", "all_off"} -> Switched(now, "off")
      [] what = "panic" -> now

Serves(q) ==
    /\ live' = [live EXCEPT ![q.t] = After(q.what, @)]
    /\ halted' = [halted EXCEPT ![q.t] = @ \/ q.what = "panic"]

\* The next address is tried unless the client has answered 200.
GoesOn(q) ==
    post' = (post \ {q}) \cup IF q.left = 1 THEN {} ELSE {[q EXCEPT !.left = @ - 1]}

NotThere(q) == q.what \in {"enable", "disable", "remove"} /\ live[q.t] = "absent"

Answered(q) ==
    /\ q \in post /\ box[q.t] = "up"
    /\ Serves(q)
    /\ IF NotThere(q) THEN GoesOn(q) ELSE post' = post \ {q}
    /\ UNCHANGED <<table, file, box, loss, caddy, late, loop, count>>

\* The client is not there, or the request is lost or times out; in the last case
\* it is served all the same.
Unanswered(q) ==
    /\ q \in post
    /\ GoesOn(q)
    /\ \/ box[q.t] # "up" /\ UNCHANGED <<late, faults>>
       \/ box[q.t] = "up" /\ Fault /\ late' \in {late, late \cup {q}}
    /\ UNCHANGED <<table, file, box, memory, loss, caddy, loop, calls>>

ServedLate(q) ==
    /\ q \in late /\ late' = late \ {q}
    /\ Serves(q)
    /\ UNCHANGED <<table, file, box, loss, caddy, post, loop, count>>

-----------------------------------------------------------------------------
(* The scheduler: one loop for the breaker and the morning's restarts *)

BreakerStarts ==
    /\ sched = "idle" /\ sched' = "breaker"
    /\ list' = Active
    /\ UNCHANGED <<table, file, box, memory, loss, caddy, wire, hit, count>>

\* A client that is stopped, paused or does not answer shows no loss.
Telemetry(t) == loss[t] /\ box[t] = "up" /\ status[t] = "ACTIVE"

BreakerPasses(t) ==
    /\ sched = "breaker" /\ t \in list
    /\ (~Telemetry(t) /\ UNCHANGED faults) \/ Fault
    /\ list' = list \ {t}
    /\ UNCHANGED <<table, file, box, memory, loss, caddy, wire, sched, hit, calls>>

BreakerTrips(t) ==
    /\ sched = "breaker" /\ t \in list
    /\ Telemetry(t)
    /\ sched' = "panic" /\ hit' = {t} /\ list' = list \ {t}
    /\ UNCHANGED <<table, file, box, memory, loss, caddy, wire, count>>

\* The tenant is paused next, whether its client has answered or not.
BreakerPanics(t) ==
    /\ sched = "panic" /\ t \in hit /\ sched' = "pause"
    /\ \/ box[t] = "up" /\ halted' = [halted EXCEPT ![t] = TRUE] /\ UNCHANGED faults
       \/ box[t] # "up" /\ UNCHANGED <<halted, faults>>
       \/ Fault /\ UNCHANGED halted
    /\ UNCHANGED <<table, file, box, live, loss, caddy, wire, list, hit, calls>>

\* Mutation: a client whose panic was answered is not paused as well.
BreakerPausesUnlessHalted(t) ==
    /\ sched = "pause" /\ t \in hit /\ sched' = "breaker" /\ hit' = {}
    /\ status' = [status EXCEPT ![t] = IF @ = "ACTIVE" /\ ~halted[t] THEN "PAUSED" ELSE @]
    /\ \E proxy \in BOOLEAN : Reloads(status', proxy) /\ Spends(TRUE, proxy)
    /\ UNCHANGED <<row, old, file, box, memory, loss, list, wire, calls>>

BreakerPauses(t) ==
    /\ sched = "pause" /\ t \in hit /\ sched' = "breaker" /\ hit' = {}
    /\ status' = [status EXCEPT ![t] = IF @ = "none" THEN @ ELSE "PAUSED"]
    /\ \E proxy \in BOOLEAN : Reloads(status', proxy) /\ Spends(TRUE, proxy)
    /\ UNCHANGED <<row, old, file, box, memory, loss, wire, list, calls>>

BreakerEnds ==
    /\ sched = "breaker" /\ list = {} /\ sched' = "rest"
    /\ UNCHANGED <<table, file, box, memory, loss, caddy, wire, list, hit, count>>

\* Five seconds later, or after the half hour between the restarts and the market's
\* opening, when the breaker is suspended and containers have had time to boot.
MarketOpens ==
    /\ sched \in {"rest", "warmup", "broken"} /\ list = {}
    /\ sched # "rest" => \A t \in Tenant : box[t] # "boot"
    /\ sched' = "idle"
    /\ UNCHANGED <<table, file, box, memory, loss, caddy, wire, list, hit, count>>

\* At 08:30, and once more if an exception has ended it within 15 seconds. The list is
\* read once; the loop sleeps between the restarts. The loss of the day before is
\* forgotten, or goes with positions that were carried over.
WarmUpStarts ==
    /\ sched \in {"rest", "broken"} /\ sched' = "warmup"
    /\ list' = Active
    /\ loss' \in {loss, [t \in Tenant |-> FALSE]}
    /\ UNCHANGED <<table, file, box, memory, caddy, wire, hit, count>>

\* An exception ends the warm-up.
BreaksOff == sched' = "broken" /\ list' = {}

WarmUpTries(t, docker) ==
    /\ Restarts(t, row[t], docker) /\ Spends(docker = "works", TRUE)
    /\ IF docker = "raises" THEN BreaksOff ELSE list' = list \ {t} /\ UNCHANGED sched

\* Mutation: a tenant deleted since the list was read is restarted all the same.
WarmUpRestartsAny(t) ==
    /\ sched = "warmup" /\ t \in list
    /\ \E docker \in Outcome : WarmUpTries(t, docker)
    /\ UNCHANGED <<table, loss, caddy, post, hit, calls>>

\* A tenant deleted since has no credentials, which raises as Docker does.
WarmUpRestarts(t) ==
    /\ sched = "warmup" /\ t \in list
    /\ IF status[t] = "none"
       THEN BreaksOff /\ UNCHANGED <<file, box, memory, late, faults>>
       ELSE \E docker \in Outcome : WarmUpTries(t, docker)
    /\ UNCHANGED <<table, loss, caddy, post, hit, calls>>

-----------------------------------------------------------------------------
(* The portal's own restart, and the market *)

\* Requests on their way and the scheduler's place are lost. Start-up copies the
\* strategy of the old table to the new one where it is missing.
PortalRestarts ==
    /\ Fault
    /\ row' = [t \in Tenant |-> Made(t, row[t])]
    /\ post' = {} /\ late' \in {late, late \cup post}
    /\ sched' = "idle" /\ list' = {} /\ hit' = {}
    /\ Reloads(status, TRUE)
    /\ UNCHANGED <<status, old, file, box, memory, loss, calls>>

Loses(t) ==
    /\ ~loss[t] /\ box[t] = "up" /\ live[t] = "on" /\ ~halted[t]
    /\ loss' = [loss EXCEPT ![t] = TRUE]
    /\ UNCHANGED <<table, file, box, memory, caddy, wire, loop, count>>

-----------------------------------------------------------------------------
Operation(t) ==
    \/ \E docker \in Outcome, proxy \in BOOLEAN :
          Add(t, docker, proxy) \/ ApiAdd(t, docker, proxy) \/ Resume(t, docker, proxy)
    \/ \E docker \in Outcome : Edit(t, docker)
    \/ \E docker, proxy \in BOOLEAN : Pause(t, docker, proxy) \/ Delete(t, docker, proxy)
    \/ Save(t) \/ Toggle(t) \/ Remove(t) \/ ApiSave(t) \/ ApiRemove(t)
    \/ SaveConfig(t) \/ Bulk(t) \/ Panic(t)

Delivery ==
    \/ \E q \in post : Answered(q) \/ Unanswered(q)
    \/ \E q \in late : ServedLate(q)

BreakerLoop ==
    \/ BreakerStarts \/ BreakerEnds \/ MarketOpens
    \/ \E t \in Tenant :
          BreakerPasses(t) \/ BreakerTrips(t) \/ BreakerPanics(t) \/ BreakerPauses(t)

WarmUp == \E t \in Tenant : WarmUpRestarts(t)

Next ==
    \/ \E t \in Tenant : Operation(t) \/ Boots(t) \/ Crashes(t) \/ Loses(t)
    \/ Delivery \/ BreakerLoop \/ WarmUpStarts \/ WarmUp \/ PortalRestarts

Spec == Init /\ [][Next]_vars

\* Every morning comes; containers boot, requests end, the loop goes on.
Fairness ==
    /\ \A t \in Tenant : WF_vars(Boots(t))
    /\ WF_vars(Delivery) /\ WF_vars(BreakerLoop \/ WarmUp) /\ SF_vars(WarmUpStarts)

FairSpec == Spec /\ Fairness

-----------------------------------------------------------------------------
(* Properties *)

Request == [id : 1 .. MaxCalls, t : Tenant, what : Requests, left : 1 .. Urls]

TypeOK ==
    /\ status \in [Tenant -> {"none", "ACTIVE", "PAUSED"}]
    /\ row \in [Tenant -> Strategy] /\ old \in [Tenant -> Strategy]
    /\ file \in [Tenant -> Strategy]
    /\ live \in [Tenant -> Strategy]
    /\ box \in [Tenant -> {"none", "down", "boot", "up"}]
    /\ halted \in [Tenant -> BOOLEAN] /\ loss \in [Tenant -> BOOLEAN]
    /\ route \subseteq Tenant /\ stale \in BOOLEAN
    /\ post \subseteq Request /\ late \subseteq Request
    /\ sched \in {"idle", "breaker", "panic", "pause", "rest", "warmup", "broken"}
    /\ list \subseteq Tenant /\ hit \subseteq Tenant
    /\ calls \in 0 .. MaxCalls /\ faults \in 0 .. MaxFaults

\* A deleted tenant stays gone: neither a late pause, nor a restart of the portal,
\* nor a request on its way brings its row, its strategies or its route back.
GoneStaysGone ==
    \A t \in Tenant : status[t] = "none" =>
        row[t] = "absent" /\ old[t] = "absent" /\ (t \in route => stale)

\* And no warm-up that read it as ACTIVE starts a container for it again.
NoRevival == [][\A t \in Tenant :
    box[t] = "none" /\ box'[t] # "none" => status'[t] # "none"]_vars

\* Whatever was written without being sent, sent without being written, lost or
\* served late, and whatever crashed: in the end a client that runs for an ACTIVE
\* tenant runs what config.json is made from, because every morning restarts it.
Faithful(t) == status[t] = "ACTIVE" =>
    box[t] \in {"boot", "up"} /\ (box[t] = "up" => live[t] = Made(t, row[t]))
MorningRepairs == <>[](\A t \in Tenant : Faithful(t))

\* An ACTIVE tenant that stays over its loss limit is paused in the end, although
\* telemetry, panic calls and Caddy fail and its client restarts meanwhile.
BreachIsPaused ==
    \A t \in Tenant : loss[t] /\ status[t] = "ACTIVE" ~> status[t] # "ACTIVE" \/ ~loss[t]

\* Three that the code does not keep: a client the operator paused is started again
\* only by the operator's resume; a strategy removed from the table comes back only
\* when it is saved or added; a deleted tenant has no client running.
PausedStaysDown == [][\A t \in Tenant :
    status[t] = "PAUSED" /\ box[t] = "down" /\ status'[t] = "PAUSED" => box'[t] = "down"]_vars
RemovedStaysRemoved == [][\A t \in Tenant :
    row[t] = "absent" /\ row'[t] = "on" => calls' # calls]_vars
GoneIsStopped == \A t \in Tenant : status[t] = "none" => box[t] \in {"none", "down"}
=============================================================================
