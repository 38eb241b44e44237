------------------------ MODULE TenantControlProofs ------------------------
(***************************************************************************)
(* TenantControl's type invariant, and that a deleted tenant stays gone,   *)
(* for any number of tenants, calls and faults. One lemma per invariant,   *)
(* one step per action.                                                    *)
(***************************************************************************)
EXTENDS TenantControl, TLAPS

Typing ==
    /\ status \in [Tenant -> {"none", "ACTIVE", "PAUSED"}]
    /\ row \in [Tenant -> Strategy] /\ old \in [Tenant -> Strategy]
    /\ file \in [Tenant -> Strategy]
    /\ live \in [Tenant -> Strategy]
    /\ box \in [Tenant -> {"none", "down", "boot", "up"}]

USE DEF table, memory, caddy, wire, loop, count

\* The strategy a request leaves in memory is a strategy.
LEMMA AfterStrategy ==
    ASSUME NEW what \in Requests, NEW now \in Strategy
    PROVE  After(what, now) \in Strategy
BY DEF After, Switched, Requests, Strategy

\* A request repeated has one address less to try.
LEMMA GoesOnTypes ==
    ASSUME post \subseteq Request, NEW q \in post, GoesOn(q)
    PROVE  post' \subseteq Request
<1>1. q \in Request
  OBVIOUS
<1>2. q.left \in 1 .. Urls
  BY <1>1 DEF Request
<1>3. CASE q.left = 1
  BY <1>3 DEF GoesOn
<1>4. CASE q.left # 1
  <2>1. q.left - 1 \in 1 .. Urls
    BY <1>2, <1>4, TenantAssumption
  <2>2. [q EXCEPT !.left = @ - 1] \in Request
    BY <2>1, <1>1 DEF Request
  <2>3. QED
    BY <2>2, <1>4 DEF GoesOn
<1>5. QED
  BY <1>3, <1>4

\* A request sent is a request.
LEMMA SendsTypes ==
    ASSUME post \subseteq Request, NEW t \in Tenant, NEW what \in Requests, Sends(t, what),
           calls' \in 1 .. MaxCalls
    PROVE  post' \subseteq Request
BY TenantAssumption DEF Sends, Request

\* Every step keeps the types of the functions over the tenants.
LEMMA TypingStep ==
    ASSUME TypeOK, [Next]_vars
    PROVE  Typing'
<1> USE DEF Typing, TypeOK, Strategy
<1>0. ASSUME NEW t \in Tenant, NEW docker, NEW r \in Strategy, Restarts(t, r, docker)
      PROVE  file' \in [Tenant -> Strategy] /\ live' \in [Tenant -> Strategy]
             /\ box' \in [Tenant -> {"none", "down", "boot", "up"}]
  <2>1. Made(t, r) \in Strategy
    BY DEF Made
  <2>2. QED
    BY <1>0, <2>1 DEF Restarts, Starts, Stops, Forgets
<1>a. ASSUME NEW t \in Tenant, NEW now \in Strategy, Writes(t, now) PROVE Typing'
  <2>1. Made(t, now) \in Strategy
    BY DEF Made
  <2>2. QED
    BY <1>a, <2>1 DEF Writes
<1>1. ASSUME NEW t \in Tenant, Operation(t) PROVE Typing'
  <2>1. ASSUME NEW docker \in Outcome, NEW proxy \in BOOLEAN,
               NEW r \in {"on", "absent"}, AddsWith(t, r, docker, proxy)
        PROVE  Typing'
    BY <1>0, <2>1 DEF AddsWith
  <2>2. ASSUME NEW docker \in BOOLEAN, NEW proxy \in BOOLEAN,
               Pause(t, docker, proxy) \/ Delete(t, docker, proxy)
        PROVE  Typing'
    BY <2>2 DEF Pause, Delete, Stops, Forgets
  <2>0. row[t] \in Strategy
    OBVIOUS
  <2>3. ASSUME NEW docker \in Outcome, NEW proxy \in BOOLEAN,
               Resume(t, docker, proxy) \/ Edit(t, docker)
        PROVE  Typing'
    <3>1. Restarts(t, row[t], docker)
      BY <2>3 DEF Resume, Edit
    <3>2. /\ file' \in [Tenant -> Strategy] /\ live' \in [Tenant -> Strategy]
          /\ box' \in [Tenant -> {"none", "down", "boot", "up"}]
      BY <1>0, <2>0, <3>1
    <3>3. CASE Resume(t, docker, proxy)
      BY <3>2, <3>3 DEF Resume
    <3>4. CASE Edit(t, docker)
      BY <3>2, <3>4 DEF Edit
    <3>5. QED
      BY <2>3, <3>3, <3>4
  <2>4. CASE Save(t) \/ Toggle(t) \/ Remove(t) \/ ApiSave(t) \/ ApiRemove(t)
    BY <1>a, <2>4 DEF Save, Toggle, Remove, ApiSave, ApiRemove
  <2>5. CASE Bulk(t)
    BY <2>5 DEF Bulk
  <2>6. CASE Panic(t) \/ SaveConfig(t)
    BY <2>6 DEF Panic, SaveConfig
  <2>7. QED
    BY <1>1, <2>1, <2>2, <2>3, <2>4, <2>5, <2>6 DEF Operation, Add, ApiAdd
<1>2. ASSUME NEW t \in Tenant, Boots(t) \/ Crashes(t) \/ Loses(t) PROVE Typing'
  BY <1>2 DEF Boots, Crashes, Forgets, Loses
<1>3. ASSUME NEW q \in post, Answered(q) \/ Unanswered(q) PROVE Typing'
  <2>1. q \in Request /\ q.what \in Requests
    BY DEF Request
  <2>2. CASE Answered(q)
    BY <2>1, <2>2, AfterStrategy DEF Answered, Serves
  <2>3. CASE Unanswered(q)
    BY <2>3 DEF Unanswered
  <2>4. QED
    BY <1>3, <2>2, <2>3
<1>4. ASSUME NEW q \in late, ServedLate(q) PROVE Typing'
  <2>1. q \in Request /\ q.what \in Requests
    BY DEF Request
  <2>2. QED
    BY <1>4, <2>1, AfterStrategy DEF ServedLate, Serves
<1>5. ASSUME BreakerLoop PROVE Typing'
  <2>1. ASSUME NEW t \in Tenant, BreakerPauses(t) PROVE Typing'
    BY <2>1 DEF BreakerPauses
  <2>2. ASSUME NEW t \in Tenant, BreakerPasses(t) \/ BreakerTrips(t) \/ BreakerPanics(t)
        PROVE  Typing'
    BY <2>2 DEF BreakerPasses, BreakerTrips, BreakerPanics
  <2>3. QED
    BY <1>5, <2>1, <2>2 DEF BreakerLoop, BreakerStarts, BreakerEnds, MarketOpens
<1>6. ASSUME WarmUp PROVE Typing'
  <2>1. PICK t \in Tenant : WarmUpRestarts(t)
    BY <1>6 DEF WarmUp
  <2>2. row[t] \in Strategy
    OBVIOUS
  <2>3. CASE status[t] = "none"
    BY <2>1, <2>3 DEF WarmUpRestarts
  <2>4. CASE status[t] # "none"
    <3>1. PICK docker \in Outcome : Restarts(t, row[t], docker)
      BY <2>1, <2>4 DEF WarmUpRestarts, WarmUpTries
    <3>2. /\ file' \in [Tenant -> Strategy] /\ live' \in [Tenant -> Strategy]
          /\ box' \in [Tenant -> {"none", "down", "boot", "up"}]
      BY <1>0, <2>2, <3>1
    <3>3. QED
      BY <2>1, <2>4, <3>2 DEF WarmUpRestarts
  <2>5. QED
    BY <2>3, <2>4
<1>7. CASE WarmUpStarts
  BY <1>7 DEF WarmUpStarts
<1>8. CASE PortalRestarts
  <2>1. \A t \in Tenant : Made(t, row[t]) \in Strategy
    BY DEF Made
  <2>2. QED
    BY <1>8, <2>1 DEF PortalRestarts
<1>9. CASE UNCHANGED vars
  BY <1>9 DEF vars
<1>10. QED
  BY <1>1, <1>2, <1>3, <1>4, <1>5, <1>6, <1>7, <1>8, <1>9 DEF Next, Delivery

\* Every step keeps the types of the requests.
LEMMA RequestStep ==
    ASSUME TypeOK, [Next]_vars
    PROVE  post' \subseteq Request /\ late' \subseteq Request
<1> DEFINE Fine == post' \subseteq Request /\ late' \subseteq Request
<1>0. post \subseteq Request /\ late \subseteq Request
  BY DEF TypeOK
<1>a. ASSUME NEW t \in Tenant, NEW what \in Requests, Sends(t, what), calls' = calls + 1,
             calls < MaxCalls
      PROVE  post' \subseteq Request
  <2>1. calls' \in 1 .. MaxCalls
    BY <1>a, TenantAssumption DEF TypeOK
  <2>2. QED
    BY <1>0, <1>a, <2>1, SendsTypes
<1>1. ASSUME NEW t \in Tenant, Operation(t) PROVE Fine
  <2>1. ASSUME NEW docker \in Outcome, NEW proxy \in BOOLEAN, NEW r \in {"on", "absent"},
               AddsWith(t, r, docker, proxy) \/ Resume(t, docker, proxy) \/ Edit(t, docker)
        PROVE  Fine
    BY <1>0, <2>1 DEF AddsWith, Resume, Edit, Restarts, Starts, Stops, Forgets
  <2>2. ASSUME NEW docker \in BOOLEAN, NEW proxy \in BOOLEAN,
               Pause(t, docker, proxy) \/ Delete(t, docker, proxy)
        PROVE  Fine
    BY <1>0, <2>2 DEF Pause, Delete, Stops, Forgets
  <2>3. CASE Save(t) \/ Toggle(t) \/ Remove(t)
    BY <1>0, <1>a, <2>3 DEF Save, Toggle, Remove, Asks, Writes, Requests
  <2>4. CASE ApiSave(t) \/ ApiRemove(t)
    BY <1>0, <2>4 DEF ApiSave, ApiRemove, Writes
  <2>5. CASE SaveConfig(t) \/ Bulk(t) \/ Panic(t)
    BY <1>0, <1>a, <2>5 DEF SaveConfig, Bulk, Panic, Asks, Requests
  <2>6. QED
    BY <1>1, <2>1, <2>2, <2>3, <2>4, <2>5 DEF Operation, Add, ApiAdd
<1>2. ASSUME NEW t \in Tenant, Boots(t) \/ Crashes(t) \/ Loses(t) PROVE Fine
  BY <1>0, <1>2 DEF Boots, Crashes, Forgets, Loses
<1>3. ASSUME NEW q \in post, Answered(q) \/ Unanswered(q) PROVE Fine
  <2>1. GoesOn(q) => post' \subseteq Request
    BY <1>0, GoesOnTypes
  <2>2. QED
    BY <1>0, <1>3, <2>1 DEF Answered, Unanswered
<1>4. ASSUME NEW q \in late, ServedLate(q) PROVE Fine
  BY <1>0, <1>4 DEF ServedLate
<1>5. ASSUME BreakerLoop PROVE Fine
  BY <1>0, <1>5 DEF BreakerLoop, BreakerStarts, BreakerEnds, MarketOpens, BreakerPasses,
     BreakerTrips, BreakerPanics, BreakerPauses
<1>6. ASSUME WarmUp PROVE Fine
  BY <1>0, <1>6 DEF WarmUp, WarmUpRestarts, WarmUpTries, BreaksOff, Restarts, Starts, Stops,
     Forgets
<1>7. CASE WarmUpStarts \/ PortalRestarts \/ UNCHANGED vars
  BY <1>0, <1>7 DEF WarmUpStarts, PortalRestarts, vars
<1>8. QED
  BY <1>1, <1>2, <1>3, <1>4, <1>5, <1>6, <1>7 DEF Next, Delivery

\* What is left of the types: the scheduler, the flags and the bounds.
Rest ==
    /\ halted \in [Tenant -> BOOLEAN] /\ loss \in [Tenant -> BOOLEAN]
    /\ route \subseteq Tenant /\ stale \in BOOLEAN
    /\ sched \in {"idle", "breaker", "panic", "pause", "rest", "warmup", "broken"}
    /\ list \subseteq Tenant /\ hit \subseteq Tenant
    /\ calls \in 0 .. MaxCalls /\ faults \in 0 .. MaxFaults

\* A fault and an operation are within their bounds.
LEMMA FaultTypes ==
    ASSUME faults \in 0 .. MaxFaults, Fault
    PROVE  faults' \in 0 .. MaxFaults
BY TenantAssumption DEF Fault

LEMMA AsksTypes ==
    ASSUME calls \in 0 .. MaxCalls, NEW kind, Asks(kind)
    PROVE  calls' \in 0 .. MaxCalls
BY TenantAssumption DEF Asks

\* Every step keeps those types.
LEMMA RestStep ==
    ASSUME TypeOK, [Next]_vars
    PROVE  Rest'
<1>0. Rest
  BY DEF TypeOK, Rest
<1>a. ASSUME NEW kind, Asks(kind) PROVE calls' \in 0 .. MaxCalls
  BY <1>0, <1>a, AsksTypes DEF Rest
<1>b. Fault => faults' \in 0 .. MaxFaults
  BY <1>0, FaultTypes DEF Rest
<1> USE DEF Rest
<1>c. ASSUME NEW works \in BOOLEAN, NEW now, Reloads(now, works)
      PROVE  route' \subseteq Tenant /\ stale' \in BOOLEAN
  BY <1>0, <1>c DEF Reloads
<1>e. ASSUME NEW works \in BOOLEAN, NEW now, NEW docker, ReloadsAfter(docker, now, works)
      PROVE  route' \subseteq Tenant /\ stale' \in BOOLEAN
  BY <1>0, <1>c, <1>e DEF ReloadsAfter
<1>d. ASSUME NEW docker \in BOOLEAN, NEW proxy \in BOOLEAN, Spends(docker, proxy)
      PROVE  faults' \in 0 .. MaxFaults
  BY <1>0, <1>b, <1>d DEF Spends
<1>1. ASSUME NEW t \in Tenant, Operation(t) PROVE Rest'
  <2>1. ASSUME NEW docker \in Outcome, NEW proxy \in BOOLEAN,
               NEW r \in {"on", "absent"}, AddsWith(t, r, docker, proxy)
        PROVE  Rest'
    BY <1>0, <1>a, <1>d, <1>e, <2>1 DEF AddsWith, Restarts, Starts, Stops, Forgets
  <2>2. ASSUME NEW docker \in BOOLEAN, NEW proxy \in BOOLEAN, Pause(t, docker, proxy)
        PROVE  Rest'
    BY <1>0, <1>a, <1>c, <1>d, <2>2 DEF Pause, Stops, Forgets
  <2>3. ASSUME NEW docker \in Outcome, NEW proxy \in BOOLEAN, Resume(t, docker, proxy)
        PROVE  Rest'
    BY <1>0, <1>a, <1>d, <1>e, <2>3 DEF Resume, Restarts, Starts, Stops, Forgets
  <2>4. ASSUME NEW docker \in Outcome, Edit(t, docker)
        PROVE  Rest'
    BY <1>0, <1>a, <1>d, <2>4 DEF Edit, Restarts, Starts, Stops, Forgets
  <2>5. ASSUME NEW docker \in BOOLEAN, NEW proxy \in BOOLEAN, Delete(t, docker, proxy)
        PROVE  Rest'
    BY <1>0, <1>a, <1>c, <1>d, <2>5 DEF Delete, Stops, Forgets
  <2>6. CASE Save(t) \/ Toggle(t) \/ Remove(t) \/ ApiSave(t) \/ ApiRemove(t)
    BY <1>0, <1>a, <2>6 DEF Save, Toggle, Remove, ApiSave, ApiRemove, Writes
  <2>7. CASE SaveConfig(t) \/ Bulk(t) \/ Panic(t)
    BY <1>0, <1>a, <2>7 DEF SaveConfig, Bulk, Panic
  <2>8. QED
    BY <1>1, <2>1, <2>2, <2>3, <2>4, <2>5, <2>6, <2>7 DEF Operation, Add, ApiAdd
<1>2. ASSUME NEW t \in Tenant, Boots(t) \/ Crashes(t) \/ Loses(t) PROVE Rest'
  BY <1>0, <1>b, <1>2 DEF Boots, Crashes, Forgets, Loses
<1>3. ASSUME NEW q \in post \cup late, Serves(q) PROVE halted' \in [Tenant -> BOOLEAN]
  <2>1. q \in Request
    BY DEF TypeOK
  <2>2. halted' = [halted EXCEPT ![q.t] = @ \/ q.what = "panic"]
    BY <1>3 DEF Serves
  <2>3. QED
    BY <1>0, <2>1, <2>2 DEF Request
<1>4. ASSUME NEW q \in post, Answered(q) \/ Unanswered(q) PROVE Rest'
  BY <1>0, <1>b, <1>3, <1>4 DEF Answered, Unanswered
<1>5. ASSUME NEW q \in late, ServedLate(q) PROVE Rest'
  BY <1>0, <1>3, <1>5 DEF ServedLate
<1>6. ASSUME NEW t \in Tenant,
             BreakerPasses(t) \/ BreakerTrips(t) \/ BreakerPanics(t) \/ BreakerPauses(t)
      PROVE  Rest'
  <2>1. CASE BreakerPauses(t)
    BY <1>0, <1>c, <1>d, <2>1 DEF BreakerPauses
  <2>2. QED
    BY <1>0, <1>b, <1>6, <2>1 DEF BreakerPasses, BreakerTrips, BreakerPanics
<1>7. CASE BreakerStarts \/ BreakerEnds \/ MarketOpens \/ WarmUpStarts
  BY <1>0, <1>7 DEF BreakerStarts, BreakerEnds, MarketOpens, WarmUpStarts, Active
<1>8. ASSUME WarmUp PROVE Rest'
  <2>1. PICK t \in Tenant : WarmUpRestarts(t)
    BY <1>8 DEF WarmUp
  <2>2. CASE status[t] = "none"
    BY <1>0, <2>1, <2>2 DEF WarmUpRestarts, BreaksOff
  <2>3. CASE status[t] # "none"
    <3>1. PICK docker \in Outcome : WarmUpTries(t, docker)
      BY <2>1, <2>3 DEF WarmUpRestarts
    <3>2. halted' \in [Tenant -> BOOLEAN]
      BY <1>0, <3>1 DEF WarmUpTries, Restarts, Starts, Stops, Forgets
    <3>3. QED
      BY <1>0, <1>d, <2>1, <2>3, <3>1, <3>2 DEF WarmUpRestarts, WarmUpTries, BreaksOff
  <2>4. QED
    BY <2>2, <2>3
<1>9. CASE PortalRestarts
  BY <1>0, <1>b, <1>c, <1>9 DEF PortalRestarts
<1>10. CASE UNCHANGED vars
  BY <1>0, <1>10 DEF vars
<1>11. QED
  BY <1>1, <1>2, <1>4, <1>5, <1>6, <1>7, <1>8, <1>9, <1>10 DEF Next, Delivery, BreakerLoop

\* Type correctness of the portal's state, whatever is asked, lost or restarted.
THEOREM Types == Spec => []TypeOK
<1>1. Init => TypeOK
  <2>1. ASSUME Init PROVE Typing
    BY <2>1 DEF Init, Typing, Strategy
  <2>2. ASSUME Init PROVE Rest
    <3>1. halted \in [Tenant -> BOOLEAN] /\ loss \in [Tenant -> BOOLEAN]
      BY <2>2 DEF Init
    <3>2. calls \in 0 .. MaxCalls /\ faults \in 0 .. MaxFaults
      BY <2>2, TenantAssumption DEF Init
    <3>3. QED
      BY <2>2, <3>1, <3>2 DEF Init, Rest
  <2>3. QED
    BY <2>1, <2>2 DEF Init, Typing, Rest, TypeOK
<1>2. TypeOK /\ [Next]_vars => TypeOK'
  BY TypingStep, RequestStep, RestStep DEF Typing, Rest, TypeOK, Request
<1>3. QED
  BY <1>1, <1>2, PTL DEF Spec

-----------------------------------------------------------------------------
\* No step brings a deleted tenant back, except the operator's adding it again.
LEMMA GoneStep ==
    ASSUME TypeOK, GoneStaysGone, [Next]_vars
    PROVE  GoneStaysGone'
<1> USE DEF GoneStaysGone, TypeOK, Strategy
<1>a. ASSUME NEW t \in Tenant, NEW now \in Strategy, row[t] # "absent" \/ status[t] # "none",
             Writes(t, now)
      PROVE  GoneStaysGone'
  BY <1>a DEF Writes
<1>1. ASSUME NEW t \in Tenant, Operation(t) PROVE GoneStaysGone'
  <2>1. ASSUME NEW docker \in Outcome, NEW proxy \in BOOLEAN,
               NEW r \in {"on", "absent"}, AddsWith(t, r, docker, proxy)
        PROVE  GoneStaysGone'
    BY <2>1 DEF AddsWith, ReloadsAfter, Reloads
  <2>2. ASSUME NEW docker \in BOOLEAN, NEW proxy \in BOOLEAN, Pause(t, docker, proxy)
        PROVE  GoneStaysGone'
    BY <2>2 DEF Pause, Reloads
  <2>3. ASSUME NEW docker \in Outcome, NEW proxy \in BOOLEAN, Resume(t, docker, proxy)
        PROVE  GoneStaysGone'
    BY <2>3 DEF Resume, ReloadsAfter, Reloads
  <2>4. ASSUME NEW docker \in Outcome, Edit(t, docker) PROVE GoneStaysGone'
    BY <2>4 DEF Edit
  <2>5. ASSUME NEW docker \in BOOLEAN, NEW proxy \in BOOLEAN, Delete(t, docker, proxy)
        PROVE  GoneStaysGone'
    BY <2>5 DEF Delete, Reloads
  <2>6. CASE Save(t) \/ Toggle(t) \/ Remove(t) \/ ApiSave(t) \/ ApiRemove(t)
    BY <1>a, <2>6 DEF Save, Toggle, Remove, ApiSave, ApiRemove
  <2>7. CASE SaveConfig(t) \/ Bulk(t)
    BY <2>7 DEF SaveConfig, Bulk
  <2>8. CASE Panic(t)
    BY <2>8 DEF Panic
  <2>9. QED
    BY <1>1, <2>1, <2>2, <2>3, <2>4, <2>5, <2>6, <2>7, <2>8 DEF Operation, Add, ApiAdd
<1>2. ASSUME NEW t \in Tenant, Boots(t) \/ Crashes(t) \/ Loses(t) PROVE GoneStaysGone'
  BY <1>2 DEF Boots, Crashes, Loses
<1>3. ASSUME NEW q \in post, Answered(q) \/ Unanswered(q) PROVE GoneStaysGone'
  BY <1>3 DEF Answered, Unanswered
<1>4. ASSUME NEW q \in late, ServedLate(q) PROVE GoneStaysGone'
  BY <1>4 DEF ServedLate
<1>5. ASSUME NEW t \in Tenant, BreakerPauses(t) PROVE GoneStaysGone'
  BY <1>5 DEF BreakerPauses, Reloads
<1>6. ASSUME NEW t \in Tenant, BreakerPasses(t) \/ BreakerTrips(t) \/ BreakerPanics(t)
      PROVE  GoneStaysGone'
  BY <1>6 DEF BreakerPasses, BreakerTrips, BreakerPanics
<1>7. ASSUME NEW t \in Tenant, WarmUpRestarts(t) PROVE GoneStaysGone'
  BY <1>7 DEF WarmUpRestarts
<1>8. CASE BreakerStarts \/ BreakerEnds \/ MarketOpens \/ WarmUpStarts
  BY <1>8 DEF BreakerStarts, BreakerEnds, MarketOpens, WarmUpStarts
<1>9. CASE PortalRestarts
  BY <1>9 DEF PortalRestarts, Made, Reloads
<1>10. CASE UNCHANGED vars
  BY <1>10 DEF vars
<1>11. QED
  BY <1>1, <1>2, <1>3, <1>4, <1>5, <1>6, <1>7, <1>8, <1>9, <1>10
     DEF Next, Delivery, BreakerLoop, WarmUp

\* GoneStaysGone for any number of tenants and any sequence of operations and faults:
\* the scheduler's stale lists and the portal's late requests bring nothing back.
THEOREM DeletedTenantsStayGone == Spec => []GoneStaysGone
<1>1. Init => GoneStaysGone
  BY DEF Init, GoneStaysGone
<1>2. QED
  BY <1>1, Types, GoneStep, PTL DEF Spec

\* A step that gives a tenant a container leaves the tenant in the table.
LEMMA RevivalStep ==
    ASSUME TypeOK, [Next]_vars, NEW u \in Tenant, box[u] = "none", box'[u] # "none"
    PROVE  status'[u] # "none"
<1> USE DEF TypeOK
<1>a. ASSUME NEW t \in Tenant, NEW r, NEW docker, Restarts(t, r, docker)
      PROVE  u = t
  BY <1>a DEF Restarts, Starts, Stops
<1>1. ASSUME NEW t \in Tenant, Operation(t) PROVE status'[u] # "none"
  <2>1. ASSUME NEW docker \in Outcome, NEW proxy \in BOOLEAN, NEW r \in {"on", "absent"},
               AddsWith(t, r, docker, proxy) \/ Resume(t, docker, proxy) \/ Edit(t, docker)
        PROVE  status'[u] # "none"
    <3>0. Restarts(t, r, docker) \/ Restarts(t, row[t], docker)
      BY <2>1 DEF AddsWith, Resume, Edit
    <3>1. u = t
      BY <1>a, <3>0
    <3>2. QED
      BY <2>1, <3>1 DEF AddsWith, Resume, Edit
  <2>2. ASSUME NEW docker \in BOOLEAN, NEW proxy \in BOOLEAN,
               Pause(t, docker, proxy) \/ Delete(t, docker, proxy)
        PROVE  FALSE
    BY <2>2 DEF Pause, Delete, Stops
  <2>3. CASE Save(t) \/ Toggle(t) \/ Remove(t) \/ ApiSave(t) \/ ApiRemove(t)
    BY <2>3 DEF Save, Toggle, Remove, ApiSave, ApiRemove, Writes
  <2>4. CASE SaveConfig(t) \/ Bulk(t) \/ Panic(t)
    BY <2>4 DEF SaveConfig, Bulk, Panic
  <2>5. QED
    BY <1>1, <2>1, <2>2, <2>3, <2>4 DEF Operation, Add, ApiAdd
<1>2. ASSUME NEW t \in Tenant, Boots(t) \/ Crashes(t) \/ Loses(t) PROVE FALSE
  BY <1>2 DEF Boots, Crashes, Loses
<1>3. CASE Delivery
  BY <1>3 DEF Delivery, Answered, Unanswered, ServedLate
<1>4. CASE BreakerLoop
  BY <1>4 DEF BreakerLoop, BreakerStarts, BreakerEnds, MarketOpens, BreakerPasses,
     BreakerTrips, BreakerPanics, BreakerPauses
<1>5. ASSUME NEW t \in Tenant, WarmUpRestarts(t) PROVE status'[u] # "none"
  <2>1. status[t] # "none"
    BY <1>5 DEF WarmUpRestarts
  <2>2. u = t
    BY <1>a, <1>5, <2>1 DEF WarmUpRestarts, WarmUpTries
  <2>3. QED
    BY <1>5, <2>1, <2>2 DEF WarmUpRestarts
<1>6. CASE WarmUpStarts \/ PortalRestarts \/ UNCHANGED vars
  BY <1>6 DEF WarmUpStarts, PortalRestarts, vars
<1>7. QED
  BY <1>1, <1>2, <1>3, <1>4, <1>5, <1>6 DEF Next, WarmUp

\* NoRevival for any number of tenants: the warm-up restarts no tenant deleted since
\* its list was read.
THEOREM NobodyIsRevived == Spec => NoRevival
<1>1. TypeOK /\ [Next]_vars => [\A t \in Tenant :
          box[t] = "none" /\ box'[t] # "none" => status'[t] # "none"]_vars
  BY RevivalStep
<1>2. QED
  BY <1>1, Types, PTL DEF Spec, NoRevival
=============================================================================
