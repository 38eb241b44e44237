---------------------------- MODULE MasterCache ----------------------------
(***************************************************************************)
(* The client's list of tradable contracts (client/xts_api.py): read from  *)
(* the broker under REFRESH_LOCK, published under CACHE_LOCK, kept by a    *)
(* watchdog, refreshed by an operator and by every caller that resolves a  *)
(* symbol, and searched for the contract a strategy has to trade, by the   *)
(* calendar of client/config.py.                                           *)
(*                                                                         *)
(* One symbol with futures and, perhaps, a share of the same name. A       *)
(* future is its day of expiry. A day has four periods: closed, 09:00 to   *)
(* 14:00, to 17:00, and the evening of the commodities.                    *)
(***************************************************************************)
EXTENDS Integers, FiniteSets

CONSTANTS
    Caller,       \* threads that resolve the symbol
    Forcer,       \* threads that force a refresh: "watchdog", "operator"
    Expiry,       \* the days on which its futures expire
    Horizon,      \* days ahead for which the exchange lists futures
    Share,        \* whether there is a share of that name
    Commodity,    \* whether it is a future of MCX or NCDEX
    Depth,        \* 1 for the front contract, 2 for the next one
    Lead,         \* days before its expiry on which a commodity rolls over
    Weekend, FullHoliday, MorningHoliday,
    MaxDay,       \* bound: days
    MaxFaults     \* bound: refusals and broken payloads

ASSUME MasterAssumption ==
    /\ Forcer \subseteq {"watchdog", "operator"} /\ {"none", "watchdog", "operator"} \cap Caller = {}
    /\ Expiry \subseteq Int /\ Horizon \in Nat /\ Share \in BOOLEAN /\ Commodity \in BOOLEAN
    /\ Depth \in Nat \ {0} /\ Lead \in Nat \ {0}
    /\ MaxDay \in Nat /\ MaxFaults \in Nat

Thread == Caller \cup Forcer
Forced(p) == p \in Forcer

VARIABLES
    now,    \* the clock, in periods
    fut,    \* FUT_MASTER
    cash,   \* whether CASH_MASTER has the share
    date,   \* CACHE_DATE, -1 at first
    lock,   \* who holds REFRESH_LOCK
    cool,   \* LAST_REFRESH_ATTEMPT is less than the cooldown ago
    pc,     \* per thread: "idle", "ask", "fetch", "wait", "leave", "look" or "match"
    today,  \* per thread: the day on which its refresh began, 0 outside
    seen,   \* per caller: the masters it looks into, none outside
    got,    \* the last future found: whether by a list of its day, expired, not past its rollover
    faults

master == <<fut, cash, date>>
vars   == <<now, master, lock, cool, pc, today, seen, got, faults>>

Day(t) == t \div 4
Empty == fut = {} /\ ~cash
Healthy == ~Empty /\ date = Day(now)
Fault == faults < MaxFaults /\ faults' = faults + 1

Unseen == [fut |-> {}, cash |-> FALSE, date |-> -1]

Init ==
    /\ now = 0 /\ fut = {} /\ cash = FALSE /\ date = -1
    /\ lock = "none" /\ cool = FALSE
    /\ pc = [p \in Thread |-> "idle"] /\ today = [p \in Thread |-> 0]
    /\ seen = [p \in Caller |-> Unseen]
    /\ got = [exp |-> -1, fresh |-> FALSE, dead |-> FALSE, valid |-> FALSE]
    /\ faults = 0

-----------------------------------------------------------------------------
(* The calendar *)

Trades(d) == d \notin Weekend \cup FullHoliday \cup MorningHoliday

\* Weekends and holidays are never ten days in a row before a commodity rolls over.
ASSUME CalendarAssumption ==
    Commodity => \A e \in Expiry : \E d \in (e - Lead - 9) .. (e - Lead) : Trades(d)

\* Afternoon of the day Lead days before the expiry, or of the last trading day before.
\* Mutation: a holiday of the morning session counts as a trading day.
CutoffIgnoresMornings(e) ==
    CHOOSE t \in {4 * d + 2 : d \in (e - Lead - 9) .. (e - Lead)} :
        /\ t \div 4 \notin Weekend \cup FullHoliday
        /\ \A d \in (t \div 4) + 1 .. (e - Lead) : d \in Weekend \cup FullHoliday

Cutoff(e) ==
    CHOOSE t \in {4 * d + 2 : d \in (e - Lead - 9) .. (e - Lead)} :
        Trades(Day(t)) /\ \A d \in Day(t) + 1 .. e - Lead : ~Trades(d)

Past(e, t) ==
    IF Commodity THEN e - Day(t) < Lead \/ t >= Cutoff(e)
                 ELSE e - Day(t) <= 0

MarketOpen(t) ==
    /\ Day(t) \notin Weekend \cup FullHoliday
    /\ IF Commodity THEN t % 4 \in (IF Day(t) \in MorningHoliday THEN {3} ELSE 1 .. 3)
                    ELSE Day(t) \notin MorningHoliday /\ t % 4 \in {1, 2}

Valid(S, t) == {e \in S : ~Past(e, t)}

\* Where every contract is past its rollover all of them are taken again.
Candidates(S, t) == IF Valid(S, t) # {} THEN Valid(S, t) ELSE S

Nth(e, S) ==
    LET before == Cardinality({x \in S : x < e})
    IN e \in S /\ before = (IF Depth <= Cardinality(S) THEN Depth ELSE Cardinality(S)) - 1

-----------------------------------------------------------------------------
(* refresh_master_cache *)

Goes(p, where) ==
    /\ pc' = [pc EXCEPT ![p] = where]
    /\ today' = IF where \in {"idle", "look", "match"} THEN [today EXCEPT ![p] = 0] ELSE today
Returns(p) == Goes(p, IF Forced(p) THEN "idle" ELSE "look")

Begins(p) ==
    /\ pc[p] = "idle" /\ (p = "watchdog" => ~Healthy)
    /\ IF ~Forced(p) /\ Healthy THEN Goes(p, "look")
       ELSE pc' = [pc EXCEPT ![p] = "ask"] /\ today' = [today EXCEPT ![p] = Day(now)]
    /\ UNCHANGED <<now, master, lock, cool, seen, got, faults>>

Acquires(p) ==
    /\ pc[p] = "ask" /\ lock = "none" /\ lock' = p
    /\ IF ~Forced(p) /\ cool THEN Goes(p, "leave") /\ UNCHANGED cool
                            ELSE Goes(p, "fetch") /\ cool' = TRUE
    /\ UNCHANGED <<now, master, seen, got, faults>>

\* Another thread is at it: who has a list of today goes on with that.
FindsBusy(p) ==
    /\ pc[p] = "ask" /\ lock # "none"
    /\ IF date # today[p] \/ Empty THEN Goes(p, "wait") ELSE Returns(p)
    /\ UNCHANGED <<now, master, lock, cool, seen, got, faults>>

\* The lock was got and given back at once, or did not come within 25 seconds: the list
\* is taken as it is.
Waits(p) ==
    /\ pc[p] = "wait" /\ Returns(p)
    /\ UNCHANGED <<now, master, lock, cool, seen, got, faults>>

\* Mutation: the early return after the cooldown keeps the lock.
LeavesLocked(p) ==
    /\ pc[p] = "leave" /\ Returns(p)
    /\ UNCHANGED <<now, lock, master, cool, seen, got, faults>>

Leaves(p) ==
    /\ pc[p] = "leave" /\ lock' = "none" /\ Returns(p)
    /\ UNCHANGED <<now, master, cool, seen, got, faults>>

Listed(d) == {e \in Expiry : d <= e /\ e <= d + Horizon}

\* Mutation: the list is stamped with the day on which it is published.
PublishesLate(p, payload) ==
    /\ fut' = {e \in payload : e >= today[p]} /\ cash' = Share
    /\ date' = Day(now)

\* Futures that expired before the refresh began are left out.
Publishes(p, payload) ==
    /\ fut' = {e \in payload : e >= today[p]} /\ cash' = Share
    /\ date' = today[p]

\* The reply of the broker: a list, one that lacks the futures' segment but is long
\* enough for the sanity shield, or nothing that replaces the masters.
Fetches(p) ==
    /\ pc[p] = "fetch" /\ lock' = "none" /\ Returns(p)
    /\ \/ (\E d \in today[p] .. Day(now) : Publishes(p, Listed(d))) /\ UNCHANGED faults
       \/ Fault /\ Publishes(p, {})
       \/ Fault /\ UNCHANGED master
    /\ UNCHANGED <<now, cool, seen, got>>

Cools == cool /\ cool' = FALSE /\ UNCHANGED <<now, master, lock, pc, today, seen, got, faults>>

-----------------------------------------------------------------------------
(* resolve_contract *)

\* The masters are taken before CACHE_LOCK is.
Looks(p) ==
    /\ p \in Caller /\ pc[p] = "look" /\ Goes(p, "match")
    /\ seen' = [seen EXCEPT ![p] = [fut |-> fut, cash |-> cash, date |-> date]]
    /\ UNCHANGED <<now, master, lock, cool, got, faults>>

Forgets(p) == seen' = [seen EXCEPT ![p] = Unseen]

\* Mutation: any contract that is not past its rollover is taken.
FindsAny(p, e) ==
    /\ p \in Caller /\ pc[p] = "match" /\ Goes(p, "idle")
    /\ e \in Candidates(seen[p].fut, now)
    /\ Forgets(p)
    /\ got' = [exp |-> e, fresh |-> seen[p].date = Day(now), dead |-> e < Day(now), valid |-> ~Past(e, now)]
    /\ UNCHANGED <<now, master, lock, cool, faults>>

Finds(p, e) ==
    /\ p \in Caller /\ pc[p] = "match" /\ Goes(p, "idle")
    /\ Nth(e, Candidates(seen[p].fut, now))
    /\ Forgets(p)
    /\ got' = [exp |-> e, fresh |-> seen[p].date = Day(now), dead |-> e < Day(now), valid |-> ~Past(e, now)]
    /\ UNCHANGED <<now, master, lock, cool, faults>>

\* Without futures the share is found, or nothing.
FindsNone(p) ==
    /\ p \in Caller /\ pc[p] = "match" /\ seen[p].fut = {} /\ Goes(p, "idle") /\ Forgets(p)
    /\ UNCHANGED <<now, master, lock, cool, got, faults>>

Tick ==
    /\ Day(now + 1) <= MaxDay /\ now' = now + 1
    /\ UNCHANGED <<master, lock, cool, pc, today, seen, got, faults>>

Works(p) ==
    \/ Acquires(p) \/ FindsBusy(p) \/ Waits(p) \/ Leaves(p) \/ Fetches(p)
    \/ Looks(p) \/ (\E e \in Expiry : Finds(p, e)) \/ FindsNone(p)

Next == Tick \/ Cools \/ \E p \in Thread : Begins(p) \/ Works(p)

Spec == Init /\ [][Next]_vars

\* The watchdog wakes up every half minute, the cooldown passes, threads go on.
FairSpec ==
    /\ Spec /\ WF_vars(Cools) /\ \A p \in Forcer \cap {"watchdog"} : WF_vars(Begins(p))
    /\ \A p \in Thread : WF_vars(Works(p))

-----------------------------------------------------------------------------
(* Properties *)

TypeOK ==
    /\ now \in Nat /\ fut \subseteq Expiry /\ cash \in BOOLEAN /\ date \in Nat \cup {-1}
    /\ lock \in Thread \cup {"none"} /\ cool \in BOOLEAN
    /\ pc \in [Thread -> {"idle", "ask", "fetch", "wait", "leave", "look", "match"}]
    /\ \A p \in Forcer : pc[p] \notin {"look", "match"}
    /\ today \in [Thread -> Nat] /\ \A p \in Thread : today[p] <= Day(now)
    /\ seen \in [Caller -> [fut : SUBSET Expiry, cash : BOOLEAN, date : Nat \cup {-1}]]
    /\ got \in [exp : Expiry \cup {-1}, fresh : BOOLEAN, dead : BOOLEAN, valid : BOOLEAN]
    /\ faults \in 0 .. MaxFaults

\* A contract found in a list of the same day has not expired, although the list may
\* have been asked for before midnight, published after it, and replaced between the
\* look and the choice.
FreshNotExpired == ~(got.fresh /\ got.dead)

\* REFRESH_LOCK is held by the one thread that fetches or is about to leave.
LockHasOwner == \A p \in Thread : pc[p] \in {"fetch", "leave"} <=> lock = p

\* Whatever lists are lost, late or stale: a strategy that rolled over is not sent
\* back to an earlier contract while one of the list is valid.
RollsForward == [][got'.valid /\ got.valid => got'.exp >= got.exp]_vars

\* The contract to trade changes at an hour at which a commodity can be traded, so
\* that the position can be rolled: the cut-off, the fail-safe and the hours agree.
SwitchIsTradable ==
    [][Commodity /\ Valid(Expiry, now) # Valid(Expiry, now') => MarketOpen(now')]_vars

\* A list that is missing or of another day is replaced by one of the day, unless the
\* day is over before.
Freshens == \A d \in 0 .. MaxDay : Day(now) = d /\ ~Healthy ~> Day(now) # d \/ Healthy

\* Three that the code does not keep: a future found has not expired; who asks for a
\* future is not given a share; a refresh that reports success has a list of today.
NeverExpired == ~got.dead
FutureStaysFuture == \A p \in Caller : pc[p] = "match" /\ seen[p].cash => seen[p].fut # {}
ReportIsTrue ==
    [][\A p \in Forcer : pc[p] # "idle" /\ pc'[p] = "idle" => Empty' \/ date' = Day(now')]_vars
=============================================================================
