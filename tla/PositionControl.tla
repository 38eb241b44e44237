-------------------------- MODULE PositionControl --------------------------
(***************************************************************************)
(* Who moves the broker's position in one symbol, and who answers for it:  *)
(* the SuperTrend runners of the symbol, the run loop with its drift       *)
(* watchdog (MultiSuperTrendEngine of client/supertrend_engine.py), the    *)
(* panic call and the operator's square-off (client/main.py and            *)
(* client/xts_api.py).                                                     *)
(*                                                                         *)
(* A runner's legs, detailed in StrategyRunner, are one order each here.   *)
(* Everything between two awaits is one step: the coroutines share one     *)
(* event loop, orders and queries run in threads.                          *)
(***************************************************************************)
EXTENDS Integers, FiniteSets

CONSTANTS
    Runner,      \* LIVE runners configured for the symbol
    Primary,     \* the first of them, whose lock the watchdog takes
    Lots,        \* quantity of each
    MinCap,      \* lots the watchdog may always correct
    Events,      \* what may happen besides candles and the watchdog
    MaxFaults,   \* bound: orders lost after acceptance or refused, failed queries
    MaxCalls     \* bound: panics, square-offs and switches by the operator

ASSUME ControlAssumption ==
    /\ IsFiniteSet(Runner) /\ Primary \in Runner
    /\ Lots \in Nat \ {0} /\ MinCap \in Nat
    /\ Events \subseteq {"lost", "rests", "sync", "outage", "margin", "panic", "squareoff",
                         "switch", "others"}
    /\ MaxFaults \in Nat /\ MaxCalls \in Nat

VARIABLES
    held,      \* the broker's net position, in lots
    resting,   \* lots in orders accepted and not filled
    virtual,   \* virtual_position of each runner
    enabled,   \* is_enabled
    lock,      \* holder of each runner's lock: "free", "cycle", "sync" or "watch"
    leg,       \* leg of the operation that holds it: "none", "exit" or "enter"
    aim,       \* direction the operation goes to
    amount,    \* lots of its order
    order,     \* its order: "none", "sent", "booked" or "refused"
    queued,    \* cycles past their first checks that wait for the lock
    paused,    \* TRADING_PAUSED
    loop,      \* where the run loop is
    due,       \* the watchdog's 60 seconds have passed
    mates,     \* runners the watchdog considers
    want,      \* their target when it read it
    seen,      \* the broker's position when it asked
    open,      \* the order book showed an open order when it asked
    heal,      \* lots of its corrective order
    backoff,   \* "none", "wait" after a refusal, or "tripped" by the margin breaker
    stirred,   \* history: somebody else changed what it compares since it asked
    panic,     \* where the panic call is
    close,     \* lots it closes
    zeroed,    \* runners it has set to zero
    calm,      \* no runner was working when it began
    desk,      \* lots the operator's square-off closes, while it is under way
    faults,
    calls

broker == <<held, resting>>
op     == <<lock, leg, aim, amount, order>>
runner == <<virtual, enabled, op, queued>>
dog    == <<loop, due, mates, want, seen, open, heal, backoff>>
watch  == <<dog, stirred>>
help   == <<panic, close, zeroed, calm, desk>>
count  == <<faults, calls>>
vars   == <<broker, runner, paused, watch, help, count>>

Idle == "idle"
Direction == {-1, 1}
Abs(n) == IF n < 0 THEN -n ELSE n

Sum(v, S) ==
    LET sum[T \in SUBSET S] ==
            IF T = {} THEN 0
            ELSE LET r == CHOOSE r \in T : TRUE IN v[r] + sum[T \ {r}]
    IN sum[S]

Enabled == {r \in Runner : enabled[r]}
Total(S) == Sum(virtual, S)                     \* lots the runners of S believe they hold
Size(S) == Sum([r \in S |-> Lots], S)           \* lots they are configured for

Init ==
    /\ held = 0
    /\ resting = 0
    /\ virtual = [r \in Runner |-> 0]
    /\ enabled = [r \in Runner |-> TRUE]
    /\ lock = [r \in Runner |-> "free"]
    /\ leg = [r \in Runner |-> "none"]
    /\ aim = [r \in Runner |-> 1]
    /\ amount = [r \in Runner |-> 0]
    /\ order = [r \in Runner |-> "none"]
    /\ queued = {}
    /\ paused = FALSE
    /\ loop = "rest" /\ due = TRUE
    /\ mates = {} /\ want = 0 /\ seen = 0 /\ open = FALSE /\ heal = 0
    /\ backoff = "none" /\ stirred = FALSE
    /\ panic = Idle /\ close = 0 /\ zeroed = {} /\ calm = TRUE
    /\ desk = 0
    /\ faults = 0 /\ calls = 0

MayFail == faults < MaxFaults /\ faults' = faults + 1
MayCall == calls < MaxCalls /\ calls' = calls + 1

\* The watchdog has asked for the broker's position and still uses the answer; the
\* target it reads again under the lock.
Compared == {"orders", "guard", "judge", "await", "heal"}

\* Said of the steps of all but the loop and its cycles.
Stirs ==
    stirred' = (stirred \/ (loop \in Compared /\ held' # held)
                        \/ (loop = "heal" /\ virtual' # virtual))

-----------------------------------------------------------------------------
(* Runners *)

Working(r) == lock[r] \in {"cycle", "sync"}

CycleLeaves(r) ==
    /\ r \in queued /\ lock[r] = "free"
    /\ queued' = queued \ {r}
    /\ UNCHANGED <<broker, virtual, enabled, op, paused, watch, help, count>>

\* A leg closes what is held against the direction d, or fills up to the full size.
Missing(v, d) ==
    IF v * d < 0 THEN -v ELSE IF Abs(v) >= Lots THEN 0 ELSE d * Lots - v

Sends(r, v, d) ==
    /\ leg' = [leg EXCEPT ![r] = IF v * d < 0 THEN "exit" ELSE "enter"]
    /\ aim' = [aim EXCEPT ![r] = d]
    /\ amount' = [amount EXCEPT ![r] = Missing(v, d)]
    /\ order' = [order EXCEPT ![r] = "sent"]

Turns(r, d, who) ==
    /\ lock[r] = "free"
    /\ Missing(virtual[r], d) # 0
    /\ lock' = [lock EXCEPT ![r] = who]
    /\ Sends(r, virtual[r], d)
    /\ UNCHANGED <<broker, virtual, enabled, paused, watch, help, faults>>

Flip(r, d) == r \in queued /\ Turns(r, d, "cycle") /\ queued' = queued \ {r} /\ UNCHANGED calls

\* The operator's sync is a request of its own, beside the run loop.
Sync(r, d) == "sync" \in Events /\ MayCall /\ Turns(r, d, "sync") /\ UNCHANGED queued

\* The order is filled, rests, or is taken back after it was accepted.
Books(r) ==
    /\ order[r] = "sent"
    /\ order' = [order EXCEPT ![r] = "booked"]
    /\ \/ held' = held + amount[r] /\ UNCHANGED <<resting, faults>>
       \/ /\ "rests" \in Events /\ MayFail
          /\ resting' = resting + amount[r] /\ UNCHANGED held
       \/ "lost" \in Events /\ MayFail /\ UNCHANGED broker
    /\ UNCHANGED <<virtual, enabled, lock, leg, aim, amount, queued, paused, dog, help, calls>>
    /\ IF lock[r] = "sync" THEN Stirs ELSE UNCHANGED stirred

Refuses(r) ==
    /\ order[r] = "sent" /\ MayFail
    /\ order' = [order EXCEPT ![r] = "refused"]
    /\ UNCHANGED <<broker, virtual, enabled, lock, leg, aim, amount, queued, paused, watch, help, calls>>

Leaves(r) ==
    /\ lock' = [lock EXCEPT ![r] = "free"]
    /\ leg' = [leg EXCEPT ![r] = "none"]
    /\ amount' = [amount EXCEPT ![r] = 0]
    /\ order' = [order EXCEPT ![r] = "none"]
    /\ aim' = [aim EXCEPT ![r] = 1]

\* A cycle counts its slices on virtual_position as it is now, not as it was when
\* they were sent: a position zeroed in between moves away from zero.
CycleReported(r) == virtual[r] + amount[r]

\* A sync assigns what it believes instead.
SyncReported(r) == IF leg[r] = "exit" THEN 0 ELSE aim[r] * Lots

Reported(r) ==
    /\ order[r] = "booked"
    /\ LET now == IF lock[r] = "sync" THEN SyncReported(r) ELSE CycleReported(r) IN
       /\ virtual' = [virtual EXCEPT ![r] = now]
       /\ IF leg[r] = "exit" /\ Missing(now, aim[r]) # 0
          THEN Sends(r, now, aim[r]) /\ UNCHANGED lock
          ELSE Leaves(r)
    /\ UNCHANGED <<broker, enabled, queued, paused, dog, help, count>>
    /\ IF lock[r] = "sync" THEN Stirs ELSE UNCHANGED stirred

\* A leg refused twice switches its strategy off; a sync only when its entry is.
Fails(r) ==
    /\ order[r] = "refused"
    /\ enabled' = [enabled EXCEPT ![r] =
                        @ /\ lock[r] = "sync" /\ (leg[r] = "exit" \/ virtual[r] # 0)]
    /\ Leaves(r)
    /\ UNCHANGED <<broker, virtual, queued, paused, watch, help, count>>

-----------------------------------------------------------------------------
(* The run loop and its watchdog *)

\* Every 60 seconds the loop reconciles before it evaluates; the target comes first.
Wakes ==
    /\ loop = "rest" /\ Enabled # {}
    /\ IF due
       THEN loop' = "positions" /\ want' = Total(Enabled) /\ due' = FALSE
       ELSE loop' = "burst" /\ UNCHANGED <<want, due>>
    /\ UNCHANGED <<broker, runner, paused, mates, seen, open, heal, backoff, stirred, help, count>>

\* A query that fails yields an empty list, and an absent symbol counts as flat.
AsksPositions ==
    /\ loop = "positions" /\ loop' = "orders"
    /\ \/ seen' = held /\ UNCHANGED faults
       \/ "outage" \in Events /\ MayFail /\ seen' = 0
    /\ stirred' = (seen' # held)
    /\ UNCHANGED <<broker, runner, paused, due, mates, want, open, heal, backoff, help, calls>>

AsksOrders ==
    /\ loop = "orders" /\ loop' = "guard"
    /\ \/ open' = (resting # 0) /\ UNCHANGED faults
       \/ "outage" \in Events /\ MayFail /\ open' = FALSE
    /\ UNCHANGED <<broker, runner, paused, due, mates, want, seen, heal, backoff, stirred, help, calls>>

\* Nothing is healed while it backs off or a runner's lock is held.
Guard ==
    /\ loop = "guard"
    /\ mates' = Enabled
    /\ loop' = IF Enabled # {} /\ backoff = "none" /\ \A r \in Enabled : lock[r] = "free"
               THEN "judge" ELSE "burst"
    /\ UNCHANGED <<broker, runner, paused, due, want, seen, open, heal, backoff, stirred, help, count>>

OverCap(n) == n > 2 * Size(mates) /\ n > MinCap

\* The contract is resolved in a thread, then the drift is judged.
Judge ==
    /\ loop = "judge"
    /\ loop' = IF open \/ seen = want \/ OverCap(Abs(seen - want)) THEN "burst" ELSE "await"
    /\ UNCHANGED <<broker, runner, paused, due, mates, want, seen, open, heal, backoff, stirred, help, count>>

First(S) == IF Primary \in S THEN Primary ELSE CHOOSE r \in S : TRUE

\* Under the primary's lock the target is read again; the broker's position is not.
TakesLock ==
    /\ loop = "await" /\ lock[First(mates)] = "free"
    /\ LET need == Total(mates) - seen IN
       IF need = 0
       THEN loop' = "burst" /\ UNCHANGED <<lock, heal>>
       ELSE /\ loop' = "heal" /\ heal' = need
            /\ lock' = [lock EXCEPT ![First(mates)] = "watch"]
    /\ UNCHANGED <<broker, virtual, enabled, leg, aim, amount, order, queued, paused, due, mates,
                   want, seen, open, backoff, stirred, help, count>>

HealFilled == held' = held + heal /\ backoff' = "none" /\ UNCHANGED <<resting, virtual, faults>>

HealRests ==
    /\ "rests" \in Events /\ MayFail
    /\ resting' = resting + heal /\ backoff' = "none" /\ UNCHANGED <<held, virtual>>

HealLost == "lost" \in Events /\ MayFail /\ backoff' = "none" /\ UNCHANGED <<broker, virtual>>

HealRefused == MayFail /\ backoff' = "wait" /\ UNCHANGED <<broker, virtual>>

\* The margin breaker gives every runner the whole position of the symbol.
HealShort ==
    /\ "margin" \in Events /\ MayFail
    /\ virtual' = [r \in Runner |-> IF r \in mates THEN seen ELSE virtual[r]]
    /\ backoff' = "tripped"
    /\ UNCHANGED broker

\* Mutation: the lock is not released.
HealEndsHolding ==
    /\ loop = "heal" /\ loop' = "burst" /\ heal' = 0
    /\ HealFilled \/ HealRests \/ HealLost \/ HealRefused \/ HealShort
    /\ UNCHANGED <<enabled, op, queued, paused, due, mates, want, seen, open, stirred,
                   help, calls>>

HealEnds ==
    /\ loop = "heal" /\ loop' = "burst" /\ heal' = 0
    /\ lock' = [lock EXCEPT ![First(mates)] = "free"]
    /\ HealFilled \/ HealRests \/ HealLost \/ HealRefused \/ HealShort
    /\ UNCHANGED <<enabled, leg, aim, amount, order, queued, paused, due, mates, want, seen, open,
                   stirred, help, calls>>

\* Mutation: the cycles do not look at the pause.
StartsBurstPaused ==
    /\ loop = "burst" /\ loop' = "gather"
    /\ queued' \in SUBSET Enabled
    /\ mates' = {} /\ want' = 0 /\ seen' = 0 /\ open' = FALSE /\ stirred' = FALSE
    /\ UNCHANGED <<broker, virtual, enabled, op, paused, due, heal, backoff, help, count>>

\* Every runner whose candle closes gets a cycle; each looks at the switches before
\* it waits for its lock.
StartsBurst ==
    /\ loop = "burst" /\ loop' = "gather"
    /\ queued' \in SUBSET (IF paused THEN {} ELSE Enabled)
    /\ mates' = {} /\ want' = 0 /\ seen' = 0 /\ open' = FALSE   \* locals of the watchdog
    /\ stirred' = FALSE
    /\ UNCHANGED <<broker, virtual, enabled, op, paused, due, heal, backoff, help, count>>

\* Mutation: the loop does not wait for the cycles it started.
BurstEndsEarly ==
    /\ loop = "gather" /\ loop' = "rest"
    /\ UNCHANGED <<broker, runner, paused, due, mates, want, seen, open, heal, backoff, stirred, help, count>>

BurstEnds ==
    /\ loop = "gather" /\ queued = {} /\ \A r \in Runner : lock[r] # "cycle"
    /\ loop' = "rest"
    /\ UNCHANGED <<broker, runner, paused, due, mates, want, seen, open, heal, backoff, stirred, help, count>>

TimerDue ==
    /\ ~due /\ due' = TRUE
    /\ UNCHANGED <<broker, runner, paused, loop, mates, want, seen, open, heal, backoff, stirred, help, count>>

BackoffEnds ==
    /\ backoff = "wait" /\ backoff' = "none"
    /\ UNCHANGED <<broker, runner, paused, loop, due, mates, want, seen, open, heal, stirred, help,
                   count>>

-----------------------------------------------------------------------------
(* The operator and the broker *)

\* Switching a strategy on forgets the symbol's refusals.
Switch(r) ==
    /\ "switch" \in Events /\ MayCall
    /\ enabled' = [enabled EXCEPT ![r] = ~@]
    /\ backoff' = IF enabled[r] THEN backoff ELSE "none"
    /\ UNCHANGED <<broker, virtual, op, queued, paused, loop, due, mates, want, seen, open, heal,
                   stirred, help, faults>>

PanicStarts ==
    /\ "panic" \in Events /\ panic = Idle /\ MayCall
    /\ panic' = "cancel" /\ paused' = TRUE
    /\ calm' = (queued = {} /\ \A r \in Runner : ~Working(r))
    /\ UNCHANGED <<broker, runner, watch, close, zeroed, desk, faults>>

PanicCancels ==
    /\ panic = "cancel" /\ panic' = "ask"
    /\ resting' = 0
    /\ UNCHANGED <<held, runner, paused, watch, close, zeroed, calm, desk, count>>

PanicAsks ==
    /\ panic = "ask" /\ panic' = "close"
    /\ close' = -held
    /\ UNCHANGED <<broker, runner, paused, watch, zeroed, calm, desk, count>>

\* Whatever became of the order, the virtual positions are zeroed next.
PanicCloses ==
    /\ panic = "close" /\ panic' = "zero" /\ close' = 0
    /\ \/ held' = held + close /\ UNCHANGED faults
       \/ close # 0 /\ MayFail /\ UNCHANGED held
    /\ UNCHANGED <<resting, runner, paused, dog, zeroed, calm, desk, calls>>
    /\ Stirs

\* Mutation: the panic leaves the virtual positions as they are.
PanicZeroesNothing(r) ==
    /\ panic = "zero" /\ r \notin zeroed
    /\ zeroed' = zeroed \cup {r}
    /\ panic' = IF zeroed' = Runner THEN "done" ELSE "zero"
    /\ UNCHANGED <<broker, runner, paused, watch, close, calm, desk, count>>

\* One runner at a time, without its lock.
PanicZeroes(r) ==
    /\ panic = "zero" /\ r \notin zeroed
    /\ zeroed' = zeroed \cup {r}
    /\ virtual' = [virtual EXCEPT ![r] = 0]
    /\ panic' = IF zeroed' = Runner THEN "done" ELSE "zero"
    /\ UNCHANGED <<broker, enabled, op, queued, paused, dog, close, calm, desk, count>>
    /\ Stirs

SquareOffAsks ==
    /\ "squareoff" \in Events /\ desk = 0 /\ held # 0 /\ MayCall
    /\ desk' = -held
    /\ UNCHANGED <<broker, runner, paused, watch, panic, close, zeroed, calm, faults>>

SquareOffCloses ==
    /\ desk # 0 /\ desk' = 0
    /\ \/ held' = held + desk /\ UNCHANGED faults
       \/ MayFail /\ UNCHANGED held
    /\ UNCHANGED <<resting, runner, paused, dog, panic, close, zeroed, calm, calls>>
    /\ Stirs

\* Webhook signals and custom strategies trade the same symbol.
OthersTrade(d) ==
    /\ "others" \in Events /\ MayCall
    /\ held' = held + d * Lots
    /\ UNCHANGED <<resting, runner, paused, dog, help, faults>>
    /\ Stirs

\* A day order fills, or is cancelled at the end of the session.
RestEnds ==
    /\ resting # 0 /\ resting' = 0
    /\ held' \in {held, held + resting}
    /\ UNCHANGED <<runner, paused, dog, help, count>>
    /\ Stirs

-----------------------------------------------------------------------------
RunnerStep(r) ==
    \/ CycleLeaves(r)
    \/ \E d \in Direction : Flip(r, d) \/ Sync(r, d)
    \/ Books(r) \/ Refuses(r) \/ Reported(r) \/ Fails(r)

Loop ==
    \/ Wakes \/ AsksPositions \/ AsksOrders \/ Guard \/ Judge
    \/ TakesLock \/ HealEnds \/ StartsBurst \/ BurstEnds

PanicCall ==
    \/ PanicCancels \/ PanicAsks \/ PanicCloses
    \/ \E r \in Runner : PanicZeroes(r)

Others ==
    \/ PanicStarts \/ SquareOffAsks \/ SquareOffCloses
    \/ \E r \in Runner : Switch(r)
    \/ \E d \in Direction : OthersTrade(d)
    \/ RestEnds

Next ==
    \/ \E r \in Runner : RunnerStep(r)
    \/ Loop \/ TimerDue \/ BackoffEnds \/ PanicCall \/ Others

Spec == Init /\ [][Next]_vars

\* Requests and sleeps end, tasks are scheduled, and a day order does not rest for ever.
Fairness ==
    /\ WF_vars(Loop) /\ WF_vars(TimerDue) /\ WF_vars(BackoffEnds)
    /\ WF_vars(PanicCall) /\ WF_vars(SquareOffCloses) /\ WF_vars(RestEnds)
    /\ \A r \in Runner :
          /\ WF_vars(Books(r) \/ Refuses(r))
          /\ WF_vars(Reported(r) \/ Fails(r))
          /\ WF_vars(CycleLeaves(r) \/ \E d \in Direction : Flip(r, d))

FairSpec == Spec /\ Fairness

-----------------------------------------------------------------------------
(* Properties *)

TypeOK ==
    /\ held \in Int /\ resting \in Int
    /\ virtual \in [Runner -> Int] /\ enabled \in [Runner -> BOOLEAN]
    /\ lock \in [Runner -> {"free", "cycle", "sync", "watch"}]
    /\ leg \in [Runner -> {"none", "exit", "enter"}] /\ aim \in [Runner -> Direction]
    /\ amount \in [Runner -> Int]
    /\ order \in [Runner -> {"none", "sent", "booked", "refused"}]
    /\ queued \subseteq Runner /\ paused \in BOOLEAN
    /\ loop \in {"rest", "positions", "orders", "guard", "judge", "await", "heal", "burst",
              "gather"}
    /\ due \in BOOLEAN /\ mates \subseteq Runner /\ open \in BOOLEAN
    /\ want \in Int /\ seen \in Int /\ heal \in Int
    /\ backoff \in {"none", "wait", "tripped"} /\ stirred \in BOOLEAN
    /\ panic \in {Idle, "cancel", "ask", "close", "zero", "done"}
    /\ close \in Int /\ zeroed \subseteq Runner /\ calm \in BOOLEAN /\ desk \in Int
    /\ faults \in 0 .. MaxFaults /\ calls \in 0 .. MaxCalls

\* The watchdog's corrective order brings the broker to the runners' target, unless a
\* failed query misled it or somebody else traded while it waited: it compares what
\* it read in four awaits, and of the loop's own cycles, which move both sides of the
\* comparison, none is ever under way between its query and its order.
HealIsWarranted == loop = "heal" /\ ~stirred => heal = Total(mates) - held

\* Whatever makes them differ, the broker and the enabled runners agree again
\* and again, unless the margin breaker has stopped the watchdog.
InStep == Enabled = {} \/ Total(Enabled) = held \/ backoff = "tripped"
Converges == []<>InStep

\* A panic that met no order half way has the last word on what the runners believe: it
\* zeroes them one by one and without their locks, and no cycle that was on its way moves
\* a zeroed one again; only the margin breaker does, and a sync asked for later.
PanicLasts == [][calm => \A r \in zeroed : virtual'[r] # virtual[r]
                 => backoff' = "tripped" \/ lock[r] = "sync"]_vars

\* After a panic that met no order of a runner half way, the symbol ends flat and
\* stays so: the watchdog does not buy back what the panic sold.
Flattened == calm => held = 0 \/ Enabled = {} \/ backoff = "tripped"
PanicFlattens == <>[](panic = "done" => Flattened)

\* The three that the code does not keep: the broker's position is verified again
\* under the lock ("Re-verify latest target position and broker position"), a panic
\* that comes while a runner's order is under way flattens the symbol too, and the
\* margin breaker leaves the runners' target at the broker's position
\* ("Extinguishing target drift").
HealIsCurrent == loop = "heal" => heal = Total(mates) - held
PanicSticks == <>[](panic = "done" => held = 0 \/ Enabled = {} \/ backoff = "tripped")
BreakerEndsDrift == [][backoff # "tripped" /\ backoff' = "tripped" => Total(mates)' = seen]_vars
=============================================================================
