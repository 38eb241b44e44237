--------------------------- MODULE StrategyRunner ---------------------------
(***************************************************************************)
(* One SuperTrend strategy of a tenant: SingleSuperTrendRunner of          *)
(* client/supertrend_engine.py, in LIVE mode, with the broker position it  *)
(* is responsible for.                                                     *)
(*                                                                         *)
(* The runner never reads its position from the broker. It keeps           *)
(* virtual_position, adjusts it with every order that is reported as       *)
(* accepted, and saves it to SQLite. Its operations (a flip of the trend,  *)
(* a contract rollover, and the operator's sync and reset) consist of one  *)
(* or two legs of freeze-limit slices, dispatched one after the other      *)
(* under the runner's asyncio lock; each dispatch takes the path modelled  *)
(* in SignalPipeline and is one order here.                                *)
(***************************************************************************)
EXTENDS Integers

CONSTANTS
    Lots,          \* quantity: the configured size of the strategy
    FreezeLots,    \* the most lots one order may carry
    Events,        \* what may happen besides candles and restarts
    Fates,         \* the ways an order may end
    MidOrderCrash, \* may the container stop while an order is at large?
    MaxCrashes,    \* bound: restarts in a behaviour
    MaxHeld        \* bound: no operation starts with more lots than this held

\* "filled" and "refused" are reported as such. "unseen" is filled although
\* the dispatch reports a failure (a timeout); "cancelled" is reported as
\* accepted and never fills (the partial-fill guard takes it back).
Fate == {"filled", "refused", "unseen", "cancelled"}

ASSUME RunnerAssumption ==
    /\ Lots \in Nat \ {0}
    /\ FreezeLots \in Nat \ {0}
    /\ Events \subseteq {"sync", "reset", "force", "rollover", "expiry"}
    /\ Fates \subseteq Fate
    /\ MidOrderCrash \in BOOLEAN
    /\ MaxCrashes \in Nat
    /\ MaxHeld \in Nat

VARIABLES
    front,      \* the contract the master data resolves the symbol to
    trend,      \* SuperTrend direction of the last closed candle
    candle,     \* is that candle a "flip" of the trend or "plain"?
    taken,      \* last_processed_candle_time: "never" set, "older", or "this"
    judged,     \* the candle the current evaluation looked at is still the last
    paused,     \* TRADING_PAUSED of the container
    enabled,    \* is_enabled
    cycle,      \* evaluate_cycle is past its first checks
    task,       \* the operation that holds the lock
    leg,        \* its current leg
    side,       \* direction of the leg's orders: 1 buys, -1 sells
    size,       \* lots of the leg
    left,       \* lots of the leg not yet reported
    tries,      \* attempts at the leg
    flight,     \* the order at large, or how it ended
    onto,       \* the contract of that order
    virtual,    \* virtual_position
    active,     \* active_contract_id
    resolved,   \* last_resolved_symbol_desc
    saved,      \* durable: the strategy_virtual_positions row
    held,       \* the broker's net position per contract
    orphan,     \* lots of an order that outlived its process, still at large
    crashes

market == <<front, trend, candle>>
signal == <<taken, judged>>
switch == <<paused, enabled>>
legs   == <<leg, side, size, left, tries>>
order  == <<flight, onto>>
book   == <<virtual, active, saved>>
world  == <<held, orphan, crashes>>
vars   == <<market, signal, switch, cycle, task, legs, order, book, resolved, world>>

----------------------------------------------------------------------------
Contract  == {"near", "next"}
Direction == {-1, 1}

Abs(n) == IF n < 0 THEN -n ELSE n

Chunk == IF left < FreezeLots THEN left ELSE FreezeLots

\* The position is held against direction d.
Opposes(n, d) == n * d < 0

Saved(n, c) == [lots |-> n, contract |-> c]

Init ==
    /\ front = "near"
    /\ trend \in Direction
    /\ candle = "plain"
    /\ taken = "never"
    /\ judged = TRUE
    /\ paused = FALSE
    /\ enabled = TRUE
    /\ cycle = FALSE
    /\ task = "none"
    /\ leg = "none" /\ side = 1 /\ size = 0 /\ left = 0 /\ tries = 0
    /\ flight = "none" /\ onto = "near"
    /\ virtual = 0
    /\ active = "near"
    /\ resolved = "near"
    /\ saved = Saved(0, "near")
    /\ held = [c \in Contract |-> 0]
    /\ orphan = 0
    /\ crashes = 0

----------------------------------------------------------------------------
(* The world around the runner *)

\* A candle closes; its SuperTrend may flip.
CandleCloses ==
    /\ trend' \in Direction
    /\ candle' = IF trend' = trend THEN "plain" ELSE "flip"
    /\ taken' = IF taken = "this" THEN "older" ELSE taken
    /\ judged' = FALSE
    /\ UNCHANGED <<front, switch, cycle, task, legs, order, book, resolved, world>>

\* The roll-over date passes: the symbol resolves to the next contract.
FrontMonthMoves ==
    /\ "rollover" \in Events
    /\ front' = "next"
    /\ UNCHANGED <<trend, candle, signal, switch, cycle, task, legs, order, book,
                   resolved, world>>

\* The pause and resume calls, and the portal's toggles of the strategy.
Switch ==
    /\ paused' \in BOOLEAN
    /\ enabled' \in BOOLEAN
    /\ UNCHANGED <<market, signal, cycle, task, legs, order, book, resolved, world>>

\* update_config looks the contract up again.
ConfigSaved ==
    /\ resolved' = front
    /\ UNCHANGED <<market, signal, switch, cycle, task, legs, order, book, world>>

----------------------------------------------------------------------------
(* Legs *)

Begin(t, l, d, n) ==
    /\ task' = t
    /\ leg' = l
    /\ side' = d
    /\ size' = n
    /\ left' = n
    /\ tries' = 1

NoLeg == leg' = "none" /\ side' = 1 /\ size' = 0 /\ left' = 0 /\ tries' = 0

\* The lock is released.
End == task' = "none" /\ NoLeg

\* Mutation: a retry that is not counted
RetryUncounted(n) ==
    /\ left' = n
    /\ UNCHANGED <<task, leg, side, size, tries>>

\* Mutation: a retry that sends the whole leg again
RetryWhole(n) ==
    /\ left' = size
    /\ tries' = tries + 1
    /\ UNCHANGED <<task, leg, side, size>>

Retry(n) ==
    /\ left' = n
    /\ tries' = tries + 1
    /\ UNCHANGED <<task, leg, side, size>>

\* Mutation: a reversal in one netted leg.
TurnNetted(t, d) ==
    /\ Opposes(virtual, d) \/ Abs(virtual) < Lots
    /\ Begin(t, "enter", d, Lots - d * virtual)

\* Bring the position to the full size in direction d: one leg out of an
\* opposite position, then one leg in.
Turn(t, d) ==
    \/ Opposes(virtual, d) /\ Begin(t, "exit", d, Abs(virtual))
    \/ /\ ~Opposes(virtual, d)
       /\ Abs(virtual) < Lots
       /\ Begin(t, "enter", d, Lots - Abs(virtual))

Capped == \A c \in Contract : Abs(held[c]) <= MaxHeld

AwayFrom(n) == IF n > 0 THEN -1 ELSE 1

----------------------------------------------------------------------------
(* evaluate_cycle *)

\* The switches are read before the lock is requested.
CycleStarts ==
    /\ enabled
    /\ ~paused
    /\ cycle' = TRUE
    /\ UNCHANGED <<market, signal, switch, task, legs, order, book, resolved, world>>

\* Early returns: no contract or candles, a closed market or its opening
\* minute, nothing to do. The check for pending orders of the strategy never
\* returns early: it looks for keys (OrderStatus, OrderUniqueIdentifier) that
\* get_broker_orders does not return.
CycleLeaves ==
    /\ cycle
    /\ task \in {"none", "cycle"}
    /\ cycle' = FALSE
    /\ End
    /\ UNCHANGED <<market, signal, switch, order, book, resolved, world>>

\* Contract check under the lock. A flat runner moves to the front contract.
ContractAgrees ==
    /\ cycle
    /\ task = "none"
    /\ active = front \/ virtual = 0
    /\ task' = "cycle"
    /\ active' = front
    /\ resolved' = front
    /\ IF active = front
       THEN UNCHANGED <<saved, taken>>
       ELSE saved' = Saved(virtual, front) /\ taken' = "never"
    /\ UNCHANGED <<market, judged, switch, cycle, legs, order, virtual, world>>

\* Mutation: the new contract is entered before the old one is left.
RollStartsEnters ==
    /\ cycle
    /\ task = "none"
    /\ active # front
    /\ virtual # 0
    /\ Capped
    /\ Begin("roll", "enter", -AwayFrom(virtual), Abs(virtual))
    /\ UNCHANGED <<market, signal, switch, cycle, order, book, resolved, world>>

RollStarts ==
    /\ cycle
    /\ task = "none"
    /\ active # front
    /\ virtual # 0
    /\ Capped
    /\ Begin("roll", "exit", AwayFrom(virtual), Abs(virtual))
    /\ UNCHANGED <<market, signal, switch, cycle, order, book, resolved, world>>

\* A fixed contract close to its expiry is squared off and retired.
ExpiryStarts ==
    /\ "expiry" \in Events
    /\ task = "cycle"
    /\ Capped
    /\ IF virtual = 0
       THEN End /\ cycle' = FALSE /\ enabled' = FALSE
       ELSE /\ Begin("expiry", "exit", AwayFrom(virtual), Abs(virtual))
            /\ UNCHANGED <<cycle, enabled>>
    /\ UNCHANGED <<market, signal, paused, order, book, resolved, world>>

\* A flip on a candle not yet processed. On the first evaluation after a
\* start, a candle older than the stale window is only noted.
FlipStarts ==
    /\ task = "cycle"
    /\ candle = "flip"
    /\ taken # "this"
    /\ Capped
    /\ Turn("flip", trend)
    /\ judged' = TRUE
    /\ UNCHANGED <<market, taken, switch, cycle, order, book, resolved, world>>

CandleNoted ==
    /\ task = "cycle"
    /\ \/ taken = "never"
       \/ candle = "flip" /\ ~Opposes(virtual, trend) /\ Abs(virtual) >= Lots
    /\ taken' = "this"
    /\ cycle' = FALSE
    /\ End
    /\ UNCHANGED <<market, judged, switch, order, book, resolved, world>>

----------------------------------------------------------------------------
(* Calls of the operator: sync_to_current_trend and reset_to_flat *)

SyncStarts ==
    /\ "sync" \in Events
    /\ task = "none"
    /\ Capped
    /\ Turn("sync", trend)
    /\ UNCHANGED <<market, signal, switch, cycle, order, book, resolved, world>>

ResetStarts ==
    /\ "reset" \in Events
    /\ task = "none"
    /\ virtual # 0
    /\ Capped
    /\ Begin("reset", "exit", AwayFrom(virtual), Abs(virtual))
    /\ UNCHANGED <<market, signal, switch, cycle, order, book, resolved, world>>

\* square_off_broker is false: only the target is reset.
ForceReset ==
    /\ "force" \in Events
    /\ task = "none"
    /\ virtual' = 0
    /\ saved' = Saved(0, saved.contract)
    /\ UNCHANGED <<market, signal, switch, cycle, task, legs, order, active, resolved, world>>

----------------------------------------------------------------------------
(* Orders *)

\* A rollover and a reset name the contract; the other legs carry the symbol,
\* which is resolved when the order is placed.
Destination ==
    CASE task = "roll" /\ leg = "exit" -> active
      [] task = "reset"                -> resolved
      [] OTHER                         -> front

Send ==
    /\ leg # "none"
    /\ flight = "none"
    /\ flight' = "sent"
    /\ onto' = Destination
    /\ UNCHANGED <<market, signal, switch, cycle, task, legs, book, resolved, world>>

\* The order ends at the broker or before it.
OrderEnds ==
    /\ flight = "sent"
    /\ \E f \in Fates :
          /\ flight' = f
          /\ held' = IF f \in {"filled", "unseen"}
                     THEN [held EXCEPT ![onto] = @ + side * Chunk]
                     ELSE held
    /\ UNCHANGED <<market, signal, switch, cycle, task, legs, onto, book, resolved, orphan, crashes>>

Accepted == flight \in {"filled", "cancelled"}
Failed   == flight \in {"refused", "unseen"}

\* What virtual_position becomes when the current slice is accepted.
Moved == virtual + side * Chunk

\* Mutation: the position is saved only when a leg is complete.
SliceDoneUnsaved ==
    /\ Accepted
    /\ Chunk < left
    /\ virtual' = Moved
    /\ left' = left - Chunk
    /\ flight' = "none"
    /\ UNCHANGED <<market, signal, switch, cycle, task, leg, side, size, tries, onto,
                   active, saved, resolved, world>>

\* A slice that is not the last of its leg is accepted.
SliceDone ==
    /\ Accepted
    /\ Chunk < left
    /\ virtual' = Moved
    /\ saved' = Saved(Moved, active)
    /\ left' = left - Chunk
    /\ flight' = "none"
    /\ UNCHANGED <<market, signal, switch, cycle, task, leg, side, size, tries, onto,
                   active, resolved, world>>

\* Mutation: a flip enters as many lots as it left.
EntryLegMirrors ==
    \/ task = "flip" /\ Begin(task, "enter", side, size)
    \/ task = "sync" /\ Begin(task, "enter", side, Lots)
    \/ task = "roll" /\ Begin(task, "enter", -side, size)

\* The leg that follows a completed exit: a reversal enters the full size, a
\* rollover enters what it left, in the direction it left.
EntryLeg ==
    \/ task \in {"flip", "sync"} /\ Begin(task, "enter", side, Lots)
    \/ task = "roll" /\ Begin(task, "enter", -side, size)

\* The last slice of a leg out of a position is accepted.
ExitDone ==
    /\ Accepted
    /\ Chunk = left
    /\ leg = "exit"
    /\ flight' = "none"
    /\ \/ /\ EntryLeg
          /\ virtual' = Moved
          /\ UNCHANGED <<enabled, cycle>>
       \/ /\ task \in {"reset", "expiry"}
          /\ End
          /\ virtual' = 0
          /\ enabled' = (enabled /\ task = "reset")
          /\ cycle' = (cycle /\ task = "reset")
    /\ saved' = Saved(virtual', active)
    /\ UNCHANGED <<market, signal, paused, onto, active, resolved, world>>

\* The last slice of a leg into a position is accepted.
EntryDone ==
    /\ Accepted
    /\ Chunk = left
    /\ leg = "enter"
    /\ flight' = "none"
    /\ \/ /\ task = "flip"
          /\ End
          /\ cycle' = FALSE
          /\ taken' = (IF judged THEN "this" ELSE "older")
          /\ virtual' = Moved
          /\ UNCHANGED <<active, resolved>>
       \/ /\ task = "sync"
          /\ End
          /\ virtual' = side * Lots
          /\ UNCHANGED <<cycle, taken, active, resolved>>
       \/ /\ task = "roll"
          /\ task' = "cycle"
          /\ NoLeg
          /\ virtual' = Moved
          /\ active' = front
          /\ resolved' = front
          /\ taken' = "never"
          /\ UNCHANGED cycle
    /\ saved' = Saved(virtual', active')
    /\ UNCHANGED <<market, judged, switch, onto, world>>

\* A slice of a leg out of a position fails. A flip and a rollover retry once,
\* the flip with what is left of the position, the rollover with its whole
\* size; then they give up. A reset and an expiry square-off do not look.
ExitFails ==
    /\ Failed
    /\ leg = "exit"
    /\ flight' = "none"
    /\ \/ /\ task \in {"flip", "roll"}
          /\ tries = 1
          /\ Retry(IF task = "flip" THEN Abs(virtual) ELSE size)
          /\ UNCHANGED <<enabled, cycle, virtual, saved>>
       \/ /\ task \in {"flip", "roll"}
          /\ tries = 2
          /\ End
          /\ enabled' = FALSE
          /\ cycle' = FALSE
          /\ UNCHANGED <<virtual, saved>>
       \/ /\ task = "sync"
          /\ End
          /\ UNCHANGED <<enabled, cycle, virtual, saved>>
       \/ /\ task = "reset"
          /\ End
          /\ virtual' = 0
          /\ saved' = Saved(0, saved.contract)
          /\ UNCHANGED <<enabled, cycle>>
       \/ /\ task = "expiry"
          /\ End
          /\ virtual' = 0
          /\ saved' = Saved(0, active)
          /\ enabled' = FALSE
          /\ cycle' = FALSE
    /\ UNCHANGED <<market, signal, paused, onto, active, resolved, world>>

\* A slice of a leg into a position fails. A flip retries once with what is
\* missing, a rollover twice with its whole size; then the strategy stops, and
\* a rollover declares itself flat on the new contract. A sync stops the
\* strategy unless it was only topping the position up.
EntryFails ==
    /\ Failed
    /\ leg = "enter"
    /\ flight' = "none"
    /\ \/ /\ task = "flip"
          /\ tries = 1
          /\ Retry(Lots - Abs(virtual))
          /\ UNCHANGED <<enabled, cycle, book, resolved, taken>>
       \/ /\ task = "flip"
          /\ tries = 2
          /\ End
          /\ enabled' = FALSE
          /\ cycle' = FALSE
          /\ UNCHANGED <<book, resolved, taken>>
       \/ /\ task = "sync"
          /\ End
          /\ enabled' = (enabled /\ size < Lots)
          /\ UNCHANGED <<cycle, book, resolved, taken>>
       \/ /\ task = "roll"
          /\ tries < 3
          /\ Retry(size)
          /\ UNCHANGED <<enabled, cycle, book, resolved, taken>>
       \/ /\ task = "roll"
          /\ tries = 3
          /\ End
          /\ enabled' = FALSE
          /\ cycle' = FALSE
          /\ virtual' = 0
          /\ active' = front
          /\ resolved' = front
          /\ saved' = Saved(0, front)
          /\ taken' = "never"
    /\ UNCHANGED <<market, judged, paused, onto, world>>

----------------------------------------------------------------------------
(* Crash and restart *)

\* Mutation: the saved position is not read again.
RestartForgets ==
    /\ crashes < MaxCrashes
    /\ flight # "none" => MidOrderCrash
    /\ crashes' = crashes + 1
    /\ End
    /\ cycle' = FALSE
    /\ taken' = "never"
    /\ judged' = TRUE
    /\ paused' = FALSE
    /\ enabled' \in BOOLEAN
    /\ flight' = "none"
    /\ orphan' = IF flight = "sent" THEN side * Chunk ELSE orphan
    /\ virtual' = 0
    /\ active' = saved.contract
    /\ resolved' = saved.contract
    /\ UNCHANGED <<market, onto, saved, held>>

\* The container stops and comes back: position and contract are read from
\* SQLite, the switch from the tenant's configuration. An order at large may
\* still be filled.
Restart ==
    /\ crashes < MaxCrashes
    /\ flight # "none" => MidOrderCrash
    /\ crashes' = crashes + 1
    /\ End
    /\ cycle' = FALSE
    /\ taken' = "never"
    /\ judged' = TRUE
    /\ paused' = FALSE
    /\ enabled' \in BOOLEAN
    /\ flight' = "none"
    /\ orphan' = IF flight = "sent" THEN side * Chunk ELSE orphan
    /\ virtual' = saved.lots
    /\ active' = saved.contract
    /\ resolved' = saved.contract
    /\ UNCHANGED <<market, onto, saved, held>>

\* The order that was at large when the container stopped is filled or dies.
OrphanEnds ==
    /\ orphan # 0
    /\ orphan' = 0
    /\ \/ held' = [held EXCEPT ![onto] = @ + orphan]
       \/ UNCHANGED held
    /\ UNCHANGED <<market, signal, switch, cycle, task, legs, order, book, resolved, crashes>>

----------------------------------------------------------------------------
World ==
    CandleCloses \/ FrontMonthMoves \/ Switch \/ ConfigSaved \/ Restart \/ OrphanEnds

Calls == SyncStarts \/ ResetStarts \/ ForceReset

Cycle ==
    \/ CycleStarts \/ CycleLeaves \/ ContractAgrees \/ RollStarts \/ ExpiryStarts
    \/ FlipStarts \/ CandleNoted

\* The steps an operation takes once it holds the lock.
Trade == Send \/ OrderEnds \/ SliceDone \/ ExitDone \/ EntryDone \/ ExitFails \/ EntryFails

Next == World \/ Calls \/ Cycle \/ Trade

Spec == Init /\ [][Next]_vars

\* A dispatch returns, since its POST times out; the event loop runs the
\* coroutine that holds the lock.
FairSpec == Spec /\ WF_vars(Trade) /\ WF_vars(CycleLeaves)

----------------------------------------------------------------------------
(* Properties *)

Total == held["near"] + held["next"]

TypeOK ==
    /\ front \in Contract
    /\ trend \in Direction
    /\ candle \in {"plain", "flip"}
    /\ taken \in {"never", "older", "this"}
    /\ judged \in BOOLEAN
    /\ paused \in BOOLEAN
    /\ enabled \in BOOLEAN
    /\ cycle \in BOOLEAN
    /\ task \in {"none", "cycle", "flip", "roll", "sync", "reset", "expiry"}
    /\ leg \in {"none", "exit", "enter"}
    /\ side \in Direction
    /\ size \in Nat
    /\ left \in Nat
    /\ tries \in 0..3
    /\ flight \in {"none", "sent"} \cup Fate
    /\ onto \in Contract
    /\ virtual \in Int
    /\ active \in Contract
    /\ resolved \in Contract
    /\ saved \in [lots : Int, contract : Contract]
    /\ held \in [Contract -> Int]
    /\ orphan \in Int
    /\ crashes \in 0..MaxCrashes

\* The runner knows its position without asking the broker: its books, plus
\* the one order that was filled but not yet reported, are the broker's net
\* position, through slices, retries, reversals and restarts.
BooksAgree ==
    virtual + (IF flight = "filled" THEN side * Chunk ELSE 0) = Total

\* A restart reads back what memory held: whatever ends an operation half way, a
\* refused leg, a lost order, a rollover given up or a forced reset, the row of
\* SQLite is the runner's position and contract.
SavedFollows == saved = Saved(virtual, active)

\* No operation, retried or restarted, ever holds more than the configured
\* lots at the broker, long or short.
WithinLots == Abs(Total) <= Lots

\* Exit before entry: while orders into a position are sent, nothing is held
\* against them (audit_plan.md: sequential reversal execution).
NeverOpposed == leg = "enter" => ~Opposes(Total, side)

\* A flip that ends after an accepted order, so neither by a failure nor by a
\* restart, has brought the position to the full size in its direction, also
\* when it started from part of a position and took a retry.
FlipCompletes ==
    [][task = "flip" /\ task' = "none" /\ flight = "filled" => Total = side * Lots]_vars

\* Outside a rollover, all lots are held in the contract the runner believes.
OneContract ==
    task # "roll" => \A c \in Contract : c # active => held[c] = 0

\* An operation always comes to its end and frees the lock: retries are
\* bounded and no order is waited for forever.
LockIsReleased == task # "none" ~> task = "none"

\* xts_api.py: an order whose state is unknown must not be retried blindly.
NoBlindRetry == [][flight = "unseen" => leg' = "none"]_vars

\* A completed rollover preserves the exact lot count, and only that.
RollKeepsLots ==
    [][task = "roll" /\ task' = "cycle"
       => held["next"] = side * size /\ held["near"] = 0]_vars

\* A reset with square-off leaves nothing open at the broker.
ResetClosesBroker == [][task = "reset" /\ task' = "none" /\ flight # "none" => Total = 0]_vars

\* audit_plan.md: while an order of the strategy is pending at the broker, no
\* flip is executed.
PendingSuppresses == [][orphan # 0 => ~FlipStarts]_vars

\* After a crash the position is recovered without a duplicate order.
RecoveryNeverDuplicates == Abs(Total) <= Lots
=============================================================================
