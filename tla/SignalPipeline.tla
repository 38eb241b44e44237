--------------------------- MODULE SignalPipeline ---------------------------
(***************************************************************************)
(* The path of a trading signal through one tenant's gateway               *)
(* (client/main.py with place_order of client/xts_api.py):                 *)
(*                                                                         *)
(*   webhook -> pause check -> validation, dedup shield -> row "pending"   *)
(*           -> background thread: row "processing" -> symbol lock         *)
(*           -> one POST per freeze-limit slice, verified at the broker    *)
(*           -> row done / paper_done / partial_failure / failed           *)
(*                                                                         *)
(* together with the strategy engines that stage rows directly, the pause  *)
(* switch, the broker and the network, crashes of the container at any     *)
(* point, and the recovery that a restart runs over the unfinished rows.   *)
(*                                                                         *)
(* The tenant trades live (PAPER_TRADE_MODE off); a single strategy may    *)
(* still be set to paper, which is the is_paper argument of a dispatch.    *)
(***************************************************************************)
EXTENDS Naturals, FiniteSets

CONSTANTS
    Signal,        \* signals that may reach the gateway, each with its own row id
    Nobody,        \* no signal: the holder of a free lock
    Symbol,        \* traded symbols
    SymbolOf,      \* the symbol a signal trades
    HashOf,        \* the dedup hash of a signal's content
    RefOf,         \* the order_ref computed for a signal
    MaxSlices,     \* the most slices MAX_UNITS_LIMIT and the freeze limits allow
    SlicesOf,      \* the number of freeze-limit slices of a signal's quantity
    FromEngine,    \* the signals staged by a strategy engine, not by the webhook
    InPaper,       \* the signals of strategies in PAPER mode
    Misread,       \* the signals whose unit counts contain 502, 503 or 504
    OddStatus,     \* may the broker report a status the gateway cannot map?
    MaxCrashes     \* bound: container crashes in a behaviour

ASSUME PipelineAssumption ==
    /\ Nobody \notin Signal
    /\ SymbolOf \in [Signal -> Symbol]
    /\ MaxSlices \in Nat
    /\ SlicesOf \in [Signal -> 1..MaxSlices]
    /\ FromEngine \subseteq Signal
    /\ InPaper \subseteq FromEngine
    /\ Misread \subseteq Signal
    /\ OddStatus \in BOOLEAN
    /\ MaxCrashes \in Nat

VARIABLES
    up,            \* is the container running?
    paused,        \* TRADING_PAUSED, a module global
    crashes,       \* crashes so far
    pc,            \* what the handler or thread working on a signal does next
    asPaper,       \* the signals whose dispatch has is_paper set
    attempt,       \* the attempt argument of execute_trade_with_retry
    placed,        \* slices of the signal the broker accepted in this attempt
    verdict,       \* the status computed for the row, not yet written
    owner,         \* the signal whose thread holds a symbol's lock
    unfinished,    \* rows the recovery thread still has to look at
    row,           \* durable: status column of the signals table
    shield,        \* durable: hashes in the signal_dedup table
    order,         \* the latest order request for a slice, at network and broker
    booked         \* the number of orders the broker booked for a slice

memory == <<asPaper, attempt, placed, verdict>>
store  == <<row, shield>>
broker == <<order, booked>>
vars   == <<up, paused, crashes, pc, memory, owner, unfinished, store, broker>>

----------------------------------------------------------------------------
Slice == 1..MaxSlices

Hash == {HashOf[s] : s \in Signal}

\* "queued" is a BackgroundTask, an engine's to_thread call or a job of the
\* recovery's executor: the row is pending and _dispatch_and_record will run.
Phase == {"idle", "screen", "stage", "queued", "locking", "ready",
          "awaiting", "record", "notify", "over"}

Unfinished == {"pending", "processing"}
Abandoned  == {"abandoned_stale", "abandoned_manual_review_needed"}
Final      == {"done", "paper_done", "partial_failure", "failed"} \cup Abandoned
RowStatus  == {"none", "pruned"} \cup Unfinished \cup Final

\* "live" stands for New, Open, PartiallyFilled, Replaced and the pending
\* changes; "odd" for any status outside XTS_STATUS_CODE_MAP.
Booked      == {"pendingnew", "live", "filled", "rejected", "cancelled", "odd"}
OrderStatus == {"unsent", "flying", "lost", "denied"} \cup Booked

IsBooked(s, k) == order[s][k] \in Booked

\* The reports in the broker's order book that carry the reference of slice k
\* of s. A reference is the only link the gateway keeps, and two signals may
\* have been given the same one.
Reports(s, k) ==
    {order[t][k] : t \in {u \in Signal : RefOf[u] = RefOf[s] /\ IsBooked(u, k)}}

\* Every signal at the value v.
Fresh(v) == [s \in Signal |-> v]

NoOwners == [y \in Symbol |-> Nobody]

Init ==
    /\ up = TRUE
    /\ paused = FALSE
    /\ crashes = 0
    /\ pc = Fresh("idle")
    /\ asPaper = {}
    /\ attempt = Fresh(1)
    /\ placed = Fresh(0)
    /\ verdict = Fresh("none")
    /\ owner = NoOwners
    /\ unfinished = {}
    /\ row = Fresh("none")
    /\ shield = {}
    /\ order = Fresh([k \in Slice |-> "unsent"])
    /\ booked = Fresh([k \in Slice |-> 0])

----------------------------------------------------------------------------
(* Ingress: receive_webhook, and the strategy engines *)

\* A request enters receive_webhook: the pause switch is read once, before
\* the body has arrived.
Receive(s) ==
    /\ up
    /\ s \notin FromEngine
    /\ pc[s] = "idle"
    /\ pc' = [pc EXCEPT ![s] = IF paused THEN "over" ELSE "screen"]
    /\ UNCHANGED <<up, paused, crashes, memory, owner, unfinished, store, broker>>

\* The request is malformed, slow or unauthorised, or the dedup query fails:
\* it is answered without leaving a trace.
Dismiss(s) ==
    /\ up
    /\ pc[s] = "screen"
    /\ pc' = [pc EXCEPT ![s] = "over"]
    /\ UNCHANGED <<up, paused, crashes, memory, owner, unfinished, store, broker>>

\* is_duplicate_signal: one transaction under the database lock.
Screen(s) ==
    /\ up
    /\ pc[s] = "screen"
    /\ pc' = [pc EXCEPT ![s] = IF HashOf[s] \in shield THEN "over" ELSE "stage"]
    /\ shield' = shield \cup {HashOf[s]}
    /\ UNCHANGED <<up, paused, crashes, memory, owner, unfinished, row, broker>>

\* The dedup window of a hash has passed; its entry is deleted on next use.
ShieldExpires(h) ==
    /\ h \in shield
    /\ shield' = shield \ {h}
    /\ UNCHANGED <<up, paused, crashes, pc, memory, owner, unfinished, row, broker>>

\* db_insert_pending and background_tasks.add_task.
Stage(s) ==
    /\ up
    /\ pc[s] = "stage"
    /\ row' = [row EXCEPT ![s] = "pending"]
    /\ pc' = [pc EXCEPT ![s] = "queued"]
    /\ UNCHANGED <<up, paused, crashes, memory, owner, unfinished, shield, broker>>

\* An engine stages a row itself and hands it to a thread; the custom strategy
\* engine does not read the pause switch.
EngineStage(s) ==
    /\ up
    /\ s \in FromEngine
    /\ pc[s] = "idle"
    /\ row' = [row EXCEPT ![s] = "pending"]
    /\ pc' = [pc EXCEPT ![s] = "queued"]
    /\ asPaper' = asPaper \cup ({s} \cap InPaper)
    /\ UNCHANGED <<up, paused, crashes, attempt, placed, verdict, owner,
                   unfinished, shield, broker>>

Pause ==
    /\ up
    /\ paused' = TRUE
    /\ UNCHANGED <<up, crashes, pc, memory, owner, unfinished, store, broker>>

Resume ==
    /\ up
    /\ paused' = FALSE
    /\ UNCHANGED <<up, crashes, pc, memory, owner, unfinished, store, broker>>

----------------------------------------------------------------------------
(* Dispatch: _dispatch_and_record, execute_trade_with_retry, place_order *)

\* The row is marked before the lock is requested, so before any POST.
Begin(s) ==
    /\ up
    /\ pc[s] = "queued"
    /\ row' = [row EXCEPT ![s] = "processing"]
    /\ pc' = [pc EXCEPT ![s] = "locking"]
    /\ UNCHANGED <<up, paused, crashes, memory, owner, unfinished, shield, broker>>

\* Mutation of Acquire: the lock of the symbol is not waited for.
AcquireUnlocked(s) ==
    /\ up
    /\ pc[s] = "locking"
    /\ owner' = [owner EXCEPT ![SymbolOf[s]] = s]
    /\ pc' = [pc EXCEPT ![s] = "ready"]
    /\ UNCHANGED <<up, paused, crashes, memory, unfinished, store, broker>>

Acquire(s) ==
    /\ up
    /\ pc[s] = "locking"
    /\ owner[SymbolOf[s]] = Nobody
    /\ owner' = [owner EXCEPT ![SymbolOf[s]] = s]
    /\ pc' = [pc EXCEPT ![s] = "ready"]
    /\ UNCHANGED <<up, paused, crashes, memory, unfinished, store, broker>>

\* place_order returns without success: what was accepted so far decides the
\* status. The message "Partial slices placed: 1800/5025 units" is searched for
\* the HTTP codes of a gateway; if its digits contain one, the first attempt
\* counts as timed out.
Failure(s) ==
    IF placed[s] > 0 /\ (attempt[s] = 1 => s \notin Misread)
    THEN "partial_failure"
    ELSE "failed"

Fail(s) ==
    /\ verdict' = [verdict EXCEPT ![s] = Failure(s)]
    /\ pc' = [pc EXCEPT ![s] = "record"]
    /\ UNCHANGED attempt

\* An authentication error on the first attempt clears the tokens and calls
\* place_order again; no slice has been accepted then.
Retry(s) ==
    /\ placed[s] = 0
    /\ attempt[s] = 1
    /\ attempt' = [attempt EXCEPT ![s] = 2]
    /\ pc' = [pc EXCEPT ![s] = "ready"]
    /\ UNCHANGED verdict

\* The broker took the slice: go on to the next one, or report success.
Advance(s) ==
    /\ placed' = [placed EXCEPT ![s] = @ + 1]
    /\ IF placed[s] + 1 = SlicesOf[s]
       THEN /\ verdict' = [verdict EXCEPT ![s] = "done"]
            /\ pc' = [pc EXCEPT ![s] = "record"]
       ELSE /\ pc' = [pc EXCEPT ![s] = "ready"]
            /\ UNCHANGED verdict
    /\ UNCHANGED attempt

\* No POST is made: no token, unknown contract, market closed, a quantity
\* guard, or the rate limiter's bucket stayed empty.
Refuse(s) ==
    /\ up
    /\ pc[s] = "ready"
    /\ Fail(s) \/ Retry(s)
    /\ UNCHANGED <<up, paused, crashes, asPaper, placed, owner, unfinished, store, broker>>

\* A paper dispatch fills all slices at once, inside the gateway.
PaperFill(s) ==
    /\ up
    /\ pc[s] = "ready"
    /\ s \in asPaper
    /\ verdict' = [verdict EXCEPT ![s] = "paper_done"]
    /\ pc' = [pc EXCEPT ![s] = "record"]
    /\ UNCHANGED <<up, paused, crashes, asPaper, attempt, placed, owner,
                   unfinished, store, broker>>

\* The request for the next slice leaves the gateway.
Post(s) ==
    /\ up
    /\ pc[s] = "ready"
    /\ s \notin asPaper
    /\ order' = [order EXCEPT ![s][placed[s] + 1] = "flying"]
    /\ pc' = [pc EXCEPT ![s] = "awaiting"]
    /\ UNCHANGED <<up, paused, crashes, memory, owner, unfinished, store, booked>>

\* Mutation of PostFails: a timeout is retried like an expired session.
PostFailsRetries(s) ==
    /\ up
    /\ pc[s] = "awaiting"
    /\ Fail(s) \/ Retry(s)
    /\ UNCHANGED <<up, paused, crashes, asPaper, placed, owner, unfinished, store, broker>>

\* Timeout or dropped connection: the fate of the request is unknown, and it
\* is never repeated.
PostFails(s) ==
    /\ up
    /\ pc[s] = "awaiting"
    /\ Fail(s)
    /\ UNCHANGED <<up, paused, crashes, asPaper, placed, owner, unfinished, store, broker>>

\* An error reply. If it speaks of the token or session, one retry follows.
PostDenied(s) ==
    /\ up
    /\ pc[s] = "awaiting"
    /\ order[s][placed[s] + 1] = "denied"
    /\ Fail(s) \/ Retry(s)
    /\ UNCHANGED <<up, paused, crashes, asPaper, placed, owner, unfinished, store, broker>>

\* Is the slice taken as accepted, or as refused by risk management? The
\* answer comes from a report with its reference, if one is seen in time;
\* unseen means accepted.
Verify(s) ==
    \/ Advance(s)
    \/ /\ Reports(s, placed[s] + 1) \cap {"rejected", "cancelled"} # {}
       /\ Fail(s)
       /\ UNCHANGED placed

\* A success reply, then verify_order_rms_acceptance.
PostAccepted(s) ==
    /\ up
    /\ pc[s] = "awaiting"
    /\ IsBooked(s, placed[s] + 1)
    /\ Verify(s)
    /\ UNCHANGED <<up, paused, crashes, asPaper, owner, unfinished, store, broker>>

\* Mutation of PostGarbled: a reply that is not JSON is taken for a success.
PostGarbledTrusts(s) ==
    /\ up
    /\ pc[s] = "awaiting"
    /\ Verify(s)
    /\ UNCHANGED <<up, paused, crashes, asPaper, owner, unfinished, store, broker>>

\* The reply is not JSON: the order book decides whether it counts as success.
PostGarbled(s) ==
    /\ up
    /\ pc[s] = "awaiting"
    /\ \/ /\ Reports(s, placed[s] + 1) \cap {"live", "filled"} # {}
          /\ Verify(s)
       \/ /\ Fail(s)
          /\ UNCHANGED placed
    /\ UNCHANGED <<up, paused, crashes, asPaper, owner, unfinished, store, broker>>

\* The status is written; what is left to do needs none of the locals.
Record(s) ==
    /\ up
    /\ pc[s] = "record"
    /\ row' = [row EXCEPT ![s] = verdict[s]]
    /\ pc' = [pc EXCEPT ![s] = "notify"]
    /\ asPaper' = asPaper \ {s}
    /\ attempt' = [attempt EXCEPT ![s] = 1]
    /\ placed' = [placed EXCEPT ![s] = 0]
    /\ verdict' = [verdict EXCEPT ![s] = "none"]
    /\ UNCHANGED <<up, paused, crashes, owner, unfinished, shield, broker>>

\* The thread ends: the symbol lock is released on leaving its block.
Leaves(s) ==
    /\ pc' = [pc EXCEPT ![s] = "over"]
    /\ owner' = [owner EXCEPT ![SymbolOf[s]] = Nobody]
    /\ UNCHANGED <<up, paused, crashes, memory, unfinished, shield, broker>>

\* send_execution_notification has started its thread, or has nobody to tell.
Notified(s) ==
    /\ up
    /\ pc[s] = "notify"
    /\ Leaves(s)
    /\ UNCHANGED row

\* It raises, because the broker's "result" is no dictionary or no thread can
\* be started: the handler of the exception writes over the status just
\* written, if the row is still there. What it does next can only raise again.
NotifyRaises(s) ==
    /\ up
    /\ pc[s] = "notify"
    /\ Leaves(s)
    /\ row' = [row EXCEPT ![s] = IF @ = "pruned" THEN "pruned" ELSE "failed"]

----------------------------------------------------------------------------
(* The network and the broker *)

\* The broker books the request; its risk check comes later.
BrokerBooks(s, k) ==
    /\ order[s][k] = "flying"
    /\ order' = [order EXCEPT ![s][k] = "pendingnew"]
    /\ booked' = [booked EXCEPT ![s][k] = @ + 1]
    /\ UNCHANGED <<up, paused, crashes, pc, memory, owner, unfinished, store>>

\* The broker answers with an error, or the network drops the request.
RequestDies(s, k) ==
    /\ order[s][k] = "flying"
    /\ \E fate \in {"denied", "lost"} : order' = [order EXCEPT ![s][k] = fate]
    /\ UNCHANGED <<up, paused, crashes, pc, memory, owner, unfinished, store, booked>>

\* A booked order moves on; an order is cancelled by the exchange, an
\* operator, or _monitor_and_clean_partial_fills two seconds after it was
\* accepted.
Moves(st) ==
    CASE st = "pendingnew" -> {"live", "rejected", "cancelled"} \cup
                              (IF OddStatus THEN {"odd"} ELSE {})
      [] st = "live"       -> {"filled", "cancelled"}
      [] st = "odd"        -> {"live"}
      [] OTHER             -> {}

OrderMoves(s, k) ==
    /\ \E st \in Moves(order[s][k]) : order' = [order EXCEPT ![s][k] = st]
    /\ UNCHANGED <<up, paused, crashes, pc, memory, owner, unfinished, store, booked>>

----------------------------------------------------------------------------
(* Crash, restart and recovery *)

\* The container stops: every handler, thread, lock and queue is gone.
Crash ==
    /\ up
    /\ crashes < MaxCrashes
    /\ up' = FALSE
    /\ crashes' = crashes + 1
    /\ pc' = [s \in Signal |-> IF pc[s] = "idle" THEN "idle" ELSE "over"]
    /\ asPaper' = {}
    /\ attempt' = Fresh(1)
    /\ placed' = Fresh(0)
    /\ verdict' = Fresh("none")
    /\ owner' = NoOwners
    /\ unfinished' = {}
    /\ UNCHANGED <<paused, store, broker>>

\* Mutation of Boot: only the rows that never began are fetched.
BootPendingOnly ==
    /\ ~up
    /\ up' = TRUE
    /\ paused' = FALSE
    /\ unfinished' = {s \in Signal : row[s] = "pending"}
    /\ UNCHANGED <<crashes, pc, memory, owner, store, broker>>

\* Docker restarts it. lifespan fetches the unfinished rows before the first
\* request is served; TRADING_PAUSED starts as FALSE.
Boot ==
    /\ ~up
    /\ up' = TRUE
    /\ paused' = FALSE
    /\ unfinished' = {s \in Signal : row[s] \in Unfinished}
    /\ UNCHANGED <<crashes, pc, memory, owner, store, broker>>

\* What check_order_status_by_ref may answer for the base reference of s:
\* only the first slice carries it. A reply other than HTTP 200 counts as
\* NOT_FOUND.
BrokerAnswers(s) == Reports(s, 1) \cup {"NOT_FOUND", "NETWORK_ERROR"}

\* Mutation of RecoveredRow: an order missing from the reports is replayed
\* though its row says it was sent.
RecoveredRowReplays(s, answer) ==
    CASE answer \in {"pendingnew", "live", "filled"}   -> "done"
      [] answer \in {"rejected", "cancelled"}          -> "failed"
      [] answer = "NETWORK_ERROR"                      -> "failed"
      [] OTHER                                         -> row[s]

RecoveredRow(s, answer) ==
    CASE answer \in {"pendingnew", "live", "filled"}   -> "done"
      [] answer \in {"rejected", "cancelled"}          -> "failed"
      [] answer = "NETWORK_ERROR"                      -> "failed"
      [] answer = "NOT_FOUND" /\ row[s] = "processing" -> "abandoned_manual_review_needed"
      [] OTHER                                         -> row[s]

\* Mutation of Recover: the row is closed and the signal queued all the same,
\* as without the continue statements.
RecoverFallsThrough(s) ==
    /\ up
    /\ s \in unfinished
    /\ unfinished' = unfinished \ {s}
    /\ \E answer \in BrokerAnswers(s) :
          row' = [row EXCEPT ![s] = RecoveredRow(s, answer)]
    /\ pc' = [pc EXCEPT ![s] = "queued"]
    /\ asPaper' = asPaper \ {s}
    /\ UNCHANGED <<up, paused, crashes, attempt, placed, verdict, owner, shield, broker>>

\* process_recovery, one row: close it from the broker's answer, or queue the
\* signal again. The executor's job carries no is_paper argument.
Recover(s) ==
    /\ up
    /\ s \in unfinished
    /\ unfinished' = unfinished \ {s}
    /\ \E answer \in BrokerAnswers(s) :
          /\ row' = [row EXCEPT ![s] = RecoveredRow(s, answer)]
          /\ IF row'[s] \in Unfinished
             THEN /\ pc' = [pc EXCEPT ![s] = "queued"]
                  /\ asPaper' = asPaper \ {s}
             ELSE UNCHANGED <<pc, asPaper>>
    /\ UNCHANGED <<up, paused, crashes, attempt, placed, verdict, owner, shield, broker>>

\* A row that is still pending and older than the stale window is given up.
RecoverStale(s) ==
    /\ up
    /\ s \in unfinished
    /\ row[s] = "pending"
    /\ unfinished' = unfinished \ {s}
    /\ row' = [row EXCEPT ![s] = "abandoned_stale"]
    /\ UNCHANGED <<up, paused, crashes, pc, memory, owner, shield, broker>>

\* db_prune_old, at boot and every six hours: a week after its last update a
\* row is deleted, unless it is unfinished.
Prune(s) ==
    /\ up
    /\ row[s] \in Final
    /\ row' = [row EXCEPT ![s] = "pruned"]
    /\ UNCHANGED <<up, paused, crashes, pc, memory, owner, unfinished, shield, broker>>

----------------------------------------------------------------------------
\* The steps of the thread that works on s.
Work(s) ==
    \/ Dismiss(s) \/ Screen(s) \/ Stage(s)
    \/ Begin(s) \/ Acquire(s) \/ Refuse(s) \/ PaperFill(s) \/ Post(s)
    \/ PostFails(s) \/ PostDenied(s) \/ PostAccepted(s) \/ PostGarbled(s)
    \/ Record(s) \/ Notified(s) \/ NotifyRaises(s)

Recovery(s) == Recover(s) \/ RecoverStale(s)

Arrive(s) == Receive(s) \/ EngineStage(s)

Outside(s) == \E k \in Slice : BrokerBooks(s, k) \/ RequestDies(s, k) \/ OrderMoves(s, k)

Next ==
    \/ \E s \in Signal : Arrive(s) \/ Work(s) \/ Recovery(s) \/ Outside(s) \/ Prune(s)
    \/ \E h \in Hash : ShieldExpires(h)
    \/ Pause \/ Resume \/ Crash \/ Boot

Spec == Init /\ [][Next]_vars

\* Threads run, recovery runs, and Docker restarts the container. Nothing is
\* asked of the broker: a POST that is never answered times out.
Fairness ==
    /\ WF_vars(Boot)
    /\ \A s \in Signal : WF_vars(Work(s)) /\ WF_vars(Recovery(s))

FairSpec == Spec /\ Fairness

----------------------------------------------------------------------------
(* Properties *)

TypeOK ==
    /\ up \in BOOLEAN
    /\ paused \in BOOLEAN
    /\ crashes \in 0..MaxCrashes
    /\ pc \in [Signal -> Phase]
    /\ asPaper \subseteq Signal
    /\ attempt \in [Signal -> {1, 2}]
    /\ placed \in [Signal -> Nat]
    /\ verdict \in [Signal -> {"none"} \cup Final]
    /\ owner \in [Symbol -> Signal \cup {Nobody}]
    /\ unfinished \subseteq Signal
    /\ row \in [Signal -> RowStatus]
    /\ shield \subseteq Hash
    /\ order \in [Signal -> [Slice -> OrderStatus]]
    /\ booked \in [Signal -> [Slice -> Nat]]

\* At most one order. However often a signal is retried after an
\* authentication error, and however often the gateway crashes and recovers
\* it, the broker never books two orders for the same slice of it
\* (execute_trade_with_retry, process_recovery).
OneOrderPerSlice == \A s \in Signal : \A k \in Slice : booked[s][k] <= 1

\* No two signals were given the same order_ref.
UniqueRef(s) == \A t \in Signal : RefOf[t] = RefOf[s] => t = s

\* A signal recorded as done has an order at the broker, whether its own
\* thread recorded it or recovery did, if its order_ref is its own.
DoneIsBooked ==
    \A s \in Signal : row[s] = "done" /\ UniqueRef(s) => IsBooked(s, 1)

\* Between the threads of handlers, engines and recovery, one symbol sees one
\* order exchange at a time: a request is only awaited under the lock.
OneExchangePerSymbol ==
    \A s, t \in Signal :
        /\ pc[s] \in {"ready", "awaiting"}
        /\ pc[t] \in {"ready", "awaiting"}
        /\ SymbolOf[s] = SymbolOf[t]
        => s = t

\* The verdict is the end of it. Once a final status is written no request for
\* the signal leaves the gateway, not even after a restart, and nobody revises
\* it but the thread that wrote it: while that thread still has the symbol
\* lock, the handler of its exceptions may turn it into "failed".
VerdictIsFinal ==
    [][\A s \in Signal :
          row[s] \in Final =>
             /\ ~Post(s)
             /\ row'[s] \in {row[s], "pruned"}
                \/ /\ row'[s] = "failed" /\ pc[s] = "notify"
                   /\ owner[SymbolOf[s]] = s]_vars

\* Every staged signal is eventually given a final status, across crashes,
\* lock contention and unanswered requests.
Settles == \A s \in Signal : row[s] \in Unfinished ~> row[s] \notin Unfinished

\* audit_plan.md: a slice that fails or times out makes the signal a
\* partial_failure. So a signal is done only if every slice was booked.
DoneMeansEverySlice ==
    \A s \in Signal : row[s] = "done" => \A k \in 1..SlicesOf[s] : IsBooked(s, k)

\* audit_plan.md: such a signal is recorded as partial_failure, with the
\* quantity that was dispatched.
PartialIsRecorded ==
    [][\A s \in Signal :
          Record(s) /\ placed[s] \in 1..(SlicesOf[s] - 1)
          => row'[s] = "partial_failure"]_vars

\* A strategy in PAPER mode is a simulation: no order of it is sent out.
PaperStaysPaper ==
    \A s \in InPaper : \A k \in Slice : order[s][k] = "unsent"

\* TRADING_PAUSED strictly prevents any order execution.
PausedMeansNoPost == [][\A s \in Signal : Post(s) => ~paused]_vars

\* A row is closed as done on the strength of its own order.
DoneMeansOwnOrder == \A s \in Signal : row[s] = "done" => IsBooked(s, 1)

----------------------------------------------------------------------------
(* SignalPipeline implements SignalLedger *)

LifeOf(s) ==
    CASE row[s] = "none"         -> "new"
      [] row[s] \in Unfinished   -> "open"
      [] row[s] = "done"         -> "done"
      [] OTHER                   -> "closed"

Ledger == INSTANCE SignalLedger WITH
    life   <- [s \in Signal |-> LifeOf(s)],
    issued <- [s \in Signal |-> {k \in Slice : order[s][k] # "unsent"}],
    orders <- booked

\* Implementation of the promise: every behaviour of the pipeline is, under
\* this mapping, one that SignalLedger allows.
ImplementsLedger == Ledger!Spec
=============================================================================
