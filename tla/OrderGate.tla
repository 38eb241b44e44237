----------------------------- MODULE OrderGate -----------------------------
(***************************************************************************)
(* What stands between a decision to trade and the broker's order desk,    *)
(* client/xts_api.py: ORDER_RATE_LIMITER, one token bucket for every       *)
(* thread that places, squares off or cancels, and the slices an order is  *)
(* cut into (slice_quantity_for_freeze), each of which asks the bucket.    *)
(*                                                                         *)
(* The bucket is kept in units of time: a permit costs Grain, one unit     *)
(* flows in as the clock moves by one, and Capacity is the most it holds   *)
(* (in the code a permit is 1.0, the rate 8 a second and the capacity 8).  *)
(* time.time() is the wall clock, which may be set back.                   *)
(***************************************************************************)
EXTENDS Integers, Sequences

CONSTANTS
    Thread,
    Kind,         \* what each does: "place", "single", "panic", "cancel" or "clean"
    Quantity,     \* units it has to trade
    Open,         \* orders it has to cancel
    Freeze,       \* freeze limit of the contract, 0 when there is none
    Lot,          \* its lot size
    Capacity,     \* the most the bucket holds
    Grain,        \* what a permit costs
    Patience,     \* timeout of acquire for a slice
    Hurry,        \* timeout of acquire for a cancellation
    MaxStart,     \* bound: when the last thread starts
    MaxTime,      \* bound: the clock
    MaxSetbacks,  \* bound: times the clock is set back
    MaxStalls,    \* bound: ticks that pass over a thread that could go on
    MaxFaults     \* bound: replies other than an acceptance

Trading == {"place", "single", "panic"}
Sweeping == {"panic", "cancel"}

ASSUME GateAssumption ==
    /\ Kind \in [Thread -> Trading \union Sweeping \union {"clean"}]
    /\ Quantity \in [Thread -> Nat] /\ Open \in [Thread -> Nat]
    /\ Freeze \in Nat /\ Lot \in Nat \ {0}
    /\ Grain \in Nat \ {0} /\ Capacity \in Nat /\ Capacity >= Grain
    /\ Patience \in Nat /\ Hurry \in Nat
    /\ MaxStart \in Nat /\ MaxTime \in Nat /\ MaxSetbacks \in Nat
    /\ MaxStalls \in Nat /\ MaxFaults \in Nat

VARIABLES
    now,       \* time.time()
    setbacks,  \* times it was set back
    stalls,    \* ticks over a thread that could go on
    level,     \* tokens
    last,      \* last_update
    spent,     \* what all permits so far have cost
    log,       \* per permit: when it was given and what was spent before
    pc,        \* per thread: where it is
    since,     \* start_time of its acquire, 0 when there is none
    open,      \* orders it has still to cancel
    left,      \* units it has still to deal with
    sent,      \* units it counts as dispatched or closed
    lost,      \* units it counts as not
    booked,    \* units of it the broker has taken
    posts,     \* requests to the order desk
    faults

bucket == <<level, last, spent, log>>
work   == <<open, left, sent, lost>>
desk   == <<booked, posts, faults>>
clock  == <<now, setbacks, stalls>>
vars   == <<clock, bucket, pc, since, work, desk>>

None == [t \in Thread |-> 0]

Init ==
    /\ now = 0 /\ setbacks = 0 /\ stalls = 0
    /\ level = Capacity /\ last = 0 /\ spent = 0 /\ log = <<>>
    /\ pc = [t \in Thread |-> "idle"] /\ since = None
    /\ open = Open /\ left = Quantity /\ sent = None /\ lost = None
    /\ booked = None /\ posts = 0 /\ faults = 0

Lesser(m, n) == IF m < n THEN m ELSE n
Greater(m, n) == IF m > n THEN m ELSE n

-----------------------------------------------------------------------------
(* Slices *)

\* Mutation: the limit is not rounded down to whole lots.
SliceLimitRaw == Greater(Lot, Freeze)

\* The largest slice of whole lots under the freeze limit, and one lot at least.
SliceLimit == Greater(Lot, (Freeze \div Lot) * Lot)
Sliced(q) == Freeze > 0 /\ q > Freeze
Slice(q, rest) == IF Sliced(q) THEN Lesser(rest, SliceLimit) ELSE rest

Chunk(t) == Slice(Quantity[t], left[t])

-----------------------------------------------------------------------------
(* acquire *)

Waiting(t) == pc[t] \in {"sweep", "cancel", "wait"}
Timeout(t) == IF pc[t] = "wait" \/ Kind[t] = "clean" THEN Patience ELSE Hurry

\* What t does next is to wait for a permit.
Asks(t, to) == /\ pc' = [pc EXCEPT ![t] = to]
               /\ since' = [since EXCEPT ![t] = now]
Ends(t) == /\ pc' = [pc EXCEPT ![t] = "done"]
           /\ since' = [since EXCEPT ![t] = 0]

\* Mutation: the capacity is forgotten.
RefilledUncapped == level + (now - last)

\* Mutation: whole permits only, the fraction is lost with every look.
RefilledTruncated == Lesser(Capacity, level + ((now - last) \div Grain) * Grain)

Refilled == Lesser(Capacity, level + (now - last))
TooLate(t) == (now - since[t]) + (Grain - Refilled) > Timeout(t)

\* One turn of its loop, under the bucket's lock, ends in one of three ways.
Permitted(t) ==
    /\ Waiting(t) /\ Refilled >= Grain
    /\ level' = Refilled - Grain /\ last' = now /\ spent' = spent + Grain
    /\ log' = Append(log, [at |-> now, before |-> spent])

Looked(t) ==
    /\ Waiting(t) /\ Refilled < Grain
    /\ level' = Refilled /\ last' = now
    /\ UNCHANGED <<clock, spent, log, desk>>

Sleeps(t) == Looked(t) /\ ~TooLate(t) /\ UNCHANGED <<pc, since, work>>
Denied(t) == Looked(t) /\ TooLate(t)

-----------------------------------------------------------------------------
(* A thread's business *)

\* An order of nothing has no slices. The remainder of an order that was accepted is
\* cancelled after a while.
Starts(t) ==
    /\ pc[t] = "idle" /\ now <= MaxStart
    /\ Kind[t] \in {"place", "single"} => left[t] > 0
    /\ Kind[t] = "clean" => \E u \in Thread : Kind[u] = "place" /\ sent[u] > 0
    /\ Asks(t, IF Kind[t] \in Sweeping THEN "sweep" ELSE IF Kind[t] = "clean" THEN "cancel" ELSE "wait")
    /\ UNCHANGED <<clock, bucket, work, desk>>

\* A panic goes on to the positions when the orders are dealt with.
Turns(t) == IF left[t] > 0 THEN Asks(t, "wait") ELSE Ends(t)

\* One order after the other is cancelled.
Cancels(t, rest) ==
    /\ open' = [open EXCEPT ![t] = rest]
    /\ IF rest > 0 THEN Asks(t, "cancel") ELSE Turns(t)
    /\ UNCHANGED <<left, sent, lost>>

\* Mutation: the loop runs while rem >= 0.
GoesOnTooFar(t, units, count) ==
    /\ left' = [left EXCEPT ![t] = @ - units]
    /\ count' = [count EXCEPT ![t] = @ + units]
    /\ IF left[t] >= units THEN Asks(t, "wait") ELSE Ends(t)
    /\ UNCHANGED open

\* The next slice asks for a permit of its own, with a timeout of its own.
GoesOn(t, units, count) ==
    /\ left' = [left EXCEPT ![t] = @ - units]
    /\ count' = [count EXCEPT ![t] = @ + units]
    /\ IF left[t] > units THEN Asks(t, "wait") ELSE Ends(t)
    /\ UNCHANGED open

\* Mutation: the slice is skipped and not counted as failed.
FailsSilently(t) ==
    /\ left' = [left EXCEPT ![t] = @ - Chunk(t)]
    /\ IF left[t] > Chunk(t) THEN Asks(t, "wait") ELSE Ends(t)
    /\ UNCHANGED <<open, sent, lost>>

\* An order gives up its rest with the slice that fails, a square-off only the slice.
Fails(t) == GoesOn(t, IF Kind[t] = "place" THEN left[t] ELSE Chunk(t), lost) /\ UNCHANGED sent

Sent(p) == CASE p = "sweep" -> "swept" [] p = "cancel" -> "cancelled" [] p = "wait" -> "post"

Gets(t) ==
    /\ Permitted(t)
    /\ pc' = [pc EXCEPT ![t] = Sent(pc[t])]
    /\ since' = [since EXCEPT ![t] = 0]
    /\ UNCHANGED <<clock, work, desk>>

\* What gets no permit in time is skipped, and the guard of a partial fill returns.
GivesUp(t) ==
    /\ Denied(t)
    /\ \/ pc[t] = "sweep" /\ Cancels(t, open[t])
       \/ pc[t] = "cancel" /\ Cancels(t, IF Kind[t] = "clean" THEN 0 ELSE open[t] - 1)
       \/ pc[t] = "wait" /\ Fails(t)

-----------------------------------------------------------------------------
(* What the broker answers *)

Answered == posts' = posts + 1 /\ UNCHANGED <<clock, bucket>>
Faulty == faults < MaxFaults /\ faults' = faults + 1
Posted(t) == pc[t] \in {"post", "post again"}
Books(t) == booked' = [booked EXCEPT ![t] = @ + Chunk(t)]

Accepted(t) ==
    /\ Posted(t) /\ Answered
    /\ GoesOn(t, Chunk(t), sent) /\ Books(t) /\ UNCHANGED <<lost, faults>>

\* The broker refuses it, or no answer comes, whether or not it has taken the order.
Refused(t) ==
    /\ Posted(t) /\ Answered /\ Faulty
    /\ Fails(t) /\ (Books(t) \/ UNCHANGED booked)

\* The panic's token is refused: it logs in and posts once more.
LogsIn(t) ==
    /\ Kind[t] = "panic" /\ pc[t] = "post" /\ Answered /\ Faulty
    /\ pc' = [pc EXCEPT ![t] = "post again"] /\ UNCHANGED <<since, work, booked>>

\* One request cancels every order (or its connection is lost, which ends a panic's
\* sweep as well); refused, they are cancelled one by one.
Swept(t) ==
    /\ pc[t] = "swept" /\ Answered /\ UNCHANGED booked
    /\ \/ Cancels(t, 0) /\ UNCHANGED faults
       \/ Cancels(t, open[t]) /\ Faulty

\* Whatever the answer the next one follows; a lost connection ends the sweep.
Cancelled(t) ==
    /\ pc[t] = "cancelled" /\ Answered /\ UNCHANGED booked
    /\ \/ Cancels(t, open[t] - 1) /\ UNCHANGED faults
       \/ Cancels(t, 0) /\ Faulty

-----------------------------------------------------------------------------
(* The clock *)

\* A thread sleeps for less than a permit takes, and a request has its own timeout.
Ready(t) == \/ pc[t] \in {"swept", "cancelled", "post", "post again"}
            \/ Waiting(t) /\ (Refilled >= Grain \/ TooLate(t))

Tick ==
    /\ now < MaxTime /\ now' = now + 1
    /\ IF \E t \in Thread : Ready(t) THEN stalls < MaxStalls /\ stalls' = stalls + 1
       ELSE UNCHANGED stalls
    /\ UNCHANGED <<setbacks, bucket, pc, since, work, desk>>

SetBack ==
    /\ setbacks < MaxSetbacks /\ setbacks' = setbacks + 1
    /\ \E n \in 0 .. now - 1 : now' = n
    /\ UNCHANGED <<stalls, bucket, pc, since, work, desk>>

-----------------------------------------------------------------------------
Acts(t) ==
    \/ Starts(t) \/ Gets(t) \/ Sleeps(t) \/ GivesUp(t)
    \/ Accepted(t) \/ Refused(t) \/ LogsIn(t) \/ Swept(t) \/ Cancelled(t)

Next == Tick \/ SetBack \/ \E t \in Thread : Acts(t)

Spec == Init /\ [][Next]_vars

\* Time passes, threads run, and requests are answered or time out.
Proceeds(t) == Gets(t) \/ GivesUp(t) \/ Accepted(t) \/ Swept(t) \/ Cancelled(t)
FairSpec == Spec /\ WF_vars(Tick) /\ \A t \in Thread : WF_vars(Proceeds(t))

-----------------------------------------------------------------------------
(* Properties *)

TypeOK ==
    /\ now \in 0 .. MaxTime /\ setbacks \in 0 .. MaxSetbacks /\ stalls \in 0 .. MaxStalls
    /\ level \in Int /\ level <= Capacity /\ last \in 0 .. MaxTime
    /\ spent \in Nat /\ log \in Seq([at : 0 .. MaxTime, before : Nat])
    /\ pc \in [Thread -> {"idle", "sweep", "swept", "cancel", "cancelled",
                          "wait", "post", "post again", "done"}]
    /\ since \in [Thread -> 0 .. MaxTime]
    /\ open \in [Thread -> Int] /\ left \in [Thread -> Nat]
    /\ sent \in [Thread -> Nat] /\ lost \in [Thread -> Nat]
    /\ booked \in [Thread -> Nat] /\ posts \in Nat /\ faults \in 0 .. MaxFaults

\* From any permit to any later one, those two and all between them cost no more than
\* the bucket holds and what flowed in meanwhile, from however many threads and
\* whether or not the clock was set back.
WindowBound == \A j \in DOMAIN log : \A i \in 1 .. j :
    (log[j].before + Grain) - log[i].before <= Capacity + (log[j].at - log[i].at)

\* What a report counts as dispatched the broker has taken, the broker takes no more
\* than was asked, and a report without a failure is one of the whole quantity.
ReportsHold == \A t \in Thread :
    /\ sent[t] <= booked[t] /\ booked[t] <= Quantity[t]
    /\ pc[t] = "done" /\ lost[t] = 0 => booked[t] = Quantity[t]

\* What is sent at once keeps under the freeze limit, unless that is below one lot, and
\* an order of whole lots is sent in whole lots.
SlicesFit == \A t \in Thread : Posted(t) =>
    /\ 0 < Chunk(t) /\ Chunk(t) <= left[t]
    /\ Freeze >= Lot => Chunk(t) <= Freeze
    /\ Quantity[t] % Lot = 0 => Chunk(t) % Lot = 0

\* An acquire that gives up has waited all its timeout but the time of one permit,
\* and finds a bucket that gave one less than that ago; unless the clock was set back.
RefusedInEarnest == [][\A t \in Thread : setbacks = 0 /\ GivesUp(t) =>
    /\ now - since[t] > Timeout(t) - Grain
    /\ log # <<>> /\ now - log[Len(log)].at < Grain]_vars

\* Whoever has asked for a permit comes to an end: done, or skipped.
WorkEnds == \A t \in Thread : pc[t] # "idle" ~> pc[t] = "done"

-----------------------------------------------------------------------------
(* What the code does not keep *)

\* Every request to the order desk has a permit.
PostsArePaid == posts * Grain <= spent

\* Nothing is sent that is over the freeze limit.
UnderFreeze == \A t \in Thread : Posted(t) /\ Freeze > 0 => Chunk(t) <= Freeze

\* An acquire is only refused when permits were given.
NotRefusedIdle == [][\A t \in Thread : GivesUp(t) => now - since[t] > Timeout(t) - Grain]_vars
=============================================================================
