-------------------------- MODULE OrderGateProofs --------------------------
(***************************************************************************)
(* Theorems about OrderGate, for any number of threads, any quantities,    *)
(* limits, capacity, price of a permit and timeouts, and with the clock    *)
(* set back any number of times.                                           *)
(***************************************************************************)
EXTENDS OrderGate, TLAPS

Place == {"idle", "sweep", "swept", "cancel", "cancelled", "wait", "post", "post again", "done"}
Entry == [at : 0 .. MaxTime, before : Nat]

----------------------------------------------------------------------------
(* Slices and small steps *)

LEMMA Bounds ==
  /\ MaxTime \in Nat /\ Capacity \in Nat /\ Grain \in Nat /\ Grain > 0 /\ Grain <= Capacity
  /\ Patience \in Nat /\ Hurry \in Nat /\ MaxSetbacks \in Nat /\ MaxStalls \in Nat /\ MaxFaults \in Nat
  BY GateAssumption DEF GateAssumption

\* A slice is no more than what is left, and no less than nothing.
LEMMA SliceFits ==
  ASSUME NEW q, NEW rest \in Nat
  PROVE  Slice(q, rest) \in 0 .. rest
  <1>1. Lot \in Nat /\ (Freeze \div Lot) * Lot \in Int
    BY GateAssumption DEF GateAssumption
  <1>2. SliceLimit \in Nat
    BY <1>1 DEF SliceLimit, Greater
  <1> QED BY <1>2 DEF Slice, Lesser

LEMMA ChunkFits ==
  ASSUME TypeOK, NEW t \in Thread
  PROVE  Chunk(t) \in 0 .. left[t]
  BY SliceFits DEF Chunk, TypeOK

\* What asks or ends has its place and its start of time.
LEMMA AsksTypes ==
  ASSUME TypeOK, NEW t \in Thread, NEW to \in Place, Asks(t, to)
  PROVE  pc' \in [Thread -> Place] /\ since' \in [Thread -> 0 .. MaxTime]
  BY DEF Asks, TypeOK, Place

LEMMA EndsTypes ==
  ASSUME TypeOK, NEW t \in Thread, Ends(t)
  PROVE  pc' \in [Thread -> Place] /\ since' \in [Thread -> 0 .. MaxTime]
  <1>1. pc \in [Thread -> Place] /\ since \in [Thread -> 0 .. MaxTime]  BY DEF TypeOK, Place
  <1>2. 0 \in 0 .. MaxTime  BY Bounds
  <1>3. "done" \in Place  BY DEF Place
  <1> QED BY <1>1, <1>2, <1>3 DEF Ends

LEMMA CancelsTypes ==
  ASSUME TypeOK, NEW t \in Thread, NEW rest \in Int, Cancels(t, rest)
  PROVE  /\ pc' \in [Thread -> Place] /\ since' \in [Thread -> 0 .. MaxTime]
         /\ open' \in [Thread -> Int]
         /\ UNCHANGED <<left, sent, lost>>
  <1>1. open' \in [Thread -> Int]  BY DEF Cancels, TypeOK
  <1>2. Asks(t, "cancel") \/ Asks(t, "wait") \/ Ends(t)  BY DEF Cancels, Turns
  <1>3. pc' \in [Thread -> Place] /\ since' \in [Thread -> 0 .. MaxTime]
    BY <1>2, AsksTypes, EndsTypes DEF Place
  <1> QED BY <1>1, <1>3 DEF Cancels

LEMMA GoesOnTypes ==
  ASSUME TypeOK, NEW t \in Thread, NEW units \in 0 .. left[t], NEW count \in [Thread -> Nat],
         NEW after, after = [count EXCEPT ![t] = @ + units],
         left' = [left EXCEPT ![t] = @ - units],
         IF left[t] > units THEN Asks(t, "wait") ELSE Ends(t)
  PROVE  /\ pc' \in [Thread -> Place] /\ since' \in [Thread -> 0 .. MaxTime]
         /\ left' \in [Thread -> Nat] /\ after \in [Thread -> Nat]
  <1>1. pc' \in [Thread -> Place] /\ since' \in [Thread -> 0 .. MaxTime]
    BY AsksTypes, EndsTypes DEF Place
  <1>2. left[t] \in Nat /\ count[t] \in Nat  BY DEF TypeOK
  <1>3. left[t] - units \in Nat /\ count[t] + units \in Nat  BY <1>2
  <1> QED BY <1>1, <1>3 DEF TypeOK

\* A slice that fails, or the rest of an order with it.
LEMMA FailsTypes ==
  ASSUME TypeOK, NEW t \in Thread, Fails(t)
  PROVE  /\ pc' \in [Thread -> Place] /\ since' \in [Thread -> 0 .. MaxTime]
         /\ open' \in [Thread -> Int] /\ left' \in [Thread -> Nat]
         /\ sent' \in [Thread -> Nat] /\ lost' \in [Thread -> Nat]
  <1> DEFINE units == IF Kind[t] = "place" THEN left[t] ELSE Chunk(t)
  <1>a. left[t] \in Nat  BY DEF TypeOK
  <1>b. Chunk(t) \in 0 .. left[t]  BY ChunkFits
  <1>1. units \in 0 .. left[t]  BY <1>a, <1>b
  <1>2. GoesOn(t, units, lost)  BY DEF Fails
  <1> HIDE DEF units
  <1>3. lost \in [Thread -> Nat]  BY DEF TypeOK
  <1>4. /\ pc' \in [Thread -> Place] /\ since' \in [Thread -> 0 .. MaxTime]
        /\ left' \in [Thread -> Nat] /\ lost' \in [Thread -> Nat]
    BY <1>1, <1>2, <1>3, GoesOnTypes DEF GoesOn
  <1> QED BY <1>2, <1>4 DEF GoesOn, Fails, TypeOK

\* The bucket after a look at it.
LEMMA RefilledTypes ==
  ASSUME TypeOK
  PROVE  Refilled \in Int /\ Refilled <= Capacity
  <1>1. level \in Int /\ level <= Capacity /\ now \in 0 .. MaxTime /\ last \in 0 .. MaxTime
    BY DEF TypeOK
  <1> QED BY <1>1, Bounds DEF Refilled, Lesser

\* Where a step leaves the bucket.
LEMMA LooksTypes ==
  ASSUME TypeOK, level' = Refilled, last' = now
  PROVE  level' \in Int /\ level' <= Capacity /\ last' \in 0 .. MaxTime
  BY RefilledTypes DEF TypeOK

LEMMA PermittedTypes ==
  ASSUME TypeOK, NEW t \in Thread, Permitted(t)
  PROVE  /\ level' \in Int /\ level' <= Capacity /\ last' \in 0 .. MaxTime
         /\ spent' \in Nat /\ log' \in Seq(Entry)
  <1>1. Refilled \in Int /\ Refilled <= Capacity  BY RefilledTypes
  <1>2. now \in 0 .. MaxTime /\ spent \in Nat /\ log \in Seq(Entry)  BY DEF TypeOK, Entry
  <1>3. level' = Refilled - Grain /\ last' = now /\ spent' = spent + Grain  BY DEF Permitted
  <1>4. level' \in Int /\ level' <= Capacity /\ spent' \in Nat
    BY <1>1, <1>2, <1>3, Bounds
  <1>5. [at |-> now, before |-> spent] \in Entry  BY <1>2 DEF Entry
  <1>6. log' \in Seq(Entry)  BY <1>2, <1>5 DEF Permitted
  <1> QED BY <1>2, <1>3, <1>4, <1>6

LEMMA FaultyTypes ==
  ASSUME TypeOK, Faulty \/ UNCHANGED faults
  PROVE  faults' \in 0 .. MaxFaults
  <1>1. faults \in 0 .. MaxFaults  BY DEF TypeOK
  <1> QED BY <1>1, Bounds DEF Faulty

LEMMA AnsweredTypes ==
  ASSUME TypeOK, Answered
  PROVE  posts' \in Nat /\ UNCHANGED <<clock, bucket>>
  <1>1. posts \in Nat  BY DEF TypeOK
  <1> QED BY <1>1 DEF Answered

LEMMA BooksTypes ==
  ASSUME TypeOK, NEW t \in Thread, Books(t) \/ UNCHANGED booked
  PROVE  booked' \in [Thread -> Nat]
  <1>1. left[t] \in Nat /\ booked \in [Thread -> Nat]  BY DEF TypeOK
  <1>2. Chunk(t) \in Nat  BY <1>1, ChunkFits
  <1> QED BY <1>1, <1>2 DEF Books

----------------------------------------------------------------------------
(* Type correctness *)

Clocked == now \in 0 .. MaxTime /\ setbacks \in 0 .. MaxSetbacks /\ stalls \in 0 .. MaxStalls
Filled == /\ level \in Int /\ level <= Capacity /\ last \in 0 .. MaxTime
          /\ spent \in Nat /\ log \in Seq(Entry)
Placed == pc \in [Thread -> Place] /\ since \in [Thread -> 0 .. MaxTime]
Busy == /\ open \in [Thread -> Int] /\ left \in [Thread -> Nat]
        /\ sent \in [Thread -> Nat] /\ lost \in [Thread -> Nat]
Desk == booked \in [Thread -> Nat] /\ posts \in Nat /\ faults \in 0 .. MaxFaults

LEMMA TypesAre == TypeOK <=> Clocked /\ Filled /\ Placed /\ Busy /\ Desk
  BY DEF TypeOK, Clocked, Filled, Placed, Busy, Desk, Place, Entry

LEMMA TypesAreNext == TypeOK' <=> Clocked' /\ Filled' /\ Placed' /\ Busy' /\ Desk'
  BY DEF TypeOK, Clocked, Filled, Placed, Busy, Desk, Place, Entry

LEMMA Kept ==
  ASSUME TypeOK
  PROVE  /\ UNCHANGED clock => Clocked'
         /\ UNCHANGED bucket => Filled'
         /\ UNCHANGED <<pc, since>> => Placed'
         /\ UNCHANGED work => Busy'
         /\ UNCHANGED desk => Desk'
  BY TypesAre DEF Clocked, Filled, Placed, Busy, Desk, clock, bucket, work, desk

LEMMA InitTypes == Init => TypeOK
  <1> SUFFICES ASSUME Init PROVE TypeOK  OBVIOUS
  <1>1. Clocked  BY Bounds DEF Init, Clocked
  <1>2. Filled  BY Bounds DEF Init, Filled
  <1>3. Placed  BY Bounds DEF Init, Placed, Place, None
  <1>4. Open \in [Thread -> Nat] /\ Quantity \in [Thread -> Nat]
    BY GateAssumption DEF GateAssumption
  <1>5. Busy  BY <1>4 DEF Init, Busy, None
  <1>6. Desk  BY Bounds DEF Init, Desk, None
  <1> QED BY <1>1, <1>2, <1>3, <1>5, <1>6, TypesAre

LEMMA SleepsTypes == ASSUME TypeOK, NEW t \in Thread, Sleeps(t) PROVE TypeOK'
  <1>1. Filled'  BY TypesAre, LooksTypes DEF Sleeps, Looked, Filled
  <1>2. UNCHANGED <<clock, pc, since, work, desk>>  BY DEF Sleeps, Looked
  <1> QED BY <1>1, <1>2, Kept, TypesAreNext

LEMMA StartsTypes == ASSUME TypeOK, NEW t \in Thread, Starts(t) PROVE TypeOK'
  <1>1. PICK to \in Place : Asks(t, to)  BY DEF Starts, Place
  <1>2. Placed'  BY <1>1, AsksTypes DEF Placed
  <1> QED BY <1>2, Kept, TypesAreNext DEF Starts

LEMMA GetsTypes == ASSUME TypeOK, NEW t \in Thread, Gets(t) PROVE TypeOK'
  <1>1. Filled'  BY PermittedTypes DEF Gets, Filled
  <1>2. pc[t] \in {"sweep", "cancel", "wait"}  BY DEF Gets, Permitted, Waiting
  <1>3. Sent(pc[t]) \in Place  BY <1>2 DEF Sent, Place
  <1>4. Placed  BY TypesAre
  <1>5. 0 \in 0 .. MaxTime  BY Bounds
  <1>6. Placed'  BY <1>3, <1>4, <1>5 DEF Gets, Placed
  <1> QED BY <1>1, <1>6, Kept, TypesAreNext DEF Gets

LEMMA GivesUpTypes == ASSUME TypeOK, NEW t \in Thread, GivesUp(t) PROVE TypeOK'
  <1>1. Filled'  BY TypesAre, LooksTypes DEF GivesUp, Denied, Looked, Filled
  <1>2. UNCHANGED <<clock, desk>>  BY DEF GivesUp, Denied, Looked
  <1>3. Busy /\ open[t] \in Int /\ open[t] - 1 \in Int  BY TypesAre DEF Busy
  <1>4. Placed' /\ Busy'
    <2>1. ASSUME NEW rest \in Int, Cancels(t, rest)  PROVE Placed' /\ Busy'
      BY <1>3, <2>1, CancelsTypes DEF Placed, Busy
    <2>2. CASE Fails(t)
      BY <2>2, FailsTypes DEF Placed, Busy
    <2>3. (IF Kind[t] = "clean" THEN 0 ELSE open[t] - 1) \in Int  BY <1>3
    <2>4. Fails(t) \/ \E rest \in Int : Cancels(t, rest)  BY <1>3, <2>3 DEF GivesUp
    <2> QED BY <2>1, <2>2, <2>4
  <1> QED BY <1>1, <1>2, <1>4, Kept, TypesAreNext

LEMMA AcceptedTypes == ASSUME TypeOK, NEW t \in Thread, Accepted(t) PROVE TypeOK'
  <1>1. Busy  BY TypesAre
  <1>2. Chunk(t) \in 0 .. left[t] /\ sent \in [Thread -> Nat]  BY <1>1, ChunkFits DEF Busy
  <1>3. GoesOn(t, Chunk(t), sent) /\ UNCHANGED lost  BY DEF Accepted
  <1>4. Placed' /\ left' \in [Thread -> Nat] /\ sent' \in [Thread -> Nat]
    BY <1>2, <1>3, GoesOnTypes DEF GoesOn, Placed
  <1>5. Busy'  BY <1>1, <1>3, <1>4 DEF GoesOn, Busy
  <1>6. Desk'  BY AnsweredTypes, BooksTypes, FaultyTypes DEF Accepted, Desk
  <1>7. UNCHANGED <<clock, bucket>>  BY AnsweredTypes DEF Accepted
  <1> QED BY <1>4, <1>5, <1>6, <1>7, Kept, TypesAreNext

LEMMA RefusedTypes == ASSUME TypeOK, NEW t \in Thread, Refused(t) PROVE TypeOK'
  <1>1. Placed' /\ Busy'  BY FailsTypes DEF Refused, Placed, Busy
  <1>2. Desk'  BY AnsweredTypes, BooksTypes, FaultyTypes DEF Refused, Desk
  <1>3. UNCHANGED <<clock, bucket>>  BY AnsweredTypes DEF Refused
  <1> QED BY <1>1, <1>2, <1>3, Kept, TypesAreNext

LEMMA LogsInTypes == ASSUME TypeOK, NEW t \in Thread, LogsIn(t) PROVE TypeOK'
  <1>1. Placed'  BY TypesAre DEF LogsIn, Placed, Place
  <1>2. Desk'  BY AnsweredTypes, BooksTypes, FaultyTypes DEF LogsIn, Desk
  <1>3. UNCHANGED <<clock, bucket, work>>  BY AnsweredTypes DEF LogsIn
  <1> QED BY <1>1, <1>2, <1>3, Kept, TypesAreNext

LEMMA CancellingTypes ==
  ASSUME TypeOK, NEW t \in Thread, Swept(t) \/ Cancelled(t)
  PROVE  TypeOK'
  <1>1. Busy /\ open[t] \in Int /\ open[t] - 1 \in Int  BY TypesAre DEF Busy
  <1>2. \E rest \in Int : Cancels(t, rest)  BY <1>1 DEF Swept, Cancelled
  <1>3. Placed' /\ Busy'  BY <1>1, <1>2, CancelsTypes DEF Placed, Busy
  <1>4. Answered /\ UNCHANGED booked /\ (Faulty \/ UNCHANGED faults)  BY DEF Swept, Cancelled
  <1>5. Desk'  BY <1>4, AnsweredTypes, BooksTypes, FaultyTypes DEF Desk
  <1> QED BY <1>3, <1>4, <1>5, AnsweredTypes, Kept, TypesAreNext

LEMMA ClockTypes == ASSUME TypeOK, Tick \/ SetBack PROVE TypeOK'
  <1>1. Clocked  BY TypesAre
  <1>2. Clocked'  BY <1>1, Bounds DEF Tick, SetBack, Clocked
  <1> QED BY <1>2, Kept, TypesAreNext DEF Tick, SetBack

LEMMA NextTypes == TypeOK /\ [Next]_vars => TypeOK'
  <1> SUFFICES ASSUME TypeOK, [Next]_vars PROVE TypeOK'  OBVIOUS
  <1>1. CASE Tick \/ SetBack  BY <1>1, ClockTypes
  <1>2. ASSUME NEW t \in Thread, Acts(t) PROVE TypeOK'
    BY <1>2, StartsTypes, GetsTypes, SleepsTypes, GivesUpTypes, AcceptedTypes, RefusedTypes,
       LogsInTypes, CancellingTypes DEF Acts
  <1>3. CASE UNCHANGED vars  BY <1>3, Kept, TypesAreNext DEF vars
  <1> QED BY <1>1, <1>2, <1>3 DEF Next

\* Type correctness: the bucket never holds more than its capacity, and no thread
\* has less than nothing left to send.
THEOREM Types == Spec => []TypeOK
  BY InitTypes, NextTypes, PTL DEF Spec

----------------------------------------------------------------------------
(* The bucket over any window *)

\* What was spent since a permit and what is left now is no more than what the bucket
\* held then and what flowed in since: a step that spends takes from the level, and a
\* look adds to it no more than the clock has moved.
Balance(i) == (spent - log[i].before) + level <= Capacity + (last - log[i].at)
Balanced == \A i \in DOMAIN log : Balance(i)
FlowInv == Balanced /\ WindowBound

LEMMA LooksBalance ==
  ASSUME TypeOK, FlowInv, level' = Refilled, last' = now, UNCHANGED <<spent, log>>
  PROVE  FlowInv'
  <1>1. Refilled <= level + (now - last)
    BY Bounds, TypesAre DEF Refilled, Lesser, Filled, Clocked
  <1>2. ASSUME NEW i \in DOMAIN log PROVE Balance(i)'
    <2>1. log[i] \in Entry  BY TypesAre DEF Filled
    <2>2. level \in Int /\ last \in Int /\ now \in Int /\ spent \in Int /\ Refilled \in Int
      BY TypesAre, RefilledTypes DEF Filled, Clocked
    <2>3. Balance(i)  BY DEF FlowInv, Balanced
    <2> QED BY <1>1, <2>1, <2>2, <2>3, Bounds DEF Balance, Entry
  <1>3. Balanced'  BY <1>2 DEF Balanced
  <1>4. WindowBound'  BY DEF FlowInv, WindowBound
  <1> QED BY <1>3, <1>4 DEF FlowInv

LEMMA PermittedBalances ==
  ASSUME TypeOK, FlowInv, NEW t \in Thread, Permitted(t)
  PROVE  FlowInv'
  <1> DEFINE n == Len(log)
             e == [at |-> now, before |-> spent]
  <1>1. log \in Seq(Entry) /\ n \in Nat /\ DOMAIN log = 1 .. n  BY TypesAre DEF Filled
  <1>2. log' = Append(log, e) /\ DOMAIN log' = 1 .. n + 1 /\ log'[n + 1] = e
    BY <1>1 DEF Permitted
  <1>3. \A i \in 1 .. n : log'[i] = log[i]  BY <1>1, <1>2
  <1>4. /\ level \in Int /\ last \in Int /\ now \in Int /\ spent \in Int
        /\ Refilled \in Int /\ Refilled <= Capacity /\ Capacity \in Int /\ Grain \in Int
    BY TypesAre, RefilledTypes, Bounds DEF Filled, Clocked
  <1>5. Refilled <= level + (now - last)
    BY Bounds, <1>4 DEF Refilled, Lesser
  <1>6. level' = Refilled - Grain /\ last' = now /\ spent' = spent + Grain /\ Refilled >= Grain
    BY DEF Permitted
  <1>7. \A i \in 1 .. n : log[i].at \in Int /\ log[i].before \in Int
    <2>1. \A i \in 1 .. n : log[i] \in Entry  BY <1>1
    <2> QED BY <2>1, Bounds DEF Entry
  <1>8. \A i \in 1 .. n : (spent - log[i].before) + level <= Capacity + (last - log[i].at)
    BY <1>1 DEF FlowInv, Balanced, Balance
  <1>9. e.at = now /\ e.before = spent  OBVIOUS
  <1> HIDE DEF n, e
  <1>10. Balanced'
    <2> SUFFICES ASSUME NEW i \in 1 .. n + 1
                 PROVE  (spent' - log'[i].before) + level' <= Capacity + (last' - log'[i].at)
      BY <1>2 DEF Balanced, Balance
    <2>1. CASE i \in 1 .. n
      BY <2>1, <1>3, <1>4, <1>5, <1>6, <1>7, <1>8
    <2>2. CASE i = n + 1
      BY <2>2, <1>2, <1>4, <1>6, <1>9
    <2> QED BY <2>1, <2>2, <1>1
  <1>11. WindowBound'
    <2> SUFFICES ASSUME NEW j \in 1 .. n + 1, NEW i \in 1 .. j
                 PROVE  (log'[j].before + Grain) - log'[i].before <= Capacity + (log'[j].at - log'[i].at)
      BY <1>2 DEF WindowBound
    <2>1. CASE j \in 1 .. n
      <3>1. i \in 1 .. n  BY <2>1, <1>1
      <3>2. (log[j].before + Grain) - log[i].before <= Capacity + (log[j].at - log[i].at)
        BY <2>1, <1>1 DEF FlowInv, WindowBound
      <3> QED BY <2>1, <3>1, <3>2, <1>3
    <2>2. CASE j = n + 1 /\ i \in 1 .. n
      <3>1. log'[j] = e /\ log'[i] = log[i]  BY <2>2, <1>2, <1>3
      <3>2. (spent - log[i].before) + level <= Capacity + (last - log[i].at)  BY <2>2, <1>8
      <3>3. log[i].at \in Int /\ log[i].before \in Int  BY <2>2, <1>7
      <3>4. (spent + Grain) - log[i].before <= Capacity + (now - log[i].at)
        BY <3>2, <3>3, <1>4, <1>5, <1>6
      <3> QED BY <3>1, <3>4, <1>9
    <2>3. CASE j = n + 1 /\ i = n + 1
      BY <2>3, <1>2, <1>4, <1>9, Bounds
    <2> QED BY <2>1, <2>2, <2>3, <1>1
  <1> QED BY <1>10, <1>11 DEF FlowInv

LEMMA InitFlow == Init => FlowInv
  BY DEF Init, FlowInv, Balanced, WindowBound

LEMMA NextFlow == TypeOK /\ FlowInv /\ [Next]_vars => FlowInv'
  <1> SUFFICES ASSUME TypeOK, FlowInv, [Next]_vars PROVE FlowInv'  OBVIOUS
  <1>1. CASE UNCHANGED bucket
    BY <1>1 DEF bucket, FlowInv, Balanced, Balance, WindowBound
  <1>2. ASSUME NEW t \in Thread, Acts(t) PROVE FlowInv'
    <2>1. CASE Permitted(t)  BY <2>1, PermittedBalances
    <2>2. CASE Looked(t)  BY <2>2, LooksBalance DEF Looked
    <2>3. CASE UNCHANGED bucket  BY <2>3, <1>1
    <2> QED BY <1>2, <2>1, <2>2, <2>3
        DEF Acts, Starts, Gets, Sleeps, GivesUp, Denied, Accepted, Refused, LogsIn, Swept, Cancelled, Answered
  <1>3. CASE Tick \/ SetBack  BY <1>1, <1>3 DEF Tick, SetBack
  <1> QED BY <1>1, <1>2, <1>3 DEF Next, vars

\* From any permit to any later one the bucket gives no more than it holds and what
\* flows in meanwhile, from however many threads and however often the clock is set back.
THEOREM Window == Spec => []WindowBound
  <1>1. FlowInv => WindowBound  BY DEF FlowInv
  <1> QED BY <1>1, InitTypes, NextTypes, InitFlow, NextFlow, PTL DEF Spec

----------------------------------------------------------------------------
(* Who is refused *)

\* While the clock was never set back the bucket owes nothing, and since its last permit
\* it has filled with the clock; before the first it is full.
Filling ==
    /\ 0 <= level /\ last <= now
    /\ log = <<>> => level = Capacity
    /\ log # <<>> => level >= Lesser(Capacity, last - log[Len(log)].at)
DryInv == setbacks = 0 => Filling

LEMMA LastPermit ==
  ASSUME TypeOK, log # <<>>
  PROVE  log[Len(log)].at \in Int
  <1>1. log \in Seq(Entry)  BY TypesAre DEF Filled
  <1>2. Len(log) \in 1 .. Len(log)  BY <1>1
  <1>3. log[Len(log)] \in Entry  BY <1>1, <1>2
  <1> QED BY <1>3, Bounds DEF Entry

LEMMA LooksFill ==
  ASSUME TypeOK, Filling, level' = Refilled, last' = now, UNCHANGED <<now, log>>
  PROVE  Filling'
  <1>1. level \in Int /\ last \in Int /\ now \in Int /\ level <= Capacity
    BY TypesAre DEF Filled, Clocked
  <1>2. log = <<>> => level' = Capacity
    BY <1>1, Bounds DEF Filling, Refilled, Lesser
  <1>3. ASSUME log # <<>> PROVE level' >= Lesser(Capacity, now - log[Len(log)].at)
    BY <1>1, <1>3, LastPermit, Bounds DEF Filling, Refilled, Lesser
  <1>4. 0 <= level' /\ last' <= now'
    BY <1>1, Bounds DEF Filling, Refilled, Lesser
  <1> QED BY <1>2, <1>3, <1>4 DEF Filling

LEMMA PermittedFills ==
  ASSUME TypeOK, NEW t \in Thread, Permitted(t), UNCHANGED now
  PROVE  Filling'
  <1> DEFINE e == [at |-> now, before |-> spent]
  <1>1. now \in Int /\ Refilled \in Int  BY TypesAre, RefilledTypes DEF Clocked
  <1>2. level' = Refilled - Grain /\ last' = now /\ Refilled >= Grain /\ log' = Append(log, e)
    BY DEF Permitted
  <1>3. 0 <= level'  BY <1>1, <1>2, Bounds
  <1>4. log \in Seq(Entry)  BY TypesAre DEF Filled
  <1>5. log' # <<>> /\ log'[Len(log')] = e  BY <1>2, <1>4
  <1>6. Lesser(Capacity, now - now) = 0  BY <1>1, Bounds DEF Lesser
  <1> QED BY <1>1, <1>2, <1>3, <1>5, <1>6 DEF Filling

LEMMA InitDry == Init => DryInv
  BY Bounds DEF Init, DryInv, Filling

LEMMA NextDry == TypeOK /\ DryInv /\ [Next]_vars => DryInv'
  <1> SUFFICES ASSUME TypeOK, DryInv, [Next]_vars, setbacks' = 0 PROVE Filling'
    BY DEF DryInv
  <1>1. CASE UNCHANGED <<clock, bucket>>
    BY <1>1 DEF clock, bucket, DryInv, Filling
  <1>2. CASE Tick
    <2>1. now \in Int /\ last \in Int  BY TypesAre DEF Clocked, Filled
    <2> QED BY <1>2, <2>1 DEF Tick, bucket, DryInv, Filling
  <1>3. CASE SetBack
    BY <1>3, TypesAre DEF SetBack, Clocked
  <1>4. ASSUME NEW t \in Thread, Acts(t) PROVE Filling'
    <2>1. UNCHANGED clock
      BY <1>4 DEF Acts, Starts, Gets, Sleeps, GivesUp, Denied, Looked, Accepted, Refused, LogsIn,
                  Swept, Cancelled, Answered
    <2>2. Filling /\ UNCHANGED now  BY <2>1 DEF clock, DryInv
    <2>3. CASE Permitted(t)  BY <2>2, <2>3, PermittedFills
    <2>4. CASE Looked(t)  BY <2>2, <2>4, LooksFill DEF Looked
    <2>5. CASE UNCHANGED bucket  BY <2>1, <2>5, <1>1
    <2> QED BY <1>4, <2>3, <2>4, <2>5
        DEF Acts, Starts, Gets, Sleeps, GivesUp, Denied, Accepted, Refused, LogsIn, Swept, Cancelled, Answered
  <1> QED BY <1>1, <1>2, <1>3, <1>4 DEF Next, vars

LEMMA DeniedWaited ==
  ASSUME TypeOK, DryInv, setbacks = 0, NEW t \in Thread, Denied(t)
  PROVE  /\ now - since[t] > Timeout(t) - Grain
         /\ log # <<>> /\ now - log[Len(log)].at < Grain
  <1>1. Filling /\ Refilled < Grain /\ (now - since[t]) + (Grain - Refilled) > Timeout(t)
    BY DEF DryInv, Denied, Looked, TooLate
  <1>2. /\ level \in Int /\ last \in Int /\ now \in Int /\ Refilled \in Int
        /\ since[t] \in Int /\ Timeout(t) \in Int
    BY TypesAre, RefilledTypes, Bounds DEF Filled, Clocked, Placed, Timeout
  <1>3. 0 <= Refilled  BY <1>1, <1>2, Bounds DEF Filling, Refilled, Lesser
  <1>4. now - since[t] > Timeout(t) - Grain  BY <1>1, <1>2, <1>3, Bounds
  <1>5. log # <<>>
    BY <1>1, <1>2, Bounds DEF Filling, Refilled, Lesser
  <1>6. now - log[Len(log)].at < Grain
    BY <1>1, <1>2, <1>5, LastPermit, Bounds DEF Filling, Refilled, Lesser
  <1> QED BY <1>4, <1>5, <1>6

\* An acquire that gives up has waited all its timeout but the time of one permit, and
\* finds a bucket that gave one less than that ago, while the clock was never set back.
THEOREM Earnest == Spec => RefusedInEarnest
  <1>1. TypeOK /\ DryInv /\ [Next]_vars =>
          [\A t \in Thread : setbacks = 0 /\ GivesUp(t) =>
             /\ now - since[t] > Timeout(t) - Grain
             /\ log # <<>> /\ now - log[Len(log)].at < Grain]_vars
    BY DeniedWaited DEF GivesUp
  <1> QED BY <1>1, InitTypes, NextTypes, InitDry, NextDry, PTL DEF Spec, RefusedInEarnest

----------------------------------------------------------------------------
(* What is reported *)

\* Every unit is counted once, and what the broker has taken is among what was dealt with.
Account(t) ==
    /\ sent[t] + lost[t] + left[t] = Quantity[t]
    /\ sent[t] <= booked[t] /\ booked[t] <= sent[t] + lost[t]
    /\ pc[t] = "done" => left[t] = 0
Accounts == \A t \in Thread : Account(t)

LEMMA WorkNumbers ==
  ASSUME TypeOK, NEW t \in Thread
  PROVE  /\ left[t] \in Nat /\ sent[t] \in Nat /\ lost[t] \in Nat /\ booked[t] \in Nat
         /\ Quantity[t] \in Nat /\ Chunk(t) \in 0 .. left[t]
  <1>1. Quantity[t] \in Nat  BY GateAssumption DEF GateAssumption
  <1> QED BY <1>1, TypesAre, ChunkFits DEF Busy, Desk

\* The other threads' accounts are theirs.
LEMMA OthersKept ==
  ASSUME Accounts, NEW t \in Thread,
         \A u \in Thread \ {t} : /\ sent'[u] = sent[u] /\ lost'[u] = lost[u] /\ left'[u] = left[u]
                                 /\ booked'[u] = booked[u] /\ pc'[u] = pc[u],
         Account(t)'
  PROVE  Accounts'
  BY DEF Accounts, Account

\* c units of t are dealt with: s of them dispatched, l not, and b taken by the broker.
LEMMA Counted ==
  ASSUME TypeOK, Accounts, NEW t \in Thread, NEW c \in 0 .. left[t],
         NEW s \in Nat, NEW l \in Nat, NEW b \in Nat, s + l = c, s <= b, b <= c,
         left' = [left EXCEPT ![t] = @ - c], sent' = [sent EXCEPT ![t] = @ + s],
         lost' = [lost EXCEPT ![t] = @ + l], booked' = [booked EXCEPT ![t] = @ + b],
         IF left[t] > c THEN Asks(t, "wait") ELSE Ends(t)
  PROVE  Accounts'
  <1>1. /\ left \in [Thread -> Nat] /\ sent \in [Thread -> Nat] /\ lost \in [Thread -> Nat]
        /\ booked \in [Thread -> Nat] /\ pc \in [Thread -> Place]
    BY TypesAre DEF Busy, Desk, Placed
  <1>2. /\ left'[t] = left[t] - c /\ sent'[t] = sent[t] + s
        /\ lost'[t] = lost[t] + l /\ booked'[t] = booked[t] + b
    BY <1>1
  <1>3. pc'[t] = "done" => left'[t] = 0
    BY <1>1, <1>2 DEF Asks, Ends
  <1>4. Account(t)  BY DEF Accounts
  <1>n. /\ left[t] \in Nat /\ sent[t] \in Nat /\ lost[t] \in Nat /\ booked[t] \in Nat
        /\ Quantity[t] \in Nat /\ c \in Nat
    BY WorkNumbers
  <1>a. sent'[t] + lost'[t] + left'[t] = Quantity[t]
    BY <1>2, <1>4, <1>n DEF Account
  <1>b. sent'[t] <= booked'[t] /\ booked'[t] <= sent'[t] + lost'[t]
    BY <1>2, <1>4, <1>n DEF Account
  <1>5. Account(t)'
    BY <1>3, <1>a, <1>b DEF Account
  <1>6. \A u \in Thread \ {t} : /\ sent'[u] = sent[u] /\ lost'[u] = lost[u] /\ left'[u] = left[u]
                                /\ booked'[u] = booked[u] /\ pc'[u] = pc[u]
    BY <1>1 DEF Asks, Ends
  <1> QED BY <1>5, <1>6, OthersKept

LEMMA NothingMore ==
  ASSUME TypeOK
  PROVE  \A t \in Thread : /\ sent = [sent EXCEPT ![t] = @ + 0] /\ lost = [lost EXCEPT ![t] = @ + 0]
                           /\ booked = [booked EXCEPT ![t] = @ + 0]
  <1>1. /\ sent \in [Thread -> Nat] /\ lost \in [Thread -> Nat] /\ booked \in [Thread -> Nat]
    BY TypesAre DEF Busy, Desk
  <1> QED BY <1>1

LEMMA AcceptedCounts == ASSUME TypeOK, Accounts, NEW t \in Thread, Accepted(t) PROVE Accounts'
  <1>1. Chunk(t) \in 0 .. left[t] /\ Chunk(t) \in Nat  BY WorkNumbers
  <1>2. lost' = [lost EXCEPT ![t] = @ + 0]  BY NothingMore DEF Accepted
  <1> DEFINE c == Chunk(t)
  <1>3. c + 0 = c /\ c <= c /\ c \in 0 .. left[t] /\ c \in Nat /\ 0 \in Nat  BY <1>1
  <1>4. /\ left' = [left EXCEPT ![t] = @ - c] /\ sent' = [sent EXCEPT ![t] = @ + c]
        /\ booked' = [booked EXCEPT ![t] = @ + c]
        /\ IF left[t] > c THEN Asks(t, "wait") ELSE Ends(t)
    BY DEF Accepted, GoesOn, Books
  <1> HIDE DEF c
  <1> QED BY <1>2, <1>3, <1>4, Counted

LEMMA FailsCounts ==
  ASSUME TypeOK, Accounts, NEW t \in Thread, Fails(t), Books(t) \/ UNCHANGED booked
  PROVE  Accounts'
  <1> DEFINE units == IF Kind[t] = "place" THEN left[t] ELSE Chunk(t)
  <1>1. left[t] \in Nat /\ Chunk(t) \in 0 .. left[t]  BY WorkNumbers
  <1>2. units \in 0 .. left[t] /\ units \in Nat /\ 0 + units = units /\ Chunk(t) <= units
    BY <1>1
  <1>3. GoesOn(t, units, lost) /\ sent' = sent  BY DEF Fails
  <1> HIDE DEF units
  <1>4. sent' = [sent EXCEPT ![t] = @ + 0]  BY <1>3, NothingMore
  <1>5. \E b \in Nat : b <= units /\ 0 <= b /\ booked' = [booked EXCEPT ![t] = @ + b]
    <2>1. CASE Books(t)
      <3>1. Chunk(t) \in Nat /\ 0 <= Chunk(t)  BY <1>1
      <3> QED BY <2>1, <3>1, <1>2 DEF Books
    <2>2. CASE UNCHANGED booked  BY <2>2, <1>2, NothingMore
    <2> QED BY <2>1, <2>2
  <1> QED BY <1>2, <1>3, <1>4, <1>5, Counted DEF GoesOn

LEMMA CancelsCounts ==
  ASSUME TypeOK, Accounts, NEW t \in Thread, NEW rest, Cancels(t, rest), UNCHANGED booked
  PROVE  Accounts'
  <1>1. pc \in [Thread -> Place] /\ left[t] \in Nat  BY TypesAre, WorkNumbers DEF Placed
  <1>2. UNCHANGED <<left, sent, lost, booked>>  BY DEF Cancels
  <1>3. pc'[t] = "done" => left[t] = 0  BY <1>1 DEF Cancels, Turns, Asks, Ends
  <1>4. \A u \in Thread \ {t} : pc'[u] = pc[u]  BY <1>1 DEF Cancels, Turns, Asks, Ends
  <1>5. Account(t)'  BY <1>2, <1>3 DEF Accounts, Account
  <1> QED BY <1>2, <1>4, <1>5, OthersKept

\* A step that only moves t, and not to its end.
LEMMA MovesCounts ==
  ASSUME TypeOK, Accounts, NEW t \in Thread, NEW to, to # "done",
         pc' = [pc EXCEPT ![t] = to], UNCHANGED <<work, booked>>
  PROVE  Accounts'
  <1>1. pc \in [Thread -> Place]  BY TypesAre DEF Placed
  <1> QED BY <1>1 DEF Accounts, Account, work

LEMMA InitAccounts == Init => Accounts
  <1>1. Quantity \in [Thread -> Nat]  BY GateAssumption DEF GateAssumption
  <1> SUFFICES ASSUME Init, NEW t \in Thread PROVE Account(t)  BY DEF Accounts
  <1>2. /\ sent[t] = 0 /\ lost[t] = 0 /\ booked[t] = 0 /\ left[t] = Quantity[t]
        /\ pc[t] = "idle" /\ Quantity[t] \in Nat
    BY <1>1 DEF Init, None
  <1> QED BY <1>2 DEF Account

LEMMA NextAccounts == TypeOK /\ Accounts /\ [Next]_vars => Accounts'
  <1> SUFFICES ASSUME TypeOK, Accounts, [Next]_vars PROVE Accounts'  OBVIOUS
  <1>1. CASE UNCHANGED <<pc, work, booked>>
    BY <1>1 DEF work, Accounts, Account
  <1>2. ASSUME NEW t \in Thread, Acts(t) PROVE Accounts'
    <2>1. CASE Starts(t)
      <3>1. \E to : to # "done" /\ pc' = [pc EXCEPT ![t] = to]  BY <2>1 DEF Starts, Asks
      <3> QED BY <2>1, <3>1, MovesCounts DEF Starts, desk
    <2>2. CASE Gets(t)
      <3>1. Sent(pc[t]) # "done"  BY <2>2 DEF Gets, Permitted, Waiting, Sent
      <3> QED BY <2>2, <3>1, MovesCounts DEF Gets, desk
    <2>3. CASE Sleeps(t)  BY <2>3, <1>1 DEF Sleeps, Looked, desk
    <2>4. CASE GivesUp(t)
      BY <2>4, FailsCounts, CancelsCounts DEF GivesUp, Denied, Looked, desk
    <2>5. CASE Accepted(t)  BY <2>5, AcceptedCounts
    <2>6. CASE Refused(t)  BY <2>6, FailsCounts DEF Refused
    <2>7. CASE LogsIn(t)  BY <2>7, MovesCounts DEF LogsIn
    <2>8. CASE Swept(t) \/ Cancelled(t)  BY <2>8, CancelsCounts DEF Swept, Cancelled
    <2> QED BY <1>2, <2>1, <2>2, <2>3, <2>4, <2>5, <2>6, <2>7, <2>8 DEF Acts
  <1>3. CASE Tick \/ SetBack  BY <1>1, <1>3 DEF Tick, SetBack, desk
  <1>4. CASE UNCHANGED vars  BY <1>1, <1>4 DEF vars, desk
  <1> QED BY <1>2, <1>3, <1>4 DEF Next

\* What a report counts as dispatched the broker has taken, it has taken no more than was
\* asked, and a report without a failure is one of the whole quantity.
THEOREM Reports == Spec => []ReportsHold
  <1>1. TypeOK /\ Accounts => ReportsHold
    <2> SUFFICES ASSUME TypeOK, Accounts, NEW t \in Thread
                 PROVE  /\ sent[t] <= booked[t] /\ booked[t] <= Quantity[t]
                        /\ pc[t] = "done" /\ lost[t] = 0 => booked[t] = Quantity[t]
      BY DEF ReportsHold
    <2>1. Account(t)  BY DEF Accounts
    <2> QED BY <2>1, WorkNumbers DEF Account
  <1> QED BY <1>1, InitTypes, NextTypes, InitAccounts, NextAccounts, PTL DEF Spec

----------------------------------------------------------------------------
(* Slices of whole lots *)

\* n is a number of whole lots.
Whole(n) == \E k \in Int : n = k * Lot

LEMMA LotFacts == Lot \in Nat /\ Lot > 0 /\ Freeze \in Nat /\ \A t \in Thread : Quantity[t] \in Nat
  BY GateAssumption DEF GateAssumption

\* A multiple of a lot that is less than a lot is nothing.
LEMMA NoPartOfALot ==
  ASSUME NEW k \in Int, NEW n \in Int, n > 0, 0 <= k * n, k * n < n
  PROVE  k = 0
  <1>1. CASE k >= 1
    <2>1. (k - 1) * n >= 0  BY <1>1
    <2>2. (k - 1) * n = k * n - n  OBVIOUS
    <2> QED BY <2>1, <2>2
  <1>2. CASE k <= -1
    <2>1. (-k - 1) * n >= 0  BY <1>2
    <2>2. (-k - 1) * n = -(k * n) - n  OBVIOUS
    <2> QED BY <2>1, <2>2
  <1> QED BY <1>1, <1>2

LEMMA WholeMeansNoRest ==
  ASSUME NEW n \in Nat
  PROVE  Whole(n) <=> n % Lot = 0
  <1> DEFINE d == n \div Lot
             r == n % Lot
  <1>1. d \in Int /\ r \in Int /\ 0 <= r /\ r < Lot /\ n = Lot * d + r
    BY LotFacts
  <1> HIDE DEF d, r
  <1>2. ASSUME r = 0 PROVE Whole(n)
    <2>1. n = d * Lot  BY <1>1, <1>2, LotFacts
    <2> QED BY <1>1, <2>1 DEF Whole
  <1>3. ASSUME NEW k \in Int, n = k * Lot PROVE r = 0
    <2>1. r = (k - d) * Lot  BY <1>1, <1>3, LotFacts
    <2>2. k - d = 0  BY <1>1, <2>1, LotFacts, NoPartOfALot
    <2> QED BY <2>1, <2>2, LotFacts
  <1> QED BY <1>2, <1>3 DEF Whole, r

LEMMA WholeLess ==
  ASSUME NEW m, NEW n, Whole(m), Whole(n)
  PROVE  Whole(m - n)
  <1>1. PICK j \in Int, k \in Int : m = j * Lot /\ n = k * Lot  BY DEF Whole
  <1>2. m - n = (j - k) * Lot  BY <1>1, LotFacts
  <1> QED BY <1>2 DEF Whole

\* The limit of a slice is whole lots, one at least, and no more than the freeze limit
\* where that has room for one.
LEMMA LimitIsWhole ==
  /\ SliceLimit \in Nat /\ SliceLimit > 0 /\ Whole(SliceLimit)
  /\ Freeze >= Lot => SliceLimit <= Freeze
  <1> DEFINE d == Freeze \div Lot
  <1>1. d \in Nat /\ Lot * d <= Freeze  BY LotFacts
  <1>2. SliceLimit = Greater(Lot, d * Lot)  BY DEF SliceLimit
  <1> HIDE DEF d
  <1>3. d * Lot \in Nat /\ d * Lot = Lot * d  BY <1>1, LotFacts
  <1>4. Whole(Lot) /\ Whole(d * Lot)
    <2>1. Lot = 1 * Lot  BY LotFacts
    <2> QED BY <1>1, <2>1 DEF Whole
  <1>5. SliceLimit \in {Lot, d * Lot} /\ SliceLimit >= Lot
    BY <1>2, <1>3, LotFacts DEF Greater
  <1>6. SliceLimit \in Nat /\ SliceLimit > 0  BY <1>3, <1>5, LotFacts
  <1>7. Freeze >= Lot => SliceLimit <= Freeze  BY <1>1, <1>3, <1>5
  <1> QED BY <1>4, <1>5, <1>6, <1>7

\* Who is at the slices has something left, and of whole lots whole lots are left.
SliceInv == \A t \in Thread :
    /\ pc[t] \in {"wait", "post", "post again"} => left[t] > 0
    /\ Whole(Quantity[t]) => Whole(left[t])

LEMMA ChunkIsWhole ==
  ASSUME TypeOK, SliceInv, NEW t \in Thread
  PROVE  /\ Whole(Quantity[t]) => Whole(Chunk(t)) /\ Whole(left[t] - Chunk(t))
         /\ Whole(Quantity[t]) => Whole(left[t] - left[t])
  <1>1. Chunk(t) = left[t] \/ Chunk(t) = SliceLimit  BY DEF Chunk, Slice, Lesser
  <1>2. Whole(Quantity[t]) => Whole(left[t])  BY DEF SliceInv
  <1> QED BY <1>1, <1>2, LimitIsWhole, WholeLess

\* The other threads' slices are theirs.
LEMMA OthersSlices ==
  ASSUME SliceInv, NEW t \in Thread,
         \A u \in Thread \ {t} : left'[u] = left[u] /\ pc'[u] = pc[u],
         pc'[t] \in {"wait", "post", "post again"} => left'[t] > 0,
         Whole(Quantity[t]) => Whole(left'[t])
  PROVE  SliceInv'
  BY DEF SliceInv, Whole

\* What keeps its rest, and goes to the slices only when there is some.
LEMMA MovesSlices ==
  ASSUME TypeOK, SliceInv, NEW t \in Thread, NEW to, pc' = [pc EXCEPT ![t] = to],
         to \in {"wait", "post", "post again"} => left[t] > 0, UNCHANGED left
  PROVE  SliceInv'
  <1>1. pc \in [Thread -> Place]  BY TypesAre DEF Placed
  <1>2. \A u \in Thread : pc'[u] = IF u = t THEN to ELSE pc[u]  BY <1>1
  <1>3. Whole(Quantity[t]) => Whole(left[t])  BY DEF SliceInv
  <1> QED BY <1>2, <1>3, OthersSlices

LEMMA CancelsSlices ==
  ASSUME TypeOK, SliceInv, NEW t \in Thread, NEW rest, Cancels(t, rest) PROVE SliceInv'
  <1>1. CASE pc' = [pc EXCEPT ![t] = "cancel"] \/ pc' = [pc EXCEPT ![t] = "done"]
    BY <1>1, MovesSlices DEF Cancels
  <1>2. CASE pc' = [pc EXCEPT ![t] = "wait"] /\ left[t] > 0
    BY <1>2, MovesSlices DEF Cancels
  <1> QED BY <1>1, <1>2 DEF Cancels, Turns, Asks, Ends

\* A slice that is done with, or all the rest.
LEMMA GoesOnSlices ==
  ASSUME TypeOK, SliceInv, NEW t \in Thread, NEW units \in {left[t], Chunk(t)},
         left' = [left EXCEPT ![t] = @ - units],
         IF left[t] > units THEN Asks(t, "wait") ELSE Ends(t)
  PROVE  SliceInv'
  <1>1. pc \in [Thread -> Place] /\ left \in [Thread -> Nat]  BY TypesAre DEF Placed, Busy
  <1>2. left[t] \in Nat /\ units \in Int  BY <1>1, ChunkFits
  <1>4. left'[t] = left[t] - units  BY <1>1
  <1>5. \A u \in Thread \ {t} : left'[u] = left[u] /\ pc'[u] = pc[u]
    BY <1>1 DEF Asks, Ends
  <1>6. CASE left[t] > units
    <2>1. left'[t] > 0  BY <1>2, <1>4, <1>6
    <2> QED BY <1>4, <1>5, <2>1, ChunkIsWhole, OthersSlices
  <1>7. CASE ~(left[t] > units)
    <2>1. pc'[t] = "done"  BY <1>1, <1>7 DEF Ends
    <2> QED BY <1>4, <1>5, <2>1, ChunkIsWhole, OthersSlices
  <1> QED BY <1>6, <1>7

LEMMA FailsSlices ==
  ASSUME TypeOK, SliceInv, NEW t \in Thread, Fails(t) PROVE SliceInv'
  <1> DEFINE units == IF Kind[t] = "place" THEN left[t] ELSE Chunk(t)
  <1>1. units \in {left[t], Chunk(t)}  OBVIOUS
  <1>2. /\ left' = [left EXCEPT ![t] = @ - units]
        /\ IF left[t] > units THEN Asks(t, "wait") ELSE Ends(t)
    BY DEF Fails, GoesOn
  <1> HIDE DEF units
  <1> QED BY <1>1, <1>2, GoesOnSlices

LEMMA InitSlices == Init => SliceInv
  BY DEF Init, SliceInv

LEMMA NextSlices == TypeOK /\ SliceInv /\ [Next]_vars => SliceInv'
  <1> SUFFICES ASSUME TypeOK, SliceInv, [Next]_vars PROVE SliceInv'  OBVIOUS
  <1>1. CASE UNCHANGED <<pc, left>>
    BY <1>1 DEF SliceInv
  <1>2. ASSUME NEW t \in Thread, Acts(t) PROVE SliceInv'
    <2>1. CASE Starts(t)
      <3>1. Kind[t] \in {"place", "single", "panic", "cancel", "clean"}
        BY GateAssumption DEF GateAssumption, Trading, Sweeping
      <3>2. CASE Kind[t] \in {"place", "single"}
        <4>1. pc' = [pc EXCEPT ![t] = "wait"] /\ left[t] > 0 /\ UNCHANGED left
          BY <2>1, <3>2 DEF Starts, Asks, Sweeping, work
        <4> QED BY <4>1, MovesSlices
      <3>3. CASE Kind[t] \in {"panic", "cancel"}
        <4>1. pc' = [pc EXCEPT ![t] = "sweep"] /\ UNCHANGED left
          BY <2>1, <3>3 DEF Starts, Asks, Sweeping, work
        <4> QED BY <4>1, MovesSlices
      <3>4. CASE Kind[t] = "clean"
        <4>1. pc' = [pc EXCEPT ![t] = "cancel"] /\ UNCHANGED left
          BY <2>1, <3>4 DEF Starts, Asks, Sweeping, work
        <4> QED BY <4>1, MovesSlices
      <3> QED BY <3>1, <3>2, <3>3, <3>4
    <2>2. CASE Gets(t)
      <3>1. pc[t] \in {"sweep", "cancel", "wait"}  BY <2>2 DEF Gets, Permitted, Waiting
      <3>2. Sent(pc[t]) \in {"wait", "post", "post again"} => left[t] > 0
        BY <3>1 DEF Sent, SliceInv
      <3> QED BY <2>2, <3>2, MovesSlices DEF Gets, work
    <2>3. CASE Sleeps(t)  BY <2>3, <1>1 DEF Sleeps, work
    <2>4. CASE GivesUp(t)
      BY <2>4, FailsSlices, CancelsSlices DEF GivesUp
    <2>5. CASE Accepted(t)  BY <2>5, GoesOnSlices DEF Accepted, GoesOn
    <2>6. CASE Refused(t)  BY <2>6, FailsSlices DEF Refused
    <2>7. CASE LogsIn(t)
      <3>1. left[t] > 0  BY <2>7 DEF LogsIn, SliceInv
      <3> QED BY <2>7, <3>1, MovesSlices DEF LogsIn, work
    <2>8. CASE Swept(t) \/ Cancelled(t)  BY <2>8, CancelsSlices DEF Swept, Cancelled
    <2> QED BY <1>2, <2>1, <2>2, <2>3, <2>4, <2>5, <2>6, <2>7, <2>8 DEF Acts
  <1>3. CASE Tick \/ SetBack  BY <1>1, <1>3 DEF Tick, SetBack, work
  <1>4. CASE UNCHANGED vars  BY <1>1, <1>4 DEF vars, work
  <1> QED BY <1>2, <1>3, <1>4 DEF Next

\* Whatever quantity is asked, limit and lot size: each slice is of something and of no
\* more than what is left, keeps under a freeze limit that has room for one lot, and is
\* of whole lots when the order is.
THEOREM Slices == Spec => []SlicesFit
  <1>1. TypeOK /\ Accounts /\ SliceInv => SlicesFit
    <2> SUFFICES ASSUME TypeOK, Accounts, SliceInv, NEW t \in Thread, Posted(t)
                 PROVE  /\ 0 < Chunk(t) /\ Chunk(t) <= left[t]
                        /\ Freeze >= Lot => Chunk(t) <= Freeze
                        /\ Quantity[t] % Lot = 0 => Chunk(t) % Lot = 0
      BY DEF SlicesFit
    <2>1. /\ left[t] \in Nat /\ Chunk(t) \in 0 .. left[t] /\ Quantity[t] \in Nat
          /\ sent[t] \in Nat /\ lost[t] \in Nat
      BY WorkNumbers
    <2>2. left[t] > 0  BY DEF Posted, SliceInv
    <2>3. 0 < Chunk(t)
      BY <2>1, <2>2, LimitIsWhole DEF Chunk, Slice, Lesser
    <2>4. left[t] <= Quantity[t]  BY <2>1 DEF Accounts, Account
    <2>5. Freeze >= Lot => Chunk(t) <= Freeze
      BY <2>1, <2>4, LotFacts, LimitIsWhole DEF Chunk, Slice, Sliced, Lesser
    <2>6. Quantity[t] % Lot = 0 => Chunk(t) % Lot = 0
      BY <2>1, ChunkIsWhole, WholeMeansNoRest
    <2> QED BY <2>1, <2>3, <2>5, <2>6
  <1> QED
    BY <1>1, InitTypes, NextTypes, InitAccounts, NextAccounts, InitSlices, NextSlices, PTL DEF Spec
=============================================================================
