----------------------- MODULE PositionControlProofs -----------------------
(***************************************************************************)
(* For any number of runners and lots and whatever happens: the types, the *)
(* last word of a panic, and the watchdog's corrective order.              *)
(***************************************************************************)
EXTENDS PositionControl, FiniteSetTheorems, WellFoundedInduction, TLAPS

-----------------------------------------------------------------------------
(* Sums. What holds of the sum over a finite set is proved from the least     *)
(* size of a set for which it fails.                                          *)

Pick(T) == CHOOSE r \in T : TRUE
SumEquation(f, v, S) ==
    f = [T \in SUBSET S |-> IF T = {} THEN 0 ELSE v[Pick(T)] + f[T \ {Pick(T)}]]

LEMMA SumIsChosen ==
  ASSUME NEW v, NEW S
  PROVE  Sum(v, S) = (CHOOSE f : SumEquation(f, v, S))[S]
  BY DEF Sum, SumEquation, Pick

LEMMA LeastOf ==
  ASSUME NEW D \in SUBSET Nat, D # {}
  PROVE  \E k \in D : \A j \in D : k <= j
  <1> DEFINE R == OpToRel(<, Nat)
  <1>1. IsWellFoundedOn(R, Nat)  BY NatLessThanWellFounded
  <1>2. \A j, k \in Nat : j < k => <<j, k>> \in R  BY DEF OpToRel
  <1> HIDE DEF R
  <1>3. PICK k \in D : \A j \in D : ~(<<j, k>> \in R)  BY <1>1, WFMin
  <1>4. \A j \in D : ~(j < k)  BY <1>2, <1>3
  <1> QED BY <1>4

LEMMA SizeOf ==
  ASSUME NEW S, IsFiniteSet(S), NEW T \in SUBSET S
  PROVE  /\ IsFiniteSet(T) /\ Cardinality(T) \in Nat /\ Cardinality(T) <= Cardinality(S)
         /\ ~(Cardinality(T) < 0)
  <1>1. IsFiniteSet(T) /\ Cardinality(T) <= Cardinality(S)  BY FS_Subset
  <1>2. Cardinality(T) \in Nat  BY <1>1, FS_CardinalityType
  <1>3. ~(Cardinality(T) < 0)  BY <1>2
  <1> QED BY <1>1, <1>2, <1>3

\* A set without the element that is picked has one less.
LEMMA PickedOne ==
  ASSUME NEW S, IsFiniteSet(S), NEW T \in SUBSET S, T # {}
  PROVE  /\ Pick(T) \in S /\ T \ {Pick(T)} \in SUBSET S
         /\ Cardinality(T \ {Pick(T)}) = Cardinality(T) - 1
         /\ Cardinality(T) - 1 \in Nat
  <1>1. Pick(T) \in T  BY DEF Pick
  <1>2. IsFiniteSet(T) /\ Cardinality(T) \in Nat  BY SizeOf
  <1>3. Cardinality(T \ {Pick(T)}) = Cardinality(T) - 1  BY <1>1, <1>2, FS_RemoveElement
  <1>4. Cardinality(T) # 0  BY <1>2, FS_EmptySet
  <1> QED BY <1>1, <1>2, <1>3, <1>4

\* A function that is right for all sets of fewer than n elements.
RightBelow(f, v, S, n) == \A T \in SUBSET S : Cardinality(T) < n =>
    f[T] = IF T = {} THEN 0 ELSE v[Pick(T)] + f[T \ {Pick(T)}]

LEMMA SumBelow ==
  ASSUME NEW S, IsFiniteSet(S), NEW v, \A r \in S : v[r] \in Int, NEW n \in Nat
  PROVE  \E f \in [SUBSET S -> Int] : RightBelow(f, v, S, n)
  <1> DEFINE D == {m \in Nat : ~ \E f \in [SUBSET S -> Int] : RightBelow(f, v, S, m)}
  <1> SUFFICES ASSUME D # {} PROVE FALSE
    OBVIOUS
  <1>1. PICK m \in D : \A j \in D : m <= j  BY LeastOf
  <1>2. m # 0
    <2>1. [T \in SUBSET S |-> 0] \in [SUBSET S -> Int]  OBVIOUS
    <2>2. \A T \in SUBSET S : ~(Cardinality(T) < 0)  BY SizeOf
    <2>3. RightBelow([T \in SUBSET S |-> 0], v, S, 0)  BY <2>2 DEF RightBelow
    <2> QED BY <2>1, <2>3
  <1>3. m - 1 \in Nat /\ m \in Nat /\ ~(m <= m - 1)  BY <1>2
  <1>4. m - 1 \notin D  BY <1>1, <1>3
  <1>5. PICK f \in [SUBSET S -> Int] : RightBelow(f, v, S, m - 1)  BY <1>3, <1>4
  <1> DEFINE g == [T \in SUBSET S |-> IF T = {} THEN 0 ELSE v[Pick(T)] + f[T \ {Pick(T)}]]
  <1>6. g \in [SUBSET S -> Int]
    <2>1. ASSUME NEW T \in SUBSET S, T # {} PROVE v[Pick(T)] + f[T \ {Pick(T)}] \in Int
      <3>1. Pick(T) \in S /\ T \ {Pick(T)} \in SUBSET S  BY <2>1, PickedOne
      <3>2. v[Pick(T)] \in Int /\ f[T \ {Pick(T)}] \in Int  BY <3>1
      <3> QED BY <3>2
    <2> QED BY <2>1
  <1>7. \A T \in SUBSET S : g[T] = IF T = {} THEN 0 ELSE v[Pick(T)] + f[T \ {Pick(T)}]
    OBVIOUS
  <1> HIDE DEF g
  <1>8. \A T \in SUBSET S : Cardinality(T) < m - 1 => g[T] = f[T]
    BY <1>5, <1>7 DEF RightBelow
  <1>9. ASSUME NEW T \in SUBSET S, Cardinality(T) < m, T # {}
        PROVE  g[T \ {Pick(T)}] = f[T \ {Pick(T)}]
    <2>1. /\ T \ {Pick(T)} \in SUBSET S
          /\ Cardinality(T \ {Pick(T)}) = Cardinality(T) - 1 /\ Cardinality(T) \in Nat
      BY <1>9, PickedOne, SizeOf
    <2>2. Cardinality(T \ {Pick(T)}) < m - 1  BY <1>3, <1>9, <2>1
    <2> QED BY <1>8, <2>1, <2>2
  <1>10. RightBelow(g, v, S, m)  BY <1>7, <1>9 DEF RightBelow
  <1> QED BY <1>1, <1>6, <1>10

\* The recursive definition has a solution, and all of its values are integers.
LEMMA SumType ==
  ASSUME NEW S, IsFiniteSet(S), NEW v, \A r \in S : v[r] \in Int
  PROVE  Sum(v, S) \in Int
  <1> DEFINE n == Cardinality(S)
             sum == CHOOSE f : SumEquation(f, v, S)
  <1>1. n \in Nat  BY FS_CardinalityType
  <1>a. n + 1 \in Nat  BY <1>1
  <1> HIDE DEF n
  <1>2. PICK f \in [SUBSET S -> Int] : RightBelow(f, v, S, n + 1)  BY <1>a, SumBelow
  <1>3. \A T \in SUBSET S : Cardinality(T) < n + 1
    <2>1. \A T \in SUBSET S : Cardinality(T) \in Nat /\ Cardinality(T) <= n
      BY SizeOf DEF n
    <2> QED BY <1>1, <2>1
  <1>4. SumEquation(f, v, S)  BY <1>2, <1>3 DEF RightBelow, SumEquation
  <1>5. SumEquation(sum, v, S)  BY <1>4
  <1> HIDE DEF sum
  <1>6. \A T \in SUBSET S : sum[T] = IF T = {} THEN 0 ELSE v[Pick(T)] + sum[T \ {Pick(T)}]
    BY <1>5 DEF SumEquation
  <1> DEFINE D == {m \in Nat : \E T \in SUBSET S : Cardinality(T) = m /\ sum[T] \notin Int}
  <1>7. D = {}
    <2> SUFFICES ASSUME D # {} PROVE FALSE
      OBVIOUS
    <2>1. PICK m \in D : \A j \in D : m <= j  BY LeastOf
    <2>2. PICK T \in SUBSET S : Cardinality(T) = m /\ sum[T] \notin Int  BY <2>1
    <2>a. sum[{}] = 0
      <3>1. {} \in SUBSET S  OBVIOUS
      <3> QED BY ONLY <1>6, <3>1
    <2>3. T # {}
      <3>1. 0 \in Int  OBVIOUS
      <3> QED BY ONLY <2>a, <2>2, <3>1
    <2>4. /\ Pick(T) \in S /\ T \ {Pick(T)} \in SUBSET S
          /\ Cardinality(T \ {Pick(T)}) = m - 1 /\ m - 1 \in Nat /\ m \in Nat
      BY <2>1, <2>2, <2>3, PickedOne
    <2>5. m - 1 \notin D  BY <2>1, <2>4
    <2>6. sum[T \ {Pick(T)}] \in Int  BY <2>4, <2>5
    <2>7. v[Pick(T)] \in Int  BY <2>4
    <2>8. v[Pick(T)] + sum[T \ {Pick(T)}] \in Int  BY ONLY <2>6, <2>7
    <2>9. sum[T] = v[Pick(T)] + sum[T \ {Pick(T)}]  BY ONLY <1>6, <2>2, <2>3
    <2> QED BY ONLY <2>2, <2>8, <2>9
  <1>8. S \in SUBSET S /\ Cardinality(S) \in Nat  BY <1>1 DEF n
  <1>9. sum[S] \in Int  BY <1>7, <1>8
  <1> QED BY <1>9, SumIsChosen DEF sum

-----------------------------------------------------------------------------
(* Type correctness *)

Locks == {"free", "cycle", "sync", "watch"}
Orders == {"none", "sent", "booked", "refused"}
Legs == {"none", "exit", "enter"}
Places == {"rest", "positions", "orders", "guard", "judge", "await", "heal", "burst", "gather"}

BrokerTypes == held \in Int /\ resting \in Int
OpTypes ==
    /\ lock \in [Runner -> Locks] /\ leg \in [Runner -> Legs]
    /\ aim \in [Runner -> Direction] /\ amount \in [Runner -> Int]
    /\ order \in [Runner -> Orders]
RunnerTypes ==
    /\ virtual \in [Runner -> Int] /\ enabled \in [Runner -> BOOLEAN]
    /\ queued \subseteq Runner /\ paused \in BOOLEAN
WatchTypes ==
    /\ loop \in Places /\ due \in BOOLEAN /\ mates \subseteq Runner /\ open \in BOOLEAN
    /\ want \in Int /\ seen \in Int /\ heal \in Int /\ backoff \in {"none", "wait", "tripped"}
    /\ stirred \in BOOLEAN
HelpTypes ==
    /\ panic \in {"idle", "cancel", "ask", "close", "zero", "done"}
    /\ close \in Int /\ zeroed \subseteq Runner /\ calm \in BOOLEAN /\ desk \in Int
CountTypes == faults \in 0 .. MaxFaults /\ calls \in 0 .. MaxCalls

LEMMA TypesAre ==
  TypeOK <=> BrokerTypes /\ OpTypes /\ RunnerTypes /\ WatchTypes /\ HelpTypes /\ CountTypes
  BY DEF TypeOK, BrokerTypes, OpTypes, RunnerTypes, WatchTypes, HelpTypes, CountTypes, Locks, Orders,
         Legs, Places, Idle

LEMMA TypesAreNext ==
  TypeOK' <=> BrokerTypes' /\ OpTypes' /\ RunnerTypes' /\ WatchTypes' /\ HelpTypes' /\ CountTypes'
  BY DEF TypeOK, BrokerTypes, OpTypes, RunnerTypes, WatchTypes, HelpTypes, CountTypes, Locks, Orders,
         Legs, Places, Idle

\* What a step leaves alone keeps its types.
LEMMA Kept ==
  ASSUME TypeOK
  PROVE  /\ UNCHANGED broker => BrokerTypes'
         /\ UNCHANGED op => OpTypes'
         /\ UNCHANGED <<virtual, enabled, queued, paused>> => RunnerTypes'
         /\ UNCHANGED watch => WatchTypes'
         /\ UNCHANGED dog /\ (Stirs \/ UNCHANGED stirred) => WatchTypes'
         /\ UNCHANGED help => HelpTypes'
         /\ UNCHANGED count => CountTypes'
  BY TypesAre DEF BrokerTypes, OpTypes, RunnerTypes, WatchTypes, HelpTypes, CountTypes, broker, op,
     watch, dog, help, count, Stirs

LEMMA Constants == Lots \in Int /\ MaxFaults \in Nat /\ MaxCalls \in Nat /\ IsFiniteSet(Runner)
  BY ControlAssumption DEF ControlAssumption

LEMMA CountsTypes ==
  ASSUME TypeOK, MayFail \/ UNCHANGED faults, MayCall \/ UNCHANGED calls
  PROVE  CountTypes'
  <1>1. faults \in 0 .. MaxFaults /\ calls \in 0 .. MaxCalls  BY DEF TypeOK
  <1> QED BY <1>1, Constants DEF MayFail, MayCall, CountTypes

LEMMA TotalType ==
  ASSUME TypeOK, NEW S \in SUBSET Runner
  PROVE  Total(S) \in Int
  <1>1. IsFiniteSet(S)  BY Constants, FS_Subset
  <1>2. \A r \in S : virtual[r] \in Int  BY DEF TypeOK
  <1> QED BY <1>1, <1>2, SumType DEF Total

LEMMA MissingType ==
  ASSUME NEW v \in Int, NEW d \in Direction
  PROVE  Missing(v, d) \in Int
  <1>1. d \in Int /\ d * Lots \in Int  BY Constants DEF Direction
  <1> QED BY <1>1, Constants DEF Missing

LEMMA SendsTypes ==
  ASSUME TypeOK, NEW r \in Runner, NEW v \in Int, NEW d \in Direction, Sends(r, v, d),
         NEW who \in Locks, lock' \in {lock, [lock EXCEPT ![r] = who]}
  PROVE  OpTypes'
  <1>1. Missing(v, d) \in Int  BY MissingType
  <1>2. OpTypes  BY TypesAre
  <1> QED BY <1>1, <1>2 DEF Sends, OpTypes, Legs, Orders

LEMMA LeavesTypes ==
  ASSUME TypeOK, NEW r \in Runner, Leaves(r) PROVE OpTypes'
  <1>1. OpTypes  BY TypesAre
  <1>2. 1 \in Direction /\ 0 \in Int  BY DEF Direction
  <1> QED BY <1>1, <1>2 DEF Leaves, OpTypes, Legs, Orders, Locks

LEMMA TurnsTypes ==
  ASSUME TypeOK, NEW r \in Runner, NEW d \in Direction, NEW who \in Locks, Turns(r, d, who)
  PROVE  OpTypes'
  <1>1. virtual[r] \in Int  BY DEF TypeOK
  <1> QED BY <1>1, SendsTypes DEF Turns

LEMMA ReportedTypes ==
  ASSUME TypeOK, NEW r \in Runner, Reported(r) PROVE TypeOK'
  <1> DEFINE now == IF lock[r] = "sync" THEN SyncReported(r) ELSE CycleReported(r)
  <1>1. virtual[r] \in Int /\ amount[r] \in Int /\ aim[r] \in Direction  BY DEF TypeOK
  <1>2. aim[r] * Lots \in Int  BY <1>1, Constants DEF Direction
  <1>3. SyncReported(r) \in Int /\ CycleReported(r) \in Int
    BY <1>1, <1>2 DEF SyncReported, CycleReported
  <1>4. now \in Int  BY <1>3
  <1>5. virtual' = [virtual EXCEPT ![r] = now]
    BY DEF Reported
  <1>6. (Sends(r, now, aim[r]) /\ UNCHANGED lock) \/ Leaves(r)
    BY DEF Reported
  <1> HIDE DEF now
  <1>7. OpTypes'
    <2>1. CASE Sends(r, now, aim[r]) /\ UNCHANGED lock
      <3>1. "free" \in Locks  BY DEF Locks
      <3> QED BY <1>1, <1>4, <2>1, <3>1, SendsTypes
    <2>2. CASE Leaves(r)  BY <2>2, LeavesTypes
    <2> QED BY <1>6, <2>1, <2>2
  <1>8. /\ UNCHANGED <<broker, enabled, queued, paused, dog, help, count>>
        /\ Stirs \/ UNCHANGED stirred
    BY DEF Reported
  <1>9. RunnerTypes'  BY <1>4, <1>5, <1>8, TypesAre DEF RunnerTypes
  <1> QED BY <1>7, <1>8, <1>9, Kept, TypesAreNext

LEMMA RunnerStepTypes ==
  ASSUME TypeOK, NEW r \in Runner, RunnerStep(r) PROVE TypeOK'
  <1> USE DEF runner
  <1>t. BrokerTypes /\ OpTypes /\ RunnerTypes  BY TypesAre
  <1>1. CASE CycleLeaves(r)
    <2>1. RunnerTypes'  BY <1>t, <1>1 DEF CycleLeaves, RunnerTypes
    <2> QED BY <1>1, <2>1, Kept, TypesAreNext DEF CycleLeaves
  <1>2. ASSUME NEW d \in Direction, Flip(r, d) PROVE TypeOK'
    <2>1. OpTypes'  BY <1>2, TurnsTypes DEF Flip, Locks
    <2>2. RunnerTypes'  BY <1>t, <1>2 DEF Flip, Turns, RunnerTypes
    <2>3. CountTypes'  BY <1>2, CountsTypes DEF Flip, Turns
    <2> QED BY <1>2, <2>1, <2>2, <2>3, Kept, TypesAreNext DEF Flip, Turns
  <1>3. ASSUME NEW d \in Direction, Sync(r, d) PROVE TypeOK'
    <2>1. OpTypes'  BY <1>3, TurnsTypes DEF Sync, Locks
    <2>2. RunnerTypes'  BY <1>t, <1>3 DEF Sync, Turns, RunnerTypes
    <2>3. CountTypes'  BY <1>3, CountsTypes DEF Sync, Turns
    <2> QED BY <1>3, <2>1, <2>2, <2>3, Kept, TypesAreNext DEF Sync, Turns
  <1>4. CASE Books(r)
    <2>1. amount[r] \in Int  BY <1>t DEF OpTypes
    <2>2. BrokerTypes'  BY <1>t, <1>4, <2>1 DEF Books, BrokerTypes, broker
    <2>3. CountTypes'  BY <1>4, CountsTypes DEF Books
    <2>4. OpTypes'  BY <1>t, <1>4 DEF Books, OpTypes, Orders
    <2> QED BY <1>4, <2>2, <2>3, <2>4, Kept, TypesAreNext DEF Books
  <1>5. CASE Refuses(r)
    <2>1. CountTypes'  BY <1>5, CountsTypes DEF Refuses
    <2>2. OpTypes'  BY <1>t, <1>5 DEF Refuses, OpTypes, Orders
    <2> QED BY <1>5, <2>1, <2>2, Kept, TypesAreNext DEF Refuses
  <1>6. CASE Reported(r)  BY <1>6, ReportedTypes
  <1>7. CASE Fails(r)
    <2>1. OpTypes'  BY <1>7, LeavesTypes DEF Fails
    <2>2. enabled[r] \in BOOLEAN  BY <1>t DEF RunnerTypes
    <2>3. RunnerTypes'  BY <1>t, <1>7, <2>2 DEF Fails, RunnerTypes
    <2> QED BY <1>7, <2>1, <2>3, Kept, TypesAreNext DEF Fails
  <1> QED BY <1>1, <1>2, <1>3, <1>4, <1>5, <1>6, <1>7 DEF RunnerStep

LEMMA LoopTypes ==
  ASSUME TypeOK, Loop PROVE TypeOK'
  <1> USE DEF runner
  <1>t. BrokerTypes /\ OpTypes /\ RunnerTypes /\ WatchTypes  BY TypesAre
  <1>e. Enabled \in SUBSET Runner /\ Total(Enabled) \in Int
    <2>1. Enabled \in SUBSET Runner  BY DEF Enabled
    <2> QED BY <2>1, TotalType
  <1>1. CASE Wakes
    <2>1. WatchTypes'  BY <1>t, <1>e, <1>1 DEF Wakes, WatchTypes, Places
    <2> QED BY <1>1, <2>1, Kept, TypesAreNext DEF Wakes
  <1>2. CASE AsksPositions
    <2>1. WatchTypes'  BY <1>t, <1>2 DEF AsksPositions, WatchTypes, Places, BrokerTypes
    <2>2. CountTypes'  BY <1>2, CountsTypes DEF AsksPositions
    <2> QED BY <1>2, <2>1, <2>2, Kept, TypesAreNext DEF AsksPositions
  <1>3. CASE AsksOrders
    <2>1. WatchTypes'  BY <1>t, <1>3 DEF AsksOrders, WatchTypes, Places
    <2>2. CountTypes'  BY <1>3, CountsTypes DEF AsksOrders
    <2> QED BY <1>3, <2>1, <2>2, Kept, TypesAreNext DEF AsksOrders
  <1>4. CASE Guard
    <2>1. WatchTypes'  BY <1>t, <1>e, <1>4 DEF Guard, WatchTypes, Places
    <2> QED BY <1>4, <2>1, Kept, TypesAreNext DEF Guard
  <1>5. CASE Judge
    <2>1. WatchTypes'  BY <1>t, <1>5 DEF Judge, WatchTypes, Places
    <2> QED BY <1>5, <2>1, Kept, TypesAreNext DEF Judge
  <1>6. CASE TakesLock
    <2>1. Total(mates) \in Int /\ seen \in Int  BY <1>t, TotalType DEF WatchTypes
    <2>2. Total(mates) - seen \in Int  BY <2>1
    <2>3. WatchTypes'  BY <1>t, <1>6, <2>2 DEF TakesLock, WatchTypes, Places
    <2>4. OpTypes'  BY <1>t, <1>6 DEF TakesLock, OpTypes, Locks
    <2> QED BY <1>6, <2>3, <2>4, Kept, TypesAreNext DEF TakesLock
  <1>7. CASE HealEnds
    <2>1. OpTypes'  BY <1>t, <1>7 DEF HealEnds, OpTypes, Locks
    <2>2. held \in Int /\ resting \in Int /\ heal \in Int /\ seen \in Int
      BY <1>t DEF BrokerTypes, WatchTypes
    <2>3. held + heal \in Int /\ resting + heal \in Int /\ 0 \in Int  BY <2>2
    <2>4. /\ BrokerTypes' /\ backoff' \in {"none", "wait", "tripped"}
          /\ virtual' \in {virtual, [r \in Runner |-> IF r \in mates THEN seen ELSE virtual[r]]}
          /\ MayFail \/ UNCHANGED faults
      BY <1>7, <2>2, <2>3
         DEF HealEnds, HealFilled, HealRests, HealLost, HealRefused, HealShort, BrokerTypes, broker
    <2>5. WatchTypes'  BY <1>t, <1>7, <2>3, <2>4 DEF HealEnds, WatchTypes, Places
    <2>6. RunnerTypes'  BY <1>t, <1>7, <2>2, <2>4 DEF HealEnds, RunnerTypes
    <2>7. CountTypes'  BY <1>7, <2>4, CountsTypes DEF HealEnds
    <2> QED BY <1>7, <2>1, <2>4, <2>5, <2>6, <2>7, Kept, TypesAreNext DEF HealEnds
  <1>8. CASE StartsBurst
    <2>a. /\ loop' = "gather" /\ due' = due /\ mates' = {} /\ open' = FALSE
          /\ want' = 0 /\ seen' = 0 /\ heal' = heal /\ backoff' = backoff /\ stirred' = FALSE
      BY <1>8 DEF StartsBurst
    <2>b. 0 \in Int /\ "gather" \in Places  BY DEF Places
    <2>c. loop' \in Places /\ want' \in Int /\ seen' \in Int  BY ONLY <2>a, <2>b
    <2>d. open' \in BOOLEAN /\ stirred' \in BOOLEAN  BY ONLY <2>a, Zenon
    <2>1. WatchTypes'  BY <1>t, <2>a, <2>c, <2>d DEF WatchTypes
    <2>2. RunnerTypes'  BY <1>t, <1>e, <1>8 DEF StartsBurst, RunnerTypes
    <2> QED BY <1>8, <2>1, <2>2, Kept, TypesAreNext DEF StartsBurst, op
  <1>9. CASE BurstEnds
    <2>1. WatchTypes'  BY <1>t, <1>9 DEF BurstEnds, WatchTypes, Places
    <2> QED BY <1>9, <2>1, Kept, TypesAreNext DEF BurstEnds
  <1> QED BY <1>1, <1>2, <1>3, <1>4, <1>5, <1>6, <1>7, <1>8, <1>9 DEF Loop

LEMMA OtherTypes ==
  ASSUME TypeOK, TimerDue \/ BackoffEnds \/ PanicCall \/ Others PROVE TypeOK'
  <1> USE DEF runner
  <1>t. BrokerTypes /\ OpTypes /\ RunnerTypes /\ WatchTypes /\ HelpTypes  BY TypesAre
  <1>n. held \in Int /\ resting \in Int /\ close \in Int /\ desk \in Int
    BY <1>t DEF BrokerTypes, HelpTypes
  <1>m. -held \in Int /\ held + close \in Int /\ held + desk \in Int /\ held + resting \in Int /\ 0 \in Int
    BY <1>n
  <1>1. CASE TimerDue \/ BackoffEnds
    <2>1. WatchTypes'  BY <1>t, <1>1 DEF TimerDue, BackoffEnds, WatchTypes
    <2> QED BY <1>1, <2>1, Kept, TypesAreNext DEF TimerDue, BackoffEnds
  <1>2. CASE PanicCancels
    <2>1. BrokerTypes' /\ HelpTypes'  BY <1>t, <1>2 DEF PanicCancels, BrokerTypes, HelpTypes
    <2> QED BY <1>2, <2>1, Kept, TypesAreNext DEF PanicCancels
  <1>3. CASE PanicAsks
    <2>1. HelpTypes'  BY <1>t, <1>m, <1>3 DEF PanicAsks, HelpTypes
    <2> QED BY <1>3, <2>1, Kept, TypesAreNext DEF PanicAsks
  <1>4. CASE PanicCloses
    <2>1. BrokerTypes'  BY <1>t, <1>m, <1>4 DEF PanicCloses, BrokerTypes
    <2>2. HelpTypes'  BY <1>t, <1>m, <1>4 DEF PanicCloses, HelpTypes
    <2>3. CountTypes'  BY <1>4, CountsTypes DEF PanicCloses
    <2> QED BY <1>4, <2>1, <2>2, <2>3, Kept, TypesAreNext DEF PanicCloses
  <1>5. ASSUME NEW r \in Runner, PanicZeroes(r) PROVE TypeOK'
    <2>1. HelpTypes'  BY <1>t, <1>5 DEF PanicZeroes, HelpTypes
    <2>2. RunnerTypes'  BY <1>t, <1>m, <1>5 DEF PanicZeroes, RunnerTypes
    <2> QED BY <1>5, <2>1, <2>2, Kept, TypesAreNext DEF PanicZeroes
  <1>6. CASE PanicStarts
    <2>1. HelpTypes'  BY <1>t, <1>6 DEF PanicStarts, HelpTypes
    <2>2. RunnerTypes'  BY <1>t, <1>6 DEF PanicStarts, RunnerTypes
    <2>3. CountTypes'  BY <1>6, CountsTypes DEF PanicStarts
    <2> QED BY <1>6, <2>1, <2>2, <2>3, Kept, TypesAreNext DEF PanicStarts
  <1>7. CASE SquareOffAsks
    <2>1. HelpTypes'  BY <1>t, <1>m, <1>7 DEF SquareOffAsks, HelpTypes
    <2>2. CountTypes'  BY <1>7, CountsTypes DEF SquareOffAsks
    <2> QED BY <1>7, <2>1, <2>2, Kept, TypesAreNext DEF SquareOffAsks
  <1>8. CASE SquareOffCloses
    <2>1. HelpTypes' /\ BrokerTypes'
      BY <1>t, <1>m, <1>8 DEF SquareOffCloses, HelpTypes, BrokerTypes
    <2>2. CountTypes'  BY <1>8, CountsTypes DEF SquareOffCloses
    <2> QED BY <1>8, <2>1, <2>2, Kept, TypesAreNext DEF SquareOffCloses
  <1>9. ASSUME NEW r \in Runner, Switch(r) PROVE TypeOK'
    <2>1. RunnerTypes'  BY <1>t, <1>9 DEF Switch, RunnerTypes
    <2>2. WatchTypes'  BY <1>t, <1>9 DEF Switch, WatchTypes
    <2>3. CountTypes'  BY <1>9, CountsTypes DEF Switch
    <2> QED BY <1>9, <2>1, <2>2, <2>3, Kept, TypesAreNext DEF Switch
  <1>10. ASSUME NEW d \in Direction, OthersTrade(d) PROVE TypeOK'
    <2>1. d * Lots \in Int  BY Constants DEF Direction
    <2>2. held + d * Lots \in Int  BY <1>n, <2>1
    <2>3. BrokerTypes'  BY <1>t, <1>10, <2>2 DEF OthersTrade, BrokerTypes
    <2>4. CountTypes'  BY <1>10, CountsTypes DEF OthersTrade
    <2> QED BY <1>10, <2>3, <2>4, Kept, TypesAreNext DEF OthersTrade
  <1>11. CASE RestEnds
    <2>1. BrokerTypes'  BY <1>n, <1>m, <1>11 DEF RestEnds, BrokerTypes
    <2> QED BY <1>11, <2>1, Kept, TypesAreNext DEF RestEnds
  <1> QED BY <1>1, <1>2, <1>3, <1>4, <1>5, <1>6, <1>7, <1>8, <1>9, <1>10, <1>11
          DEF PanicCall, Others

\* Type correctness, whatever is lost, rests or fails, and whoever else trades: the
\* positions stay numbers although the target is a sum over all runners.
THEOREM Types == Spec => []TypeOK
<1>1. Init => TypeOK
  <2> SUFFICES ASSUME Init PROVE TypeOK
    OBVIOUS
  <2>1. 1 \in Direction /\ 0 \in Int  BY DEF Direction
  <2>2. BrokerTypes  BY <2>1 DEF Init, BrokerTypes
  <2>3. OpTypes  BY <2>1 DEF Init, OpTypes, Locks, Legs, Orders
  <2>4. RunnerTypes  BY <2>1 DEF Init, RunnerTypes
  <2>5. WatchTypes  BY <2>1 DEF Init, WatchTypes, Places
  <2>6. HelpTypes  BY <2>1 DEF Init, HelpTypes, Idle
  <2>7. CountTypes  BY Constants DEF Init, CountTypes
  <2> QED BY <2>2, <2>3, <2>4, <2>5, <2>6, <2>7, TypesAre
<1>2. TypeOK /\ [Next]_vars => TypeOK'
  <2>1. CASE UNCHANGED vars
    BY <2>1, Kept, TypesAreNext DEF vars, runner
  <2> QED BY <2>1, RunnerStepTypes, LoopTypes, OtherTypes DEF Next
<1> QED BY <1>1, <1>2, PTL DEF Spec

-----------------------------------------------------------------------------
(* The panic *)

PanicPauses == panic # Idle => paused

\* The watchdog holds the lock of a runner it considers while it heals.
WatchHolds ==
    /\ loop \in {"judge", "await", "heal"} => mates # {}
    /\ loop = "heal" => lock[First(mates)] = "watch"

\* Only who holds a runner's lock for a cycle or a sync has an order.
OrdersHeld == \A r \in Runner : order[r] # "none" => lock[r] \in {"cycle", "sync"}

\* No cycle was on its way when the panic paused trading, so none begins after.
NothingOnItsWay ==
    calm /\ panic # Idle => queued = {} /\ \A r \in Runner : lock[r] # "cycle"

NoneZeroed == panic = Idle => zeroed = {}

Quiet == PanicPauses /\ WatchHolds /\ OrdersHeld /\ NothingOnItsWay /\ NoneZeroed

LEMMA FirstIsRunner ==
  ASSUME TypeOK, mates # {} PROVE First(mates) \in Runner
  <1>1. mates \subseteq Runner  BY DEF TypeOK
  <1> QED BY <1>1 DEF First

\* Steps that touch neither locks, orders, queue, panic nor the loop's place.
LEMMA QuietKept ==
  ASSUME Quiet, UNCHANGED <<lock, order, queued, paused, loop, mates, panic, zeroed, calm>>
  PROVE  Quiet'
  BY DEF Quiet, PanicPauses, WatchHolds, OrdersHeld, NothingOnItsWay, NoneZeroed, First

LEMMA QuietRunnerStep ==
  ASSUME TypeOK, Quiet, NEW r \in Runner, RunnerStep(r) PROVE Quiet'
  <1> USE DEF op, broker, runner, watch, dog, help, count
  <1>1. /\ lock \in [Runner -> Locks] /\ order \in [Runner -> Orders]
    BY TypesAre DEF OpTypes
  <1>2. loop = "heal" => First(mates) \in Runner /\ lock[First(mates)] = "watch"
    BY FirstIsRunner DEF Quiet, WatchHolds
  <1>3. UNCHANGED <<paused, loop, mates, panic, zeroed, calm>>
    BY DEF RunnerStep, CycleLeaves, Flip, Sync, Turns, Books, Refuses, Reported, Fails
  <1>4. CASE /\ UNCHANGED lock /\ queued' \subseteq queued
             /\ \A q \in Runner : order'[q] # "none" => order[q] # "none"
    BY <1>3, <1>4 DEF Quiet, PanicPauses, WatchHolds, OrdersHeld, NothingOnItsWay, NoneZeroed, First
  <1>5. CASE CycleLeaves(r)
    BY <1>4, <1>5 DEF CycleLeaves
  <1>6. ASSUME NEW who \in {"cycle", "sync"}, lock[r] = "free",
               lock' = [lock EXCEPT ![r] = who], order' = [order EXCEPT ![r] = "sent"],
               queued' \subseteq queued, who = "cycle" => r \in queued
        PROVE  Quiet'
    <2>1. lock'[r] = who /\ \A q \in Runner : q # r => lock'[q] = lock[q] /\ order'[q] = order[q]
      BY <1>1, <1>6
    <2>2. OrdersHeld'  BY <2>1 DEF Quiet, OrdersHeld
    <2>3. WatchHolds'  BY <1>2, <1>3, <1>6, <2>1 DEF Quiet, WatchHolds, First
    <2>4. NothingOnItsWay'  BY <1>3, <1>6, <2>1 DEF Quiet, NothingOnItsWay
    <2> QED BY <1>3, <2>2, <2>3, <2>4 DEF Quiet, PanicPauses, NoneZeroed
  <1>7. ASSUME NEW d \in Direction, Flip(r, d) PROVE Quiet'
    <2>1. /\ lock[r] = "free" /\ lock' = [lock EXCEPT ![r] = "cycle"]
          /\ order' = [order EXCEPT ![r] = "sent"] /\ r \in queued /\ queued' \subseteq queued
      BY <1>7 DEF Flip, Turns, Sends
    <2> QED BY <1>6, <2>1
  <1>8. ASSUME NEW d \in Direction, Sync(r, d) PROVE Quiet'
    <2>1. /\ lock[r] = "free" /\ lock' = [lock EXCEPT ![r] = "sync"]
          /\ order' = [order EXCEPT ![r] = "sent"] /\ queued' \subseteq queued
      BY <1>8 DEF Sync, Turns, Sends
    <2> QED BY <1>6, <2>1
  <1>9. CASE Books(r) \/ Refuses(r)
    <2>1. /\ order[r] # "none" /\ UNCHANGED <<lock, queued>>
          /\ \A q \in Runner : q # r => order'[q] = order[q]
      BY <1>1, <1>9 DEF Books, Refuses
    <2> QED BY <1>4, <2>1
  <1>10. CASE Reported(r) \/ Fails(r)
    <2>1. order[r] # "none" /\ UNCHANGED queued
      BY <1>10 DEF Reported, Fails
    <2>2. \/ UNCHANGED lock /\ order' = [order EXCEPT ![r] = "sent"]
          \/ lock' = [lock EXCEPT ![r] = "free"] /\ order' = [order EXCEPT ![r] = "none"]
      BY <1>10 DEF Reported, Fails, Sends, Leaves
    <2>3. CASE UNCHANGED lock /\ order' = [order EXCEPT ![r] = "sent"]
      <3>1. \A q \in Runner : q # r => order'[q] = order[q]
        BY <1>1, <2>3
      <3> QED BY <1>4, <2>1, <2>3, <3>1
    <2>4. CASE lock' = [lock EXCEPT ![r] = "free"] /\ order' = [order EXCEPT ![r] = "none"]
      <3>1. /\ lock'[r] = "free" /\ order'[r] = "none"
            /\ \A q \in Runner : q # r => lock'[q] = lock[q] /\ order'[q] = order[q]
        BY <1>1, <2>4
      <3>2. OrdersHeld'  BY <3>1 DEF Quiet, OrdersHeld
      <3>3. lock[r] # "watch"  BY <2>1 DEF Quiet, OrdersHeld
      <3>4. WatchHolds'  BY <1>2, <1>3, <3>1, <3>3 DEF Quiet, WatchHolds, First
      <3>5. NothingOnItsWay'  BY <1>3, <2>1, <3>1 DEF Quiet, NothingOnItsWay
      <3> QED BY <1>3, <3>2, <3>4, <3>5 DEF Quiet, PanicPauses, NoneZeroed
    <2> QED BY <2>2, <2>3, <2>4
  <1> QED BY <1>5, <1>7, <1>8, <1>9, <1>10 DEF RunnerStep

LEMMA QuietLoop ==
  ASSUME TypeOK, Quiet, Loop PROVE Quiet'
  <1> USE DEF op, broker, runner, help, count
  <1>1. lock \in [Runner -> Locks]
    BY TypesAre DEF OpTypes
  <1>2. UNCHANGED <<order, paused, panic, zeroed, calm>>
    BY DEF Loop, Wakes, AsksPositions, AsksOrders, Guard, Judge, TakesLock, HealEnds, StartsBurst,
           BurstEnds, HealFilled, HealRests, HealLost, HealRefused, HealShort
  <1>3. PanicPauses' /\ NoneZeroed'
    BY <1>2 DEF Quiet, PanicPauses, NoneZeroed
  <1>4. CASE Wakes \/ AsksPositions \/ AsksOrders \/ Guard \/ Judge \/ BurstEnds
    <2>1. UNCHANGED <<lock, queued>>
      BY <1>4 DEF Wakes, AsksPositions, AsksOrders, Guard, Judge, BurstEnds
    <2>2. WatchHolds'
      BY <1>4 DEF Quiet, WatchHolds, Wakes, AsksPositions, AsksOrders, Guard, Judge, BurstEnds
    <2> QED BY <1>2, <1>3, <2>1, <2>2 DEF Quiet, OrdersHeld, NothingOnItsWay
  <1>5. CASE TakesLock
    <2>1. /\ loop = "await" /\ lock[First(mates)] = "free" /\ UNCHANGED <<queued, mates>>
          /\ \/ loop' = "burst" /\ UNCHANGED lock
             \/ loop' = "heal" /\ lock' = [lock EXCEPT ![First(mates)] = "watch"]
      BY <1>5 DEF TakesLock
    <2>2. mates # {} /\ First(mates) \in Runner
      BY <2>1, FirstIsRunner DEF Quiet, WatchHolds
    <2>3. CASE loop' = "burst" /\ UNCHANGED lock
      BY <1>2, <1>3, <2>1, <2>3 DEF Quiet, WatchHolds, OrdersHeld, NothingOnItsWay
    <2>4. CASE loop' = "heal" /\ lock' = [lock EXCEPT ![First(mates)] = "watch"]
      <3>1. /\ lock'[First(mates)] = "watch"
            /\ \A q \in Runner : q # First(mates) => lock'[q] = lock[q]
        BY <1>1, <2>2, <2>4
      <3>2. WatchHolds'  BY <2>1, <2>2, <2>4, <3>1 DEF WatchHolds, First
      <3>3. OrdersHeld'  BY <1>2, <2>1, <3>1 DEF Quiet, OrdersHeld
      <3>4. NothingOnItsWay'  BY <1>2, <2>1, <3>1 DEF Quiet, NothingOnItsWay
      <3> QED BY <1>3, <3>2, <3>3, <3>4 DEF Quiet
    <2> QED BY <2>1, <2>3, <2>4
  <1>6. CASE HealEnds
    <2>1. /\ loop = "heal" /\ loop' = "burst" /\ UNCHANGED queued
          /\ lock' = [lock EXCEPT ![First(mates)] = "free"]
      BY <1>6 DEF HealEnds
    <2>2. First(mates) \in Runner /\ lock[First(mates)] = "watch"
      BY <2>1, FirstIsRunner DEF Quiet, WatchHolds
    <2>3. /\ lock'[First(mates)] = "free"
          /\ \A q \in Runner : q # First(mates) => lock'[q] = lock[q]
      BY <1>1, <2>1, <2>2
    <2>4. OrdersHeld'  BY <1>2, <2>2, <2>3 DEF Quiet, OrdersHeld
    <2>5. NothingOnItsWay'  BY <1>2, <2>1, <2>3 DEF Quiet, NothingOnItsWay
    <2> QED BY <1>3, <2>1, <2>4, <2>5 DEF Quiet, WatchHolds
  <1>7. CASE StartsBurst
    <2>1. UNCHANGED lock /\ loop' = "gather" /\ (paused => queued' = {})
      BY <1>7 DEF StartsBurst
    <2> QED BY <1>2, <1>3, <2>1 DEF Quiet, PanicPauses, WatchHolds, OrdersHeld, NothingOnItsWay
  <1> QED BY <1>4, <1>5, <1>6, <1>7 DEF Loop

LEMMA QuietOthers ==
  ASSUME Quiet, TimerDue \/ BackoffEnds \/ PanicCall \/ Others PROVE Quiet'
  <1> USE DEF op, broker, runner, watch, dog, help, count
  <1>1. CASE PanicStarts
    <2>1. /\ paused' = TRUE /\ panic' = "cancel" /\ UNCHANGED <<lock, order, queued, loop, mates, zeroed>>
          /\ calm' => queued = {} /\ \A r \in Runner : lock[r] # "cycle"
      BY <1>1 DEF PanicStarts, Working
    <2> QED BY <2>1 DEF Quiet, PanicPauses, WatchHolds, OrdersHeld, NothingOnItsWay, NoneZeroed, First, Idle
  <1>2. CASE PanicCall
    <2>1. /\ panic # Idle /\ panic' # Idle /\ UNCHANGED <<lock, order, queued, paused, loop, mates, calm>>
      BY <1>2 DEF PanicCall, PanicCancels, PanicAsks, PanicCloses, PanicZeroes, Idle
    <2> QED BY <2>1 DEF Quiet, PanicPauses, WatchHolds, OrdersHeld, NothingOnItsWay, NoneZeroed, First
  <1>3. CASE TimerDue \/ BackoffEnds \/ (Others /\ ~PanicStarts)
    <2>1. UNCHANGED <<lock, order, queued, paused, loop, mates, panic, zeroed, calm>>
      BY <1>3 DEF TimerDue, BackoffEnds, Others, SquareOffAsks, SquareOffCloses, Switch, OthersTrade, RestEnds
    <2> QED BY <2>1, QuietKept
  <1> QED BY <1>1, <1>2, <1>3 DEF Others

\* A step that moves a zeroed position is the margin breaker's or that of a sync.
LEMMA ZeroedStays ==
  ASSUME TypeOK, Quiet, Next, calm, NEW r \in zeroed, virtual'[r] # virtual[r]
  PROVE  backoff' = "tripped" \/ lock[r] = "sync"
  <1> USE DEF op, broker, runner, watch, dog, help, count
  <1>1. r \in Runner /\ virtual \in [Runner -> Int]  BY DEF TypeOK
  <1>2. panic # Idle /\ queued = {} /\ \A q \in Runner : lock[q] # "cycle"
    BY DEF Quiet, NoneZeroed, NothingOnItsWay
  <1>3. ASSUME NEW q \in Runner, RunnerStep(q) PROVE lock[r] = "sync"
    <2>1. Reported(q)
      BY <1>3 DEF RunnerStep, CycleLeaves, Flip, Sync, Turns, Books, Refuses, Fails
    <2>2. order[q] = "booked" /\ lock[q] = "sync"
      BY <1>2, <2>1 DEF Reported, Quiet, OrdersHeld
    <2>3. q = r
      BY <1>1, <2>1 DEF Reported
    <2> QED BY <2>2, <2>3
  <1>4. CASE Loop
    <2>1. CASE HealEnds
      BY <2>1 DEF HealEnds, HealFilled, HealRests, HealLost, HealRefused, HealShort
    <2>2. CASE ~HealEnds
      BY <1>4, <2>2 DEF Loop, Wakes, AsksPositions, AsksOrders, Guard, Judge, TakesLock, StartsBurst,
                        BurstEnds
    <2> QED BY <2>1, <2>2
  <1>5. CASE PanicCall
    <2>1. PICK q \in Runner : PanicZeroes(q)
      BY <1>5 DEF PanicCall, PanicCancels, PanicAsks, PanicCloses
    <2>2. q # r
      BY <2>1 DEF PanicZeroes
    <2> QED BY <1>1, <2>1, <2>2 DEF PanicZeroes
  <1>6. CASE TimerDue \/ BackoffEnds \/ Others
    BY <1>6 DEF TimerDue, BackoffEnds, Others, PanicStarts, SquareOffAsks, SquareOffCloses, Switch,
                OthersTrade, RestEnds
  <1> QED BY <1>3, <1>4, <1>5, <1>6 DEF Next

LEMMA AlwaysQuiet == Spec => []Quiet
<1>1. Init => Quiet
  BY DEF Init, Quiet, PanicPauses, WatchHolds, OrdersHeld, NothingOnItsWay, NoneZeroed
<1>2. TypeOK /\ Quiet /\ [Next]_vars => Quiet'
  <2>1. CASE UNCHANGED vars
    BY <2>1, QuietKept DEF vars, runner, op, watch, dog, help
  <2> QED BY <2>1, QuietRunnerStep, QuietLoop, QuietOthers DEF Next
<1> QED BY <1>1, <1>2, Types, PTL DEF Spec

\* After a panic that met no order half way no cycle moves a zeroed position, for any
\* number of runners and whatever else happens: panic (client/main.py) takes no
\* runner's lock, but it pauses before it looks, and run_loop looks at the pause.
THEOREM PanicIsLast == Spec => PanicLasts
<1>1. TypeOK /\ Quiet /\ [Next]_vars =>
        [calm => \A r \in zeroed : virtual'[r] # virtual[r] => backoff' = "tripped" \/ lock[r] = "sync"]_vars
  BY ZeroedStays
<1> QED BY <1>1, AlwaysQuiet, Types, PTL DEF Spec, PanicLasts

-----------------------------------------------------------------------------
(* The corrective order *)

\* The loop starts its cycles in its gather and leaves it when the last has ended.
CyclesInGather == loop # "gather" => queued = {} /\ \A r \in Runner : lock[r] # "cycle"

\* The answer the watchdog compares is the broker's position still.
SnapshotHolds == loop \in Compared /\ ~stirred => seen = held

Warranted == CyclesInGather /\ SnapshotHolds /\ HealIsWarranted

\* A step of somebody else either leaves what is compared alone or is remembered.
LEMMA WarrantedStirred ==
  ASSUME Warranted, UNCHANGED dog, Stirs
  PROVE  SnapshotHolds' /\ HealIsWarranted'
  <1>1. UNCHANGED <<loop, mates, seen, heal>>  BY DEF dog
  <1>2. ASSUME loop \in Compared, ~stirred'
        PROVE  ~stirred /\ held' = held /\ (loop = "heal" => virtual' = virtual)
    BY <1>2 DEF Stirs
  <1>3. SnapshotHolds'  BY <1>1, <1>2 DEF Warranted, SnapshotHolds
  <1>4. HealIsWarranted'
    BY <1>1, <1>2 DEF Warranted, HealIsWarranted, Compared, Total
  <1> QED BY <1>3, <1>4

\* A step that touches nothing compared, or one of a cycle, in the gather.
LEMMA WarrantedKept ==
  ASSUME Warranted, UNCHANGED <<loop, mates, seen, heal, stirred>>,
         UNCHANGED <<held, virtual>> \/ loop = "gather"
  PROVE  SnapshotHolds' /\ HealIsWarranted'
  BY DEF Warranted, SnapshotHolds, HealIsWarranted, Compared, Total

LEMMA RunnerStepWarranted ==
  ASSUME TypeOK, Quiet, Warranted, NEW r \in Runner, RunnerStep(r) PROVE Warranted'
  <1> USE DEF op, broker, watch, dog, help, count
  <1>1. lock \in [Runner -> Locks]
    BY TypesAre DEF OpTypes
  <1>2. UNCHANGED <<loop, mates, seen, heal>>
    BY DEF RunnerStep, CycleLeaves, Flip, Sync, Turns, Books, Refuses, Reported, Fails
  <1>3. CyclesInGather'
    <2>1. CASE CycleLeaves(r)
      BY <2>1 DEF CycleLeaves, Warranted, CyclesInGather
    <2>2. ASSUME NEW d \in Direction, NEW who \in {"cycle", "sync"}, Turns(r, d, who),
                 who = "cycle" => r \in queued, queued' \subseteq queued
          PROVE  CyclesInGather'
      <3>1. lock'[r] = who /\ \A q \in Runner : q # r => lock'[q] = lock[q]
        BY <1>1, <2>2 DEF Turns
      <3> QED BY <1>2, <2>2, <3>1 DEF Warranted, CyclesInGather
    <2>3. ASSUME NEW d \in Direction, Flip(r, d) \/ Sync(r, d) PROVE CyclesInGather'
      BY <2>2, <2>3 DEF Flip, Sync
    <2>4. CASE Books(r) \/ Refuses(r)
      BY <1>2, <2>4 DEF Books, Refuses, Warranted, CyclesInGather
    <2>5. CASE Reported(r) \/ Fails(r)
      <3>1. lock' \in {lock, [lock EXCEPT ![r] = "free"]} /\ UNCHANGED queued
        BY <2>5 DEF Reported, Fails, Sends, Leaves
      <3>2. \A q \in Runner : lock'[q] \in {lock[q], "free"}
        BY <1>1, <3>1
      <3> QED BY <1>2, <3>1, <3>2 DEF Warranted, CyclesInGather
    <2> QED BY <2>1, <2>3, <2>4, <2>5 DEF RunnerStep
  <1>4. SnapshotHolds' /\ HealIsWarranted'
    <2>1. CASE UNCHANGED <<held, virtual, stirred>>
      BY <1>2, <2>1, WarrantedKept
    <2>2. CASE (Books(r) \/ Reported(r)) /\ lock[r] = "sync"
      <3>1. UNCHANGED dog /\ Stirs
        BY <2>2 DEF Books, Reported
      <3> QED BY <3>1, WarrantedStirred
    <2>3. CASE (Books(r) \/ Reported(r)) /\ lock[r] # "sync"
      <3>1. order[r] # "none" /\ UNCHANGED stirred
        BY <2>3 DEF Books, Reported
      <3>2. loop = "gather"
        BY <2>3, <3>1 DEF Warranted, Quiet, OrdersHeld, CyclesInGather
      <3> QED BY <1>2, <3>1, <3>2, WarrantedKept
    <2>4. CASE ~Books(r) /\ ~Reported(r)
      <3>1. UNCHANGED <<held, virtual, stirred>>
        BY <2>4 DEF RunnerStep, CycleLeaves, Flip, Sync, Turns, Refuses, Fails
      <3> QED BY <2>1, <3>1
    <2> QED BY <2>2, <2>3, <2>4
  <1> QED BY <1>3, <1>4 DEF Warranted

LEMMA LoopWarranted ==
  ASSUME TypeOK, Warranted, Loop PROVE Warranted'
  <1> USE DEF op, broker, runner, help, count, Warranted, CyclesInGather, SnapshotHolds,
              HealIsWarranted, Compared
  <1>1. lock \in [Runner -> Locks]
    BY TypesAre DEF OpTypes
  <1>2. CASE Wakes  BY <1>2 DEF Wakes
  <1>3. CASE AsksPositions
    <2>1. stirred' = (seen' # held) /\ held' = held /\ loop' = "orders" /\ loop = "positions"
          /\ UNCHANGED <<lock, queued, order>>
      BY <1>3 DEF AsksPositions
    <2> QED BY <2>1
  <1>4. CASE AsksOrders  BY <1>4 DEF AsksOrders
  <1>5. CASE Guard  BY <1>5 DEF Guard
  <1>6. CASE Judge  BY <1>6 DEF Judge
  <1>7. CASE TakesLock
    <2>1. /\ loop = "await" /\ UNCHANGED <<held, virtual, order, queued, mates, seen, stirred>>
          /\ \/ loop' = "burst" /\ UNCHANGED lock
             \/ /\ loop' = "heal" /\ heal' = Total(mates) - seen
                /\ lock' = [lock EXCEPT ![First(mates)] = "watch"] /\ lock[First(mates)] = "free"
      BY <1>7 DEF TakesLock
    <2>2. Total(mates)' = Total(mates)  BY <2>1 DEF Total
    <2>3. \A q \in Runner : lock'[q] \in {lock[q], "watch"} /\ (lock[q] # "free" => lock'[q] = lock[q])
      BY <1>1, <2>1
    <2> QED BY <2>1, <2>2, <2>3
  <1>8. CASE HealEnds
    <2>1. loop' = "burst" /\ loop = "heal" /\ UNCHANGED <<queued, order>>
      BY <1>8 DEF HealEnds
    <2> QED BY <1>1, <1>8, <2>1 DEF HealEnds
  <1>9. CASE StartsBurst  BY <1>9 DEF StartsBurst
  <1>10. CASE BurstEnds  BY <1>10 DEF BurstEnds
  <1> QED BY <1>2, <1>3, <1>4, <1>5, <1>6, <1>7, <1>8, <1>9, <1>10 DEF Loop

LEMMA OtherWarranted ==
  ASSUME Warranted, TimerDue \/ BackoffEnds \/ PanicCall \/ Others PROVE Warranted'
  <1> USE DEF op, broker, runner, watch, help, count
  <1>1. UNCHANGED <<lock, order, queued, loop>>
    BY DEF dog, TimerDue, BackoffEnds, PanicCall, PanicCancels, PanicAsks, PanicCloses, PanicZeroes, Others,
           PanicStarts, SquareOffAsks, SquareOffCloses, Switch, OthersTrade, RestEnds
  <1>2. CASE UNCHANGED dog /\ Stirs
    BY <1>1, <1>2, WarrantedStirred DEF Warranted, CyclesInGather
  <1>3. CASE UNCHANGED <<held, virtual, loop, mates, seen, heal, stirred>>
    BY <1>1, <1>3, WarrantedKept DEF Warranted, CyclesInGather
  <1>4. \/ UNCHANGED dog /\ Stirs
        \/ UNCHANGED <<held, virtual, loop, mates, seen, heal, stirred>>
    <2>1. CASE PanicCall
      <3>1. CASE PanicCancels \/ PanicAsks
        BY <3>1 DEF PanicCancels, PanicAsks, dog
      <3> QED BY <2>1, <3>1 DEF PanicCall, PanicCloses, PanicZeroes
    <2>2. CASE SquareOffCloses \/ RestEnds \/ \E d \in Direction : OthersTrade(d)
      BY <2>2 DEF SquareOffCloses, RestEnds, OthersTrade
    <2>3. CASE TimerDue \/ BackoffEnds \/ PanicStarts \/ SquareOffAsks \/ \E r \in Runner : Switch(r)
      BY <2>3 DEF TimerDue, BackoffEnds, PanicStarts, SquareOffAsks, Switch, dog
    <2> QED BY <2>1, <2>2, <2>3 DEF Others
  <1> QED BY <1>2, <1>3, <1>4

\* The order the watchdog sends brings the broker's position to the target of the
\* runners it counts, unless its query failed or somebody else traded since; for any
\* number of runners and whatever happens: MultiSuperTrendEngine.run_loop runs
\* reconcile_portfolio_drift itself and gathers the cycles it starts.
THEOREM HealsAreWarranted == Spec => []HealIsWarranted
<1>1. Init => Warranted
  BY DEF Init, Warranted, CyclesInGather, SnapshotHolds, HealIsWarranted, Compared
<1>2. TypeOK /\ Quiet /\ Warranted /\ [Next]_vars => Warranted'
  <2>1. CASE UNCHANGED vars
    BY <2>1, WarrantedKept
       DEF vars, runner, op, broker, watch, dog, Warranted, CyclesInGather
  <2> QED BY <2>1, RunnerStepWarranted, LoopWarranted, OtherWarranted DEF Next
<1>3. Warranted => HealIsWarranted  BY DEF Warranted
<1> QED BY <1>1, <1>2, <1>3, Types, AlwaysQuiet, PTL DEF Spec
=============================================================================
