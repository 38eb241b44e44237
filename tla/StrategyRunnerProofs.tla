----------------------- MODULE StrategyRunnerProofs -----------------------
(***************************************************************************)
(* Theorems about StrategyRunner, for any size of the strategy, any freeze *)
(* limit and any number of restarts.                                       *)
(***************************************************************************)
EXTENDS StrategyRunner, TLAPS

----------------------------------------------------------------------------
(* Arithmetic of directions *)

LEMMA Directed ==
  ASSUME NEW d \in Direction, NEW n \in Int
  PROVE  /\ d * n \in Int
         /\ d = 1  => d * n = n
         /\ d = -1 => d * n = -n
         /\ d = 1 \/ d = -1
  BY DEF Direction

LEMMA AbsIsNat ==
  ASSUME NEW n \in Int
  PROVE  Abs(n) \in Nat
  BY DEF Abs

\* An order carries at least one lot, never more than are left of its leg nor
\* than the freeze limit.
LEMMA ChunkBounds ==
  ASSUME TypeOK
  PROVE  /\ Chunk \in Nat
         /\ Chunk <= left
         /\ left > 0 => Chunk > 0
         /\ left <= FreezeLots => Chunk = left
  BY RunnerAssumption DEF RunnerAssumption, TypeOK, Chunk

----------------------------------------------------------------------------
(* Type correctness *)

\* What the leg of a flip or sync has left is what separates the runner's
\* position from flat, or from its full size.
LegInv ==
    /\ task \in {"none", "cycle"} => leg = "none"
    /\ task \in {"flip", "sync"} /\ leg = "exit"  => virtual = -(side * left)
    /\ task \in {"flip", "sync"} /\ leg = "enter" => /\ virtual = side * (Lots - left)
                                                     /\ left <= Lots

\* An operation that ends leaves no leg.
LEMMA EndTypes ==
  ASSUME End
  PROVE  /\ task' = "none" /\ leg' = "none"
         /\ side' \in Direction /\ size' \in Nat /\ left' \in Nat /\ tries' \in 0..3
         /\ LegInv'
  BY DEF End, NoLeg, Direction, LegInv

LEMMA TurnTypes ==
  ASSUME TypeOK, NEW t \in {"flip", "sync"}, NEW d \in Direction, Turn(t, d),
         UNCHANGED virtual
  PROVE  /\ task' = t
         /\ leg' \in {"exit", "enter"}
         /\ side' \in Direction /\ size' \in Nat /\ left' \in Nat /\ tries' = 1
         /\ left' > 0
         /\ LegInv'
<1>1. d = 1 \/ d = -1
  BY DEF Direction
<1>2. virtual \in Int /\ Lots \in Nat
  BY RunnerAssumption DEF RunnerAssumption, TypeOK
<1>3. CASE Opposes(virtual, d) /\ Begin(t, "exit", d, Abs(virtual))
  BY <1>1, <1>2, <1>3 DEF Opposes, Begin, Abs, LegInv, Direction
<1>4. CASE /\ ~Opposes(virtual, d)
           /\ Abs(virtual) < Lots
           /\ Begin(t, "enter", d, Lots - Abs(virtual))
  BY <1>1, <1>2, <1>4 DEF Opposes, Begin, Abs, LegInv, Direction
<1> QED
  BY <1>3, <1>4 DEF Turn

LEMMA MovedIsInt ==
  ASSUME TypeOK
  PROVE  Moved \in Int
  BY ChunkBounds, Directed DEF TypeOK, Moved

\* The variables keep their types, and the legs of flips and syncs add up,
\* whatever the constants: also for orders that time out or vanish.
THEOREM LegsAddUp == Spec => [](TypeOK /\ LegInv)
<1> USE DEF signal, market, switch, legs, order, book, world, Contract, Saved, Fate
<1>1. Init => TypeOK /\ LegInv
  <2> SUFFICES ASSUME Init PROVE TypeOK /\ LegInv
    OBVIOUS
  <2>1. side \in Direction /\ size \in Nat /\ left \in Nat /\ tries \in 0..3 /\ orphan \in Int
    BY DEF Init, Direction
  <2>2. held \in [Contract -> Int] /\ saved \in [lots : Int, contract : Contract]
    BY DEF Init
  <2>3. crashes \in 0..MaxCrashes /\ virtual \in Int
    BY RunnerAssumption DEF RunnerAssumption, Init
  <2>4. LegInv
    BY DEF Init, LegInv
  <2> QED
    BY <2>1, <2>2, <2>3, <2>4 DEF Init, TypeOK
<1>2. TypeOK /\ LegInv /\ [Next]_vars => TypeOK' /\ LegInv'
  <2> SUFFICES ASSUME TypeOK, LegInv, [Next]_vars
               PROVE  TypeOK' /\ LegInv'
    OBVIOUS
  <2>a. Lots \in Nat /\ Fates \subseteq Fate /\ MaxCrashes \in Nat
    BY RunnerAssumption DEF RunnerAssumption
  <2>b. virtual \in Int /\ Abs(virtual) \in Nat /\ AwayFrom(virtual) \in Direction
    BY AbsIsNat DEF TypeOK, AwayFrom, Direction
  <2>c. Moved \in Int /\ Chunk \in Nat
    BY MovedIsInt, ChunkBounds
  <2>d. -side \in Direction
    BY DEF TypeOK, Direction
  <2>1. CASE CandleCloses
    <3>1. taken' \in {"never", "older", "this"} /\ candle' \in {"plain", "flip"}
      BY <2>1 DEF CandleCloses, TypeOK
    <3>2. judged' \in BOOLEAN
      BY <2>1 DEF CandleCloses
    <3> QED
      BY <2>1, <3>1, <3>2 DEF CandleCloses, TypeOK, LegInv
  <2>2. CASE FrontMonthMoves
    BY <2>2 DEF FrontMonthMoves, TypeOK, LegInv
  <2>3. CASE Switch
    BY <2>3 DEF Switch, TypeOK, LegInv
  <2>4. CASE ConfigSaved
    BY <2>4 DEF ConfigSaved, TypeOK, LegInv
  <2>5. CASE Restart
    <3>1. End
      BY <2>5 DEF Restart
    <3>2. orphan' \in Int
      BY <2>5, <2>c, Directed DEF Restart, TypeOK
    <3>3. crashes' \in 0..MaxCrashes
      BY <2>5, <2>a DEF Restart, TypeOK
    <3> QED
      BY <2>5, <3>1, <3>2, <3>3, EndTypes DEF Restart, TypeOK
  <2>6. CASE OrphanEnds
    BY <2>6 DEF OrphanEnds, TypeOK, LegInv
  <2>7. CASE SyncStarts
    BY <2>7, TurnTypes DEF SyncStarts, TypeOK
  <2>8. CASE ResetStarts
    BY <2>8, <2>b DEF ResetStarts, Begin, TypeOK, LegInv
  <2>9. CASE ForceReset
    BY <2>9 DEF ForceReset, TypeOK, LegInv
  <2>10. CASE CycleStarts
    BY <2>10 DEF CycleStarts, TypeOK, LegInv
  <2>11. CASE CycleLeaves
    <3>1. cycle' \in BOOLEAN /\ End
      BY <2>11 DEF CycleLeaves
    <3> QED
      BY <2>11, <3>1, EndTypes DEF CycleLeaves, TypeOK
  <2>12. CASE ContractAgrees
    BY <2>12 DEF ContractAgrees, TypeOK, LegInv
  <2>13. CASE RollStarts
    BY <2>13, <2>b DEF RollStarts, Begin, TypeOK, LegInv
  <2>14. CASE ExpiryStarts
    <3>1. CASE virtual = 0
      <4>1. cycle' \in BOOLEAN /\ enabled' \in BOOLEAN /\ End
        BY <2>14, <3>1 DEF ExpiryStarts
      <4> QED
        BY <2>14, <4>1, EndTypes DEF ExpiryStarts, TypeOK
    <3>2. CASE virtual # 0
      BY <2>14, <3>2, <2>b DEF ExpiryStarts, Begin, TypeOK, LegInv
    <3> QED
      BY <3>1, <3>2
  <2>15. CASE FlipStarts
    BY <2>15, TurnTypes DEF FlipStarts, TypeOK
  <2>16. CASE CandleNoted
    <3>1. cycle' \in BOOLEAN /\ End
      BY <2>16 DEF CandleNoted
    <3> QED
      BY <2>16, <3>1, EndTypes DEF CandleNoted, TypeOK
  <2>17. CASE Send
    BY <2>17 DEF Send, Destination, TypeOK, LegInv
  <2>18. CASE OrderEnds
    BY <2>18, <2>a, <2>c, Directed DEF OrderEnds, TypeOK, LegInv
  <2>19. CASE SliceDone
    BY <2>19, <2>a, <2>c DEF SliceDone, Moved, TypeOK, LegInv, Direction
  <2>20. CASE ExitDone
    <3>1. CASE EntryLeg /\ virtual' = Moved /\ UNCHANGED <<enabled, cycle>>
      <4>1. CASE task \in {"flip", "sync"} /\ Begin(task, "enter", side, Lots)
        <5>1. Moved = 0
          BY <2>20, <2>c, <4>1, Directed DEF ExitDone, Moved, LegInv, TypeOK
        <5>2. virtual' = side' * (Lots - left') /\ left' = Lots
          <6>1. virtual' = 0 /\ side' = side /\ left' = Lots /\ Lots - Lots = 0
            BY <2>a, <3>1, <4>1, <5>1 DEF Begin
          <6>2. side * 0 = 0
            BY Directed DEF TypeOK
          <6> QED
            BY <6>1, <6>2
        <5>3. LegInv'
          BY <2>a, <4>1, <5>2 DEF Begin, LegInv
        <5> QED
          BY <2>20, <2>a, <2>c, <3>1, <4>1, <5>3 DEF ExitDone, Begin, TypeOK
      <4>2. CASE task = "roll" /\ Begin(task, "enter", -side, size)
        BY <2>20, <2>c, <2>d, <3>1, <4>2 DEF ExitDone, Begin, TypeOK, LegInv
      <4> QED
        BY <3>1, <4>1, <4>2 DEF EntryLeg
    <3>2. CASE /\ End
               /\ virtual' = 0
               /\ enabled' = (enabled /\ task = "reset")
               /\ cycle' = (cycle /\ task = "reset")
      BY <2>20, <3>2, EndTypes DEF ExitDone, TypeOK
    <3> QED
      BY <2>20, <3>1, <3>2 DEF ExitDone
  <2>21. CASE EntryDone
    <3>1. side * Lots \in Int
      BY <2>a, Directed DEF TypeOK
    <3>2. CASE End
      <4>1. virtual' \in Int /\ active' \in Contract /\ resolved' \in Contract
        BY <2>21, <2>c, <3>1 DEF EntryDone, TypeOK
      <4>2. taken' \in {"never", "older", "this"} /\ cycle' \in BOOLEAN
        BY <2>21 DEF EntryDone, TypeOK
      <4> QED
        BY <2>21, <3>2, <4>1, <4>2, EndTypes DEF EntryDone, TypeOK
    <3>3. CASE task = "roll" /\ task' = "cycle" /\ NoLeg
      <4>1. virtual' \in Int /\ active' \in Contract /\ resolved' \in Contract
        BY <2>21, <2>c, <3>3 DEF EntryDone, TypeOK
      <4>2. taken' \in {"never", "older", "this"} /\ cycle' \in BOOLEAN
        BY <2>21, <3>3 DEF EntryDone, TypeOK
      <4>3. /\ leg' = "none" /\ side' \in Direction /\ size' \in Nat /\ left' \in Nat
            /\ tries' \in 0..3
        BY <3>3 DEF NoLeg, Direction
      <4> QED
        BY <2>21, <3>3, <4>1, <4>2, <4>3 DEF EntryDone, TypeOK, LegInv
    <3> QED
      BY <2>21, <3>2, <3>3 DEF EntryDone
  <2>22. CASE ExitFails
    <3>1. CASE End
      <4>1. virtual' \in Int /\ saved' \in [lots : Int, contract : Contract]
        BY <2>22 DEF ExitFails, TypeOK
      <4>2. enabled' \in BOOLEAN /\ cycle' \in BOOLEAN
        BY <2>22 DEF ExitFails, TypeOK
      <4> QED
        BY <2>22, <3>1, <4>1, <4>2, EndTypes DEF ExitFails, TypeOK
    <3>2. CASE /\ task \in {"flip", "roll"}
               /\ tries = 1
               /\ Retry(IF task = "flip" THEN Abs(virtual) ELSE size)
               /\ UNCHANGED <<enabled, cycle, virtual, saved>>
      <4>1. left' \in Nat /\ tries' \in 0..3
        BY <2>b, <3>2 DEF Retry, TypeOK
      <4>2. task = "flip" => left' = left
        BY <2>22, <3>2, Directed DEF ExitFails, Retry, LegInv, Abs, TypeOK
      <4> QED
        BY <2>22, <3>2, <4>1, <4>2 DEF ExitFails, Retry, TypeOK, LegInv
    <3> QED
      BY <2>22, <3>1, <3>2 DEF ExitFails
  <2>23. CASE EntryFails
    <3>1. CASE End
      <4>1. /\ virtual' \in Int /\ active' \in Contract /\ resolved' \in Contract
            /\ saved' \in [lots : Int, contract : Contract]
        BY <2>23 DEF EntryFails, TypeOK
      <4>2. enabled' \in BOOLEAN /\ cycle' \in BOOLEAN /\ taken' \in {"never", "older", "this"}
        BY <2>23 DEF EntryFails, TypeOK
      <4> QED
        BY <2>23, <3>1, <4>1, <4>2, EndTypes DEF EntryFails, TypeOK
    <3>2. CASE /\ task = "flip"
               /\ tries = 1
               /\ Retry(Lots - Abs(virtual))
               /\ UNCHANGED <<enabled, cycle, book, resolved, taken>>
      <4>1. Lots - Abs(virtual) = left
        BY <2>23, <2>a, <3>2, Directed DEF EntryFails, LegInv, Abs, TypeOK
      <4>2. left' = left /\ tries' \in 0..3
        BY <3>2, <4>1 DEF Retry, TypeOK
      <4> QED
        BY <2>23, <3>2, <4>2 DEF EntryFails, Retry, TypeOK, LegInv
    <3>3. CASE /\ task = "roll"
               /\ tries < 3
               /\ Retry(size)
               /\ UNCHANGED <<enabled, cycle, book, resolved, taken>>
      <4>1. left' \in Nat /\ tries' \in 0..3
        BY <3>3 DEF Retry, TypeOK
      <4> QED
        BY <2>23, <3>3, <4>1 DEF EntryFails, Retry, TypeOK, LegInv
    <3> QED
      BY <2>23, <3>1, <3>2, <3>3 DEF EntryFails
  <2>24. CASE UNCHANGED vars
    BY <2>24 DEF vars, TypeOK, LegInv
  <2> QED
    BY <2>1, <2>2, <2>3, <2>4, <2>5, <2>6, <2>7, <2>8, <2>9, <2>10, <2>11, <2>12, <2>13,
       <2>14, <2>15, <2>16, <2>17, <2>18, <2>19, <2>20, <2>21, <2>22, <2>23, <2>24
    DEF Next, World, Calls, Cycle, Trade
<1> QED
  BY <1>1, <1>2, PTL DEF Spec

----------------------------------------------------------------------------
(* What a restart finds *)

\* The saved row is the runner's position and contract after every step, whatever
\* becomes of its orders: each branch that changes one writes the other.
THEOREM SavesFollow == Spec => []SavedFollows
<1> USE DEF SavedFollows, signal, market, switch, legs, order, book, world
<1>1. Init => SavedFollows
  BY DEF Init, Saved
<1>2. SavedFollows /\ [Next]_vars => SavedFollows'
  <2> SUFFICES ASSUME SavedFollows, [Next]_vars PROVE SavedFollows'
    OBVIOUS
  <2>0. saved.lots = virtual /\ saved.contract = active
    BY DEF Saved
  <2>1. CASE UNCHANGED book
    BY <2>1
  <2>2. CASE ContractAgrees
    BY <2>2 DEF ContractAgrees
  <2>3. CASE ForceReset
    BY <2>0, <2>3 DEF ForceReset
  <2>4. CASE Restart
    BY <2>0, <2>4 DEF Restart
  <2>5. CASE SliceDone
    BY <2>5 DEF SliceDone
  <2>6. CASE ExitDone
    BY <2>6 DEF ExitDone
  <2>7. CASE EntryDone
    BY <2>7 DEF EntryDone
  <2>8. CASE ExitFails
    BY <2>0, <2>8 DEF ExitFails
  <2>9. CASE EntryFails
    BY <2>9 DEF EntryFails
  <2>10. World => UNCHANGED book \/ Restart
    BY DEF World, CandleCloses, FrontMonthMoves, Switch, ConfigSaved, OrphanEnds
  <2>11. Calls => UNCHANGED book \/ ForceReset
    BY DEF Calls, SyncStarts, ResetStarts
  <2>12. Cycle => UNCHANGED book \/ ContractAgrees
    BY DEF Cycle, CycleStarts, CycleLeaves, RollStarts, ExpiryStarts, FlipStarts, CandleNoted
  <2>13. Trade => UNCHANGED book \/ SliceDone \/ ExitDone \/ EntryDone \/ ExitFails \/ EntryFails
    BY DEF Trade, Send, OrderEnds
  <2> QED
    BY <2>1, <2>2, <2>3, <2>4, <2>5, <2>6, <2>7, <2>8, <2>9, <2>10, <2>11, <2>12, <2>13 DEF Next, vars
<1> QED
  BY <1>1, <1>2, PTL DEF Spec

----------------------------------------------------------------------------
(* The books *)

\* The conditions under which the books can be right: every order is reported as
\* what became of it, no restart catches one at large, and no target is reset by
\* force. If orders can be refused, positions are closed by no reset or expiry,
\* which do not look, and a rollover fits one order. The configurations
\* MCBlindRetry, MCMidOrderCrash, MCResetRefused and MCRollLots show what
\* happens otherwise.
OrdersAreCertain ==
    /\ Fates \subseteq {"filled", "refused"}
    /\ ~MidOrderCrash
    /\ "force" \notin Events
    /\ "refused" \in Fates => /\ Events \cap {"reset", "expiry"} = {}
                              /\ "rollover" \in Events => Lots <= FreezeLots

\* BooksAgree strengthened to be inductive: what is saved is what is in memory,
\* an order is at large only for a leg, what a leg has left is what separates the
\* position from its end, and a rollover that may be refused is one order.
CountInv ==
    /\ leg = "none" => task \in {"none", "cycle"} /\ flight = "none"
    /\ flight \in {"none", "sent"} \cup Fates
    /\ leg # "none" => left > 0
    /\ saved = Saved(virtual, active)
    /\ Abs(virtual) <= Lots
    /\ "rollover" \notin Events => front = "near" /\ active = "near"
    /\ task \in {"reset", "expiry"} => leg = "exit" /\ "refused" \notin Fates
    /\ task \in {"roll", "reset", "expiry"} =>
          /\ size <= Lots /\ left <= size
          /\ leg = "exit"  => virtual = -(side * left)
          /\ leg = "enter" => virtual = side * (size - left)
    /\ task = "roll" /\ "refused" \in Fates => Lots <= FreezeLots /\ left = size
    /\ orphan = 0
    /\ BooksAgree

Sound == TypeOK /\ LegInv /\ CountInv

LEMMA Constants == Lots \in Nat /\ Lots > 0 /\ FreezeLots \in Nat /\ FreezeLots > 0
  BY RunnerAssumption DEF RunnerAssumption

\* Where no operation runs, no order is at large and the position is known.
LEMMA Idle ==
  ASSUME Sound, task \in {"none", "cycle"}
  PROVE  leg = "none" /\ flight = "none" /\ virtual = Total
<1>1. leg = "none" /\ flight = "none"
  BY DEF Sound, LegInv, CountInv
<1>2. virtual + 0 = Total
  BY <1>1 DEF Sound, CountInv, BooksAgree
<1> QED
  BY <1>1, <1>2 DEF Sound, TypeOK

\* A filled order moves the position towards the end of its leg.
LEMMA MovedBounds ==
  ASSUME Sound, leg # "none"
  PROVE  /\ Abs(Moved) <= Lots
         /\ flight = "filled" => Moved = Total
         /\ flight # "filled" => virtual = Total
         /\ leg = "exit"  => Opposes(virtual, side)
         /\ leg = "enter" => ~Opposes(virtual, side) /\ ~Opposes(Moved, side)
         /\ leg = "exit"  /\ Chunk = left => Moved = 0
         /\ leg = "enter" /\ Chunk = left /\ task # "roll" => Moved = side * Lots
<1>1. /\ Chunk \in Nat /\ left \in Nat /\ Chunk <= left /\ Chunk > 0
      /\ virtual \in Int /\ Lots \in Nat /\ Total \in Int /\ Moved \in Int
  BY ChunkBounds, MovedIsInt, Constants DEF Sound, CountInv, TypeOK, Total, Contract
<1>2. /\ leg \in {"exit", "enter"}
      /\ leg = "exit" => virtual = -(side * left)
      /\ leg = "enter" /\ task # "roll" => virtual = side * (Lots - left) /\ left <= Lots
      /\ leg = "enter" /\ task = "roll" => virtual = side * (size - left) /\ left <= size /\ size <= Lots
      /\ Abs(virtual) <= Lots /\ size \in Nat
  BY DEF Sound, LegInv, CountInv, TypeOK
<1>3. side = 1 \/ side = -1
  BY DEF Sound, TypeOK, Direction
<1>4. virtual + (IF flight = "filled" THEN side * Chunk ELSE 0) = Total
  BY DEF Sound, CountInv, BooksAgree
<1>5. CASE side = 1
  BY ONLY <1>1, <1>2, <1>4, <1>5 DEF Moved, Opposes, Abs
<1>6. CASE side = -1
  BY ONLY <1>1, <1>2, <1>4, <1>6 DEF Moved, Opposes, Abs
<1> QED
  BY <1>3, <1>5, <1>6

\* An operation that leaves a position leaves all of it.
LEMMA LeavesAll ==
  ASSUME TypeOK, Abs(virtual) <= Lots, virtual # 0,
         NEW t, Begin(t, "exit", AwayFrom(virtual), Abs(virtual))
  PROVE  /\ task' = t /\ leg' = "exit"
         /\ virtual = -(side' * left') /\ left' = size' /\ size' <= Lots /\ left' > 0
<1>1. left' = Abs(virtual) /\ size' = Abs(virtual) /\ side' = AwayFrom(virtual)
  BY DEF Begin
<1>2. virtual \in Int
  BY DEF TypeOK
<1>3. virtual = -(side' * left') /\ left' > 0
  BY ONLY <1>1, <1>2, virtual # 0 DEF AwayFrom, Abs
<1> QED
  BY <1>1, <1>3 DEF Begin

\* Every step preserves CountInv, given the types and the legs after it.
LEMMA CountStep ==
  ASSUME OrdersAreCertain, Sound, [Next]_vars, TypeOK', LegInv'
  PROVE  CountInv'
<1> USE DEF signal, market, switch, legs, order, book, world
<1>1. TypeOK /\ LegInv /\ CountInv
  BY DEF Sound
<1>2. /\ Lots \in Nat /\ Lots > 0
      /\ virtual \in Int /\ Abs(virtual) \in Nat /\ Abs(0) = 0
      /\ side \in Direction
  BY <1>1, Constants, AbsIsNat DEF TypeOK, Abs
<1>3. UNCHANGED held => Total' = Total
  BY DEF Total
<1>4. /\ flight \in {"none", "sent", "filled", "refused"}
      /\ flight = "refused" => /\ "refused" \in Fates
                               /\ task \notin {"reset", "expiry"}
  BY <1>1 DEF OrdersAreCertain, CountInv
<1>a. CASE CandleCloses
  BY <1>a, <1>1 DEF CandleCloses, CountInv, BooksAgree, Total, Chunk
<1>b. CASE FrontMonthMoves
  BY <1>b, <1>1 DEF FrontMonthMoves, CountInv, BooksAgree, Total, Chunk
<1>c. CASE Switch
  BY <1>c, <1>1 DEF Switch, CountInv, BooksAgree, Total, Chunk
<1>d. CASE ConfigSaved
  BY <1>d, <1>1 DEF ConfigSaved, CountInv, BooksAgree, Total, Chunk
<1>e. CASE Restart
  <2>1. flight = "none" /\ End
    BY <1>e DEF OrdersAreCertain, Restart
  <2>2. virtual = Total
    BY <1>1, <1>2, <2>1 DEF CountInv, BooksAgree
  <2>3. virtual' = virtual /\ active' = active /\ saved' = saved /\ orphan' = 0
    BY <1>e, <1>1, <2>1 DEF Restart, CountInv, Saved
  <2> QED
    BY <1>e, <1>1, <1>2, <1>3, <2>1, <2>2, <2>3 DEF Restart, End, NoLeg, CountInv, BooksAgree
<1>f. CASE OrphanEnds
  BY <1>f, <1>1 DEF OrphanEnds, CountInv
<1>g. CASE SyncStarts \/ FlipStarts
  <2>1. task \in {"none", "cycle"}
    BY <1>g DEF SyncStarts, FlipStarts
  <2>2. flight = "none" /\ virtual = Total
    BY <2>1, Idle
  <2>3. /\ task' \in {"flip", "sync"} /\ leg' \in {"exit", "enter"} /\ left' > 0
    BY <1>g, <1>1, TurnTypes DEF SyncStarts, FlipStarts, TypeOK
  <2>4. UNCHANGED <<flight, virtual, active, saved, held, orphan, front>>
    BY <1>g DEF SyncStarts, FlipStarts
  <2> QED
    BY <1>1, <1>2, <1>3, <2>2, <2>3, <2>4 DEF CountInv, BooksAgree
<1>h. CASE ResetStarts \/ ForceReset \/ ExpiryStarts
  <2>1. "refused" \notin Fates /\ ~ForceReset
    BY <1>h DEF ResetStarts, ForceReset, ExpiryStarts, OrdersAreCertain
  <2>2. flight = "none" /\ virtual = Total
    BY <1>h, <2>1, Idle DEF ResetStarts, ExpiryStarts
  <2>3. UNCHANGED <<flight, virtual, active, saved, held, orphan, front>>
    BY <1>h, <2>1 DEF ResetStarts, ExpiryStarts
  <2>4. CASE End
    BY <1>1, <1>2, <1>3, <2>2, <2>3, <2>4 DEF End, NoLeg, CountInv, BooksAgree
  <2>5. ASSUME NEW t \in {"reset", "expiry"}, virtual # 0,
               Begin(t, "exit", AwayFrom(virtual), Abs(virtual))
        PROVE  CountInv'
    <3>1. /\ task' = t /\ leg' = "exit"
          /\ virtual = -(side' * left') /\ left' = size' /\ size' <= Lots /\ left' > 0
      BY <1>1, <2>5, LeavesAll DEF CountInv
    <3>2. left' <= size'
      BY <1>1, <3>1 DEF TypeOK
    <3> QED
      BY <1>1, <1>2, <1>3, <2>1, <2>2, <2>3, <3>1, <3>2 DEF CountInv, BooksAgree
  <2> QED
    BY <1>h, <2>1, <2>4, <2>5 DEF ResetStarts, ExpiryStarts
<1>i. CASE CycleStarts
  BY <1>i, <1>1 DEF CycleStarts, CountInv, BooksAgree, Total, Chunk
<1>j. CASE CycleLeaves \/ CandleNoted
  <2>1. task \in {"none", "cycle"} /\ End
    BY <1>j DEF CycleLeaves, CandleNoted
  <2>2. flight = "none" /\ virtual = Total
    BY <2>1, Idle
  <2>3. UNCHANGED <<flight, virtual, active, saved, held, orphan, front>>
    BY <1>j DEF CycleLeaves, CandleNoted
  <2> QED
    BY <1>1, <1>2, <1>3, <2>1, <2>2, <2>3 DEF End, NoLeg, CountInv, BooksAgree
<1>k. CASE ContractAgrees
  <2>1. flight = "none" /\ leg = "none" /\ virtual = Total
    BY <1>k, Idle DEF ContractAgrees
  <2>2. saved' = Saved(virtual', active')
    BY <1>k, <1>1 DEF ContractAgrees, CountInv
  <2> QED
    BY <1>k, <1>1, <1>2, <1>3, <2>1, <2>2 DEF ContractAgrees, CountInv, BooksAgree
<1>l. CASE RollStarts
  <2>1. flight = "none" /\ virtual = Total
    BY <1>l, Idle DEF RollStarts
  <2>2. "refused" \in Fates => Lots <= FreezeLots
    BY <1>l, <1>1 DEF RollStarts, CountInv, OrdersAreCertain
  <2>3. /\ task' = "roll" /\ leg' = "exit"
        /\ virtual = -(side' * left') /\ left' = size' /\ size' <= Lots /\ left' > 0
    BY <1>l, <1>1, LeavesAll DEF RollStarts, CountInv
  <2>4. left' <= size'
    BY <2>3 DEF TypeOK
  <2>5. UNCHANGED <<flight, virtual, active, saved, held, orphan, front>>
    BY <1>l DEF RollStarts
  <2> QED
    BY <1>1, <1>2, <1>3, <2>1, <2>2, <2>3, <2>4, <2>5 DEF CountInv, BooksAgree
<1>m. CASE Send
  BY <1>m, <1>1 DEF Send, CountInv, BooksAgree, Total, Chunk
<1>n. CASE OrderEnds
  <2>1. leg # "none" /\ flight = "sent" /\ virtual = Total
    BY <1>n, <1>1, MovedBounds DEF OrderEnds, CountInv, Sound
  <2>2. PICK f \in Fates : /\ flight' = f
                           /\ held' = IF f \in {"filled", "unseen"}
                                      THEN [held EXCEPT ![onto] = @ + side * Chunk]
                                      ELSE held
    BY <1>n DEF OrderEnds
  <2>3. Chunk' = Chunk /\ UNCHANGED <<task, leg, side, size, left, virtual, active, saved, orphan, front>>
    BY <1>n DEF OrderEnds, Chunk
  <2>4. side * Chunk \in Int
    BY <1>1, <1>2, Directed, ChunkBounds
  <2>5. CASE f = "filled"
    <3>1. Total' = Total + side * Chunk
      BY <1>1, <2>2, <2>4, <2>5 DEF TypeOK, Total, Contract
    <3> QED
      BY <1>1, <2>1, <2>2, <2>3, <2>5, <3>1 DEF CountInv, BooksAgree
  <2>6. CASE f = "refused"
    BY <1>1, <1>2, <1>3, <2>1, <2>2, <2>3, <2>6 DEF CountInv, BooksAgree
  <2> QED
    BY <2>2, <2>5, <2>6 DEF OrdersAreCertain
<1>o. CASE SliceDone
  <2>1. leg # "none" /\ flight = "filled" /\ Chunk < left /\ left \in Nat
    BY <1>o, <1>1, <1>4 DEF SliceDone, Accepted, CountInv, TypeOK
  <2>2. Moved = Total /\ Abs(Moved) <= Lots /\ Moved \in Int
    BY <1>1, <2>1, MovedBounds, MovedIsInt
  <2>3. Chunk \in Nat /\ Chunk > 0
    BY <1>1, <2>1, ChunkBounds DEF CountInv
  <2>4. left' = left - Chunk /\ left' > 0 /\ left' \in Nat /\ left' < left
    BY <1>o, <2>1, <2>3 DEF SliceDone
  <2>5. ~(task = "roll" /\ "refused" \in Fates)
    <3> SUFFICES ASSUME task = "roll" /\ "refused" \in Fates PROVE FALSE
      OBVIOUS
    <3>1. left <= FreezeLots
      BY <1>1, <2>1, Constants DEF CountInv, TypeOK
    <3> QED
      BY <1>1, <2>1, <2>3, <3>1, ChunkBounds
  <2>6. task \in {"roll", "reset", "expiry"} =>
          /\ left' <= size
          /\ leg = "exit"  => Moved = -(side * left')
          /\ leg = "enter" => Moved = side * (size - left')
    <3> SUFFICES ASSUME task \in {"roll", "reset", "expiry"}
                 PROVE  /\ left' <= size
                        /\ leg = "exit"  => Moved = -(side * left')
                        /\ leg = "enter" => Moved = side * (size - left')
      OBVIOUS
    <3>1. /\ left <= size /\ size \in Nat
          /\ leg = "exit"  => virtual = -(side * left)
          /\ leg = "enter" => virtual = side * (size - left)
          /\ side = 1 \/ side = -1
      BY <1>1 DEF CountInv, TypeOK, Direction
    <3> QED
      BY ONLY <2>1, <2>3, <2>4, <3>1 DEF Moved
  <2>7. UNCHANGED <<task, leg, side, size, active, front, held, orphan>> /\ virtual' = Moved
        /\ flight' = "none" /\ saved' = Saved(Moved, active)
    BY <1>o DEF SliceDone
  <2> QED
    BY <1>1, <1>3, <2>1, <2>2, <2>4, <2>5, <2>6, <2>7 DEF CountInv, BooksAgree
<1>p. CASE ExitDone
  <2>1. leg = "exit" /\ flight = "filled" /\ Chunk = left
    BY <1>p, <1>1, <1>4 DEF ExitDone, Accepted, CountInv
  <2>2. Moved = 0 /\ Moved = Total
    BY <2>1, MovedBounds
  <2>3. /\ virtual' = 0 /\ saved' = Saved(0, active)
        /\ flight' = "none" /\ UNCHANGED <<active, front, held, orphan>>
    BY <1>p, <2>2 DEF ExitDone
  <2>4. CASE End
    BY <1>1, <1>2, <1>3, <2>2, <2>3, <2>4 DEF End, NoLeg, CountInv, BooksAgree
  <2>5. CASE EntryLeg
    <3>1. /\ task' = task /\ leg' = "enter" /\ left' = size' /\ left' > 0
          /\ task' \in {"flip", "sync", "roll"} /\ (task' = "roll" => size' = size)
      <4>1. left > 0 /\ (task = "roll" => left <= size) /\ left \in Nat /\ size \in Nat
        BY <1>1, <2>1 DEF CountInv, TypeOK
      <4>2. task = "roll" => size > 0
        BY <4>1
      <4> QED
        BY <1>2, <2>5, <4>2 DEF EntryLeg, Begin
    <3>2. left' \in Int /\ side' \in Direction /\ size' \in Nat
      BY DEF TypeOK
    <3>3. side' * (size' - left') = 0 /\ left' <= size'
      <4>1. left' = size' /\ size' \in Nat
        BY <3>1, <3>2
      <4>0. \A n \in Nat : n - n = 0 /\ n <= n
        OBVIOUS
      <4>2. size' - left' = 0 /\ left' <= size'
        BY ONLY <4>0, <4>1, Zenon
      <4>3. side' = 1 \/ side' = -1
        BY <3>2 DEF Direction
      <4> QED
        BY ONLY <4>2, <4>3
    <3>4. task' = "roll" => size' <= Lots /\ ("refused" \in Fates => Lots <= FreezeLots)
      BY <1>1, <3>1 DEF CountInv
    <3> QED
      BY <1>1, <1>2, <1>3, <2>2, <2>3, <3>1, <3>3, <3>4 DEF CountInv, BooksAgree
  <2> QED
    BY <1>p, <2>4, <2>5 DEF ExitDone
<1>q. CASE EntryDone
  <2>1. leg = "enter" /\ flight = "filled" /\ Chunk = left
    BY <1>q, <1>1, <1>4 DEF EntryDone, Accepted, CountInv
  <2>2. Moved = Total /\ Abs(Moved) <= Lots /\ Moved \in Int
    BY <1>1, <2>1, MovedBounds, MovedIsInt
  <2>3. virtual' = Moved
    BY <1>q, <2>1, MovedBounds DEF EntryDone
  <2>4. task' \in {"none", "cycle"} /\ leg' = "none"
    BY <1>q DEF EntryDone, End, NoLeg
  <2>5. "rollover" \notin Events => active' = "near"
    BY <1>q, <1>1 DEF EntryDone, CountInv
  <2> QED
    BY <1>q, <1>1, <1>3, <2>2, <2>3, <2>4, <2>5 DEF EntryDone, CountInv, BooksAgree
<1>r. CASE ExitFails
  <2>1. leg = "exit" /\ flight = "refused"
    BY <1>r, <1>1, <1>4 DEF ExitFails, Failed, CountInv
  <2>2. virtual = Total
    BY <2>1, MovedBounds
  <2>3. virtual' = virtual /\ saved' = saved /\ active' = active
    BY <1>r, <1>1, <1>4, <2>1 DEF ExitFails, CountInv
  <2>4. CASE End
    BY <1>r, <1>1, <1>2, <1>3, <2>2, <2>3, <2>4 DEF ExitFails, End, NoLeg, CountInv, BooksAgree
  <2>5. CASE /\ task \in {"flip", "roll"}
             /\ Retry(IF task = "flip" THEN Abs(virtual) ELSE size)
    <3>1. task = "flip" => left' > 0
      <4>1. side = 1 \/ side = -1
        BY <1>2 DEF Direction
      <4>2. virtual * side < 0
        BY <2>1, MovedBounds DEF Opposes
      <4>3. Abs(virtual) > 0
        BY ONLY <1>2, <4>1, <4>2 DEF Abs
      <4> QED
        BY <2>5, <4>3 DEF Retry
    <3>2. task = "roll" => left' = left
      BY <1>1, <1>4, <2>1, <2>5 DEF Retry, CountInv
    <3>3. left' > 0
      BY <1>1, <2>1, <2>5, <3>1, <3>2 DEF CountInv
    <3> QED
      BY <1>r, <1>1, <1>2, <1>3, <2>1, <2>2, <2>3, <2>5, <3>2, <3>3 DEF ExitFails, Retry, CountInv, BooksAgree
  <2> QED
    BY <1>r, <2>4, <2>5 DEF ExitFails
<1>s. CASE EntryFails
  <2>1. leg = "enter" /\ flight = "refused"
    BY <1>s, <1>1, <1>4 DEF EntryFails, Failed, CountInv
  <2>2. virtual = Total
    BY <2>1, MovedBounds
  <2>2b. task = "roll" => virtual = 0
    <3> SUFFICES ASSUME task = "roll" PROVE virtual = 0
      OBVIOUS
    <3>1. virtual = side * (size - left) /\ left = size /\ left \in Nat
      BY <1>1, <1>4, <2>1 DEF CountInv, TypeOK
    <3>2. size - left = 0
      BY <3>1
    <3> QED
      BY <1>2, <3>1, <3>2, Directed
  <2>3. virtual' = virtual /\ saved' = Saved(virtual', active')
    BY <1>s, <1>1, <1>4, <2>1, <2>2b DEF EntryFails, CountInv
  <2>4. "rollover" \notin Events => active' = "near"
    BY <1>s, <1>1 DEF EntryFails, CountInv
  <2>5. CASE End
    BY <1>s, <1>1, <1>2, <1>3, <2>2, <2>3, <2>4, <2>5 DEF EntryFails, End, NoLeg, CountInv, BooksAgree
  <2>6. CASE task = "flip" /\ Retry(Lots - Abs(virtual))
    <3>1. Lots - Abs(virtual) = left
      <4>1. /\ virtual = side * (Lots - left) /\ left <= Lots /\ left \in Nat
            /\ side = 1 \/ side = -1
        BY <1>1, <2>1, <2>6 DEF LegInv, TypeOK, Direction
      <4> QED
        BY ONLY <1>2, <4>1 DEF Abs
    <3>2. left' > 0
      BY <1>1, <2>1, <2>6, <3>1 DEF Retry, CountInv
    <3> QED
      BY <1>s, <1>1, <1>2, <1>3, <2>1, <2>2, <2>3, <2>4, <2>6, <3>2 DEF EntryFails, Retry, CountInv, BooksAgree
  <2>7. CASE task = "roll" /\ Retry(size)
    BY <1>s, <1>1, <1>2, <1>3, <2>1, <2>2, <2>3, <2>4, <2>7 DEF EntryFails, Retry, CountInv, BooksAgree
  <2> QED
    BY <1>s, <2>5, <2>6, <2>7 DEF EntryFails
<1>t. CASE UNCHANGED vars
  BY <1>t, <1>1 DEF vars, CountInv, BooksAgree, Total, Chunk
<1> QED
  BY <1>a, <1>b, <1>c, <1>d, <1>e, <1>f, <1>g, <1>h, <1>i, <1>j, <1>k, <1>l, <1>m,
     <1>n, <1>o, <1>p, <1>q, <1>r, <1>s, <1>t DEF Next, World, Calls, Cycle, Trade

LEMMA CountHolds == ASSUME OrdersAreCertain PROVE Spec => []Sound
<1>1. Init => CountInv
  BY RunnerAssumption DEF RunnerAssumption, Init, CountInv, BooksAgree, Saved, Abs, Total, Contract
<1>2. OrdersAreCertain /\ Sound /\ [Next]_vars /\ (TypeOK /\ LegInv)' => CountInv'
  BY CountStep
<1> QED
  BY <1>1, <1>2, LegsAddUp, PTL DEF Spec, Sound

\* If orders are certain, the runner's virtual_position, with the one order
\* filled and not yet reported, is the broker's net position: through slices,
\* retries, reversals, rollovers and restarts of any strategy.
THEOREM BooksStayRight == ASSUME OrdersAreCertain PROVE Spec => []BooksAgree
<1>1. Sound => BooksAgree
  BY DEF Sound, CountInv
<1> QED
  BY <1>1, CountHolds, PTL

\* If orders are certain, the broker never holds more than quantity lots.
THEOREM SizeIsKept == ASSUME OrdersAreCertain PROVE Spec => []WithinLots
<1>1. Sound => WithinLots
  <2> SUFFICES ASSUME Sound PROVE WithinLots
    OBVIOUS
  <2>1. CASE leg = "none"
    <3>1. task \in {"none", "cycle"}
      BY <2>1 DEF Sound, CountInv
    <3>2. virtual = Total
      BY <3>1, Idle
    <3> QED
      BY <3>2 DEF Sound, CountInv, WithinLots
  <2>2. CASE leg # "none"
    <3>1. Abs(Moved) <= Lots /\ Abs(virtual) <= Lots
      BY <2>2, MovedBounds DEF Sound, CountInv
    <3>2. Total = Moved \/ Total = virtual
      BY <2>2, MovedBounds
    <3> QED
      BY <3>1, <3>2 DEF WithinLots
  <2> QED
    BY <2>1, <2>2
<1> QED
  BY <1>1, CountHolds, PTL

\* If orders are certain, nothing is held against an entry leg: the exit leg
\* of a reversal is complete at the broker before the first entry order.
THEOREM ExitComesFirst == ASSUME OrdersAreCertain PROVE Spec => []NeverOpposed
<1>1. Sound => NeverOpposed
  <2> SUFFICES ASSUME Sound, leg = "enter" PROVE ~Opposes(Total, side)
    BY DEF NeverOpposed
  <2>1. ~Opposes(virtual, side) /\ ~Opposes(Moved, side)
    BY MovedBounds
  <2>2. Total = Moved \/ Total = virtual
    BY MovedBounds
  <2> QED
    BY <2>1, <2>2
<1> QED
  BY <1>1, CountHolds, PTL

\* If orders are certain, a flip that ends on an accepted order holds the full
\* size in its direction.
THEOREM FlipsComplete == ASSUME OrdersAreCertain PROVE Spec => FlipCompletes
<1>1. Sound /\ [Next]_vars =>
        [task = "flip" /\ task' = "none" /\ flight = "filled" => Total = side * Lots]_vars
  <2> SUFFICES ASSUME Sound, Next, task = "flip", task' = "none", flight = "filled"
               PROVE  Total = side * Lots
    OBVIOUS
  <2>1. CASE EntryDone
    <3>1. leg = "enter" /\ Chunk = left /\ leg # "none"
      BY <2>1 DEF EntryDone
    <3> QED
      BY <3>1, MovedBounds
  <2>2. CASE Restart
    BY <2>2 DEF Restart, OrdersAreCertain
  <2>3. CASE World \/ Calls
    BY <2>2, <2>3 DEF World, Calls, CandleCloses, FrontMonthMoves, Switch, ConfigSaved, OrphanEnds,
                      SyncStarts, ResetStarts, ForceReset, legs, Turn, Begin
  <2>4. CASE Cycle
    BY <2>4 DEF Cycle, CycleStarts, CycleLeaves, ContractAgrees, RollStarts, ExpiryStarts,
                FlipStarts, CandleNoted, legs
  <2>5. CASE Trade
    <3>1. CASE Send
      BY <3>1 DEF Send
    <3>2. CASE OrderEnds
      BY <3>2 DEF OrderEnds
    <3>3. CASE SliceDone
      BY <3>3 DEF SliceDone
    <3>4. CASE ExitDone
      BY <3>4 DEF ExitDone, EntryLeg, Begin
    <3>5. CASE ExitFails
      BY <3>5 DEF ExitFails, Failed
    <3>6. CASE EntryFails
      BY <3>6 DEF EntryFails, Failed
    <3> QED
      BY <2>1, <2>5, <3>1, <3>2, <3>3, <3>4, <3>5, <3>6 DEF Trade
  <2> QED
    BY <2>3, <2>4, <2>5 DEF Next
<1> QED
  BY <1>1, CountHolds, PTL DEF Spec, FlipCompletes

=============================================================================
