------------------------ MODULE SignalPipelineProofs ------------------------
(***************************************************************************)
(* Theorems about SignalPipeline, for any number of signals, symbols,      *)
(* slices and crashes, the last of them that it implements SignalLedger.   *)
(***************************************************************************)
EXTENDS SignalPipeline, TLAPS

----------------------------------------------------------------------------
(* Type correctness *)

\* A dispatch that fails ends in a final status.
LEMMA FailureStatus == \A s \in Signal : Failure(s) \in Final
  BY DEF Failure, Final

\* What may become of a dispatch when a reply, or none, is judged.
Outcome(s) == Advance(s) \/ ((Fail(s) \/ Retry(s)) /\ UNCHANGED placed)

\* However the reply to a request is taken, the locals of the thread keep
\* their types.
LEMMA OutcomeTypes ==
  ASSUME TypeOK, NEW s \in Signal, Outcome(s)
  PROVE  /\ pc' \in [Signal -> Phase]
         /\ attempt' \in [Signal -> {1, 2}]
         /\ placed' \in [Signal -> Nat]
         /\ verdict' \in [Signal -> {"none"} \cup Final]
<1>1. CASE Advance(s)
  <2>1. "done" \in Final
    BY DEF Final
  <2>2. verdict' \in [Signal -> {"none"} \cup Final]
    BY <1>1, <2>1 DEF Advance, TypeOK
  <2>3. pc' \in [Signal -> Phase]
    BY <1>1 DEF Advance, TypeOK, Phase
  <2>4. placed' \in [Signal -> Nat]
    BY <1>1 DEF Advance, TypeOK
  <2> QED
    BY <1>1, <2>2, <2>3, <2>4 DEF Advance, TypeOK
<1>2. CASE Fail(s) /\ UNCHANGED placed
  <2> DEFINE status == Failure(s)
  <2>1. status \in Final
    BY FailureStatus
  <2>2. verdict' = [verdict EXCEPT ![s] = status]
    BY <1>2 DEF Fail
  <2> HIDE DEF status
  <2> QED
    BY <1>2, <2>1, <2>2 DEF Fail, TypeOK, Phase
<1>3. CASE Retry(s) /\ UNCHANGED placed
  BY <1>3 DEF Retry, TypeOK, Phase
<1> QED
  BY <1>1, <1>2, <1>3 DEF Outcome

\* The variables keep their types (the rows, threads and orders of
\* SignalPipeline), whatever the constants.
THEOREM TypeCorrect == Spec => []TypeOK
<1> USE PipelineAssumption DEF PipelineAssumption, TypeOK, Phase, RowStatus, Final, Abandoned, Unfinished,
        OrderStatus, Booked, Slice, Fresh, NoOwners, memory, store, broker
<1>1. Init => TypeOK
  <2> SUFFICES ASSUME Init PROVE TypeOK
    OBVIOUS
  <2>1. pc \in [Signal -> Phase] /\ row \in [Signal -> RowStatus]
    BY DEF Init
  <2>2. verdict \in [Signal -> {"none"} \cup Final]
    BY DEF Init
  <2>3. owner \in [Symbol -> Signal \cup {Nobody}]
    BY DEF Init
  <2>4. order \in [Signal -> [Slice -> OrderStatus]]
    BY DEF Init
  <2>5. booked \in [Signal -> [Slice -> Nat]]
    BY DEF Init
  <2>6. attempt \in [Signal -> {1, 2}] /\ placed \in [Signal -> Nat]
    BY DEF Init
  <2>7. crashes \in 0..MaxCrashes
    BY DEF Init
  <2>8. /\ up \in BOOLEAN /\ paused \in BOOLEAN
        /\ asPaper \subseteq Signal /\ unfinished \subseteq Signal /\ shield \subseteq Hash
    BY DEF Init
  <2> QED
    BY <2>1, <2>2, <2>3, <2>4, <2>5, <2>6, <2>7, <2>8
<1>2. TypeOK /\ [Next]_vars => TypeOK'
  <2> SUFFICES ASSUME TypeOK, [Next]_vars
               PROVE  TypeOK'
    OBVIOUS
  <2>1. ASSUME NEW s \in Signal, Arrive(s)
        PROVE  TypeOK'
    <3>1. CASE Receive(s)
      BY <3>1 DEF Receive
    <3>2. CASE EngineStage(s)
      BY <3>2 DEF EngineStage
    <3> QED
      BY <2>1, <3>1, <3>2 DEF Arrive
  <2>2. ASSUME NEW s \in Signal, Work(s)
        PROVE  TypeOK'
    <3>1. CASE Dismiss(s)
      BY <3>1 DEF Dismiss
    <3>2. CASE Screen(s)
      BY <3>2 DEF Screen, Hash
    <3>3. CASE Stage(s)
      BY <3>3 DEF Stage
    <3>4. CASE Begin(s)
      BY <3>4 DEF Begin
    <3>5. CASE Acquire(s)
      BY <3>5 DEF Acquire
    <3>6. CASE Refuse(s)
      BY <3>6, OutcomeTypes DEF Refuse, Outcome
    <3>7. CASE PaperFill(s)
      BY <3>7 DEF PaperFill
    <3>8. CASE Post(s)
      BY <3>8 DEF Post
    <3>9. CASE PostFails(s)
      BY <3>9, OutcomeTypes DEF PostFails, Outcome
    <3>10. CASE PostDenied(s)
      BY <3>10, OutcomeTypes DEF PostDenied, Outcome
    <3>11. CASE PostAccepted(s)
      BY <3>11, OutcomeTypes DEF PostAccepted, Verify, Outcome
    <3>12. CASE PostGarbled(s)
      BY <3>12, OutcomeTypes DEF PostGarbled, Verify, Outcome
    <3>13. CASE Record(s)
      BY <3>13 DEF Record
    <3>14. CASE Notified(s) \/ NotifyRaises(s)
      BY <3>14 DEF Notified, NotifyRaises, Leaves
    <3> QED
      BY <2>2, <3>1, <3>2, <3>3, <3>4, <3>5, <3>6, <3>7, <3>8, <3>9, <3>10, <3>11,
         <3>12, <3>13, <3>14 DEF Work
  <2>3. ASSUME NEW s \in Signal, Recovery(s)
        PROVE  TypeOK'
    <3>1. CASE Recover(s)
      <4> DEFINE recovered(answer) == RecoveredRow(s, answer)
      <4>1. \A answer : recovered(answer) \in RowStatus
        BY DEF RecoveredRow
      <4>2. PICK answer \in BrokerAnswers(s) :
               row' = [row EXCEPT ![s] = recovered(answer)]
        BY <3>1 DEF Recover
      <4>3. row' \in [Signal -> RowStatus]
        BY <4>1, <4>2
      <4>4. pc' \in [Signal -> Phase] /\ asPaper' \subseteq Signal
        BY <3>1 DEF Recover
      <4> QED
        BY <3>1, <4>3, <4>4 DEF Recover
    <3>2. CASE RecoverStale(s)
      BY <3>2 DEF RecoverStale
    <3> QED
      BY <2>3, <3>1, <3>2 DEF Recovery
  <2>4. ASSUME NEW s \in Signal, NEW k \in Slice,
               BrokerBooks(s, k) \/ RequestDies(s, k) \/ OrderMoves(s, k)
        PROVE  TypeOK'
    <3>1. CASE BrokerBooks(s, k)
      BY <3>1, SMTT(30) DEF BrokerBooks
    <3>2. CASE RequestDies(s, k)
      <4>1. PICK fate \in {"denied", "lost"} : order' = [order EXCEPT ![s][k] = fate]
        BY <3>2 DEF RequestDies
      <4> QED
        BY <3>2, <4>1 DEF RequestDies
    <3>3. CASE OrderMoves(s, k)
      <4>1. PICK st \in Moves(order[s][k]) : order' = [order EXCEPT ![s][k] = st]
        BY <3>3 DEF OrderMoves
      <4>2. st \in OrderStatus
        BY DEF Moves
      <4> QED
        BY <3>3, <4>1, <4>2 DEF OrderMoves
    <3> QED
      BY <2>4, <3>1, <3>2, <3>3
  <2>5. ASSUME NEW s \in Signal, Prune(s)
        PROVE  TypeOK'
    BY <2>5 DEF Prune
  <2>6. ASSUME NEW h \in Hash, ShieldExpires(h)
        PROVE  TypeOK'
    BY <2>6 DEF ShieldExpires
  <2>7. CASE Pause \/ Resume \/ Boot
    BY <2>7 DEF Pause, Resume, Boot
  <2>9. CASE Crash
    <3>1. pc' \in [Signal -> Phase]
      BY <2>9 DEF Crash
    <3>2. verdict' \in [Signal -> {"none"} \cup Final]
      BY <2>9 DEF Crash
    <3>3. owner' \in [Symbol -> Signal \cup {Nobody}]
      BY <2>9 DEF Crash
    <3>4. attempt' \in [Signal -> {1, 2}] /\ placed' \in [Signal -> Nat]
      BY <2>9 DEF Crash
    <3>5. crashes' \in 0..MaxCrashes
      BY <2>9 DEF Crash
    <3> QED
      BY <2>9, <3>1, <3>2, <3>3, <3>4, <3>5 DEF Crash
  <2>8. CASE UNCHANGED vars
    BY <2>8 DEF vars
  <2> QED
    BY <2>1, <2>2, <2>3, <2>4, <2>5, <2>6, <2>7, <2>8, <2>9 DEF Next, Outside
<1> QED
  BY <1>1, <1>2, PTL DEF Spec

----------------------------------------------------------------------------
(* The inductive invariants behind the safety properties *)

\* The column "status" tells which part of its path a signal is on, a thread
\* past Acquire holds its symbol's lock until its notification is dealt with,
\* and recovery only has rows in hand that no thread works on.
Tracked(s) ==
    /\ pc[s] \in {"idle", "screen", "stage"} => row[s] = "none"
    /\ pc[s] = "queued" => row[s] \in Unfinished
    /\ pc[s] \in {"locking", "ready", "awaiting", "record"} => row[s] = "processing"
    /\ pc[s] \in {"ready", "awaiting", "record", "notify"} => owner[SymbolOf[s]] = s
    /\ pc[s] = "record" => verdict[s] \in Final
    /\ pc[s] = "notify" => row[s] \in Final \cup {"pruned"}
    /\ s \in unfinished => up /\ pc[s] = "over" /\ row[s] \in Unfinished
    /\ ~up => pc[s] \in {"idle", "over"}

TrackInv == TypeOK /\ \A s \in Signal : Tracked(s)

\* A slice is free to be sent when no request for it can still be booked.
Free(s, k) == order[s][k] \in {"unsent", "denied"}

\* Orders are counted by their state; nothing is sent before the row is
\* "processing", and a thread sends its slices in order, each of them once
\* unless the broker denied it.
Counted(s) ==
    /\ \A k \in Slice : /\ order[s][k] # "odd"
                        /\ booked[s][k] = IF IsBooked(s, k) THEN 1 ELSE 0
    /\ row[s] \in {"none", "pending"} => \A k \in Slice : order[s][k] = "unsent"
    /\ pc[s] = "queued" => row[s] = "pending"
    /\ pc[s] = "locking" => \A k \in Slice : Free(s, k)
    /\ pc[s] \notin {"ready", "awaiting", "record"} => placed[s] = 0
    /\ pc[s] \in {"ready", "awaiting"} => placed[s] < SlicesOf[s]
    /\ pc[s] = "ready" => \A k \in Slice : k > placed[s] => Free(s, k)
    /\ pc[s] = "awaiting" => \A k \in Slice : k > placed[s] + 1 => Free(s, k)

CountInv == TrackInv /\ \A s \in Signal : Counted(s)

\* With a reference of its own, a signal is only advanced, judged and recorded
\* as done on the strength of its own orders.
Backed(s) ==
    /\ verdict[s] # "none" => pc[s] = "record"
    /\ UniqueRef(s) =>
         /\ \A k \in Slice : k <= placed[s] => IsBooked(s, k)
         /\ verdict[s] = "done" => IsBooked(s, 1)
         /\ row[s] = "done" => IsBooked(s, 1)

BackInv == CountInv /\ \A s \in Signal : Backed(s)

----------------------------------------------------------------------------
(* Locking, and the finality of verdicts *)

\* TrackInv is preserved by the steps of a thread.
LEMMA TrackWork ==
  ASSUME TrackInv, TypeOK', NEW s \in Signal, Work(s)
  PROVE  TrackInv'
<1> SUFFICES ASSUME NEW t \in Signal
             PROVE  Tracked(t)'
  BY DEF TrackInv
<1> USE PipelineAssumption DEF PipelineAssumption, TrackInv, TypeOK, Tracked, memory, store, broker
<1>1. CASE Dismiss(s)
  BY <1>1 DEF Dismiss
<1>2. CASE Screen(s)
  BY <1>2 DEF Screen
<1>3. CASE Stage(s)
  BY <1>3 DEF Stage, Unfinished
<1>4. CASE Begin(s)
  BY <1>4 DEF Begin, Unfinished
<1>5. CASE Acquire(s)
  BY <1>5 DEF Acquire
<1>6. CASE Post(s)
  BY <1>6 DEF Post
<1>7. CASE Record(s)
  BY <1>7 DEF Record
<1>8. CASE PaperFill(s)
  BY <1>8 DEF PaperFill, Final
<1>10. CASE Notified(s) \/ NotifyRaises(s)
  BY <1>10 DEF Notified, NotifyRaises, Leaves
<1>9. CASE Refuse(s) \/ PostFails(s) \/ PostDenied(s) \/ PostAccepted(s) \/ PostGarbled(s)
  <2>1. pc[s] \in {"ready", "awaiting"} /\ UNCHANGED <<up, owner, unfinished, row>>
    BY <1>9 DEF Refuse, PostFails, PostDenied, PostAccepted, PostGarbled
  <2>2. Outcome(s)
    BY <1>9 DEF Refuse, PostFails, PostDenied, PostAccepted, PostGarbled, Verify, Outcome
  <2>3. \/ pc' = [pc EXCEPT ![s] = "ready"] /\ verdict' = verdict
        \/ /\ pc' = [pc EXCEPT ![s] = "record"]
           /\ \E v \in Final : verdict' = [verdict EXCEPT ![s] = v]
    <3>1. CASE Advance(s)
      <4>1. "done" \in Final
        BY DEF Final
      <4> QED
        BY <3>1, <4>1, Zenon DEF Advance
    <3>2. CASE Fail(s)
      BY <3>2, FailureStatus, Zenon DEF Fail
    <3>3. CASE Retry(s)
      BY <3>3, Zenon DEF Retry
    <3> QED
      BY <2>2, <3>1, <3>2, <3>3 DEF Outcome
  <2> QED
    BY <2>1, <2>3
<1> QED
  BY <1>1, <1>2, <1>3, <1>4, <1>5, <1>6, <1>7, <1>8, <1>9, <1>10 DEF Work

\* TrackInv is inductive.
LEMMA TrackStep == TrackInv /\ TypeOK' /\ [Next]_vars => TrackInv'
<1> SUFFICES ASSUME TrackInv, TypeOK', [Next]_vars
             PROVE  TrackInv'
  OBVIOUS
<1> USE PipelineAssumption DEF PipelineAssumption, TrackInv, TypeOK, Tracked, memory, store, broker
<1>1. ASSUME NEW s \in Signal, Work(s)
      PROVE  TrackInv'
  BY <1>1, TrackWork
<1>2. ASSUME NEW s \in Signal, Arrive(s)
      PROVE  TrackInv'
  BY <1>2 DEF Arrive, Receive, EngineStage, Unfinished
<1>3. ASSUME NEW s \in Signal, Recover(s)
      PROVE  TrackInv'
  <2>1. row' = [row EXCEPT ![s] = row'[s]]
    BY <1>3 DEF Recover
  <2> QED
    BY <1>3, <2>1 DEF Recover
<1>4. ASSUME NEW s \in Signal, RecoverStale(s)
      PROVE  TrackInv'
  BY <1>4 DEF RecoverStale
<1>5. ASSUME NEW s \in Signal, Prune(s)
      PROVE  TrackInv'
  BY <1>5 DEF Prune, Final, Abandoned, Unfinished
<1>6. ASSUME NEW s \in Signal, Outside(s)
      PROVE  TrackInv'
  BY <1>6 DEF Outside, BrokerBooks, RequestDies, OrderMoves
<1>7. CASE Crash
  BY <1>7 DEF Crash
<1>8. CASE Boot
  BY <1>8 DEF Boot, Unfinished
<1>9. ASSUME \/ Pause \/ Resume \/ \E h \in Hash : ShieldExpires(h)
             \/ UNCHANGED vars
      PROVE  TrackInv'
  BY <1>9 DEF Pause, Resume, ShieldExpires, vars
<1> QED
  BY <1>1, <1>2, <1>3, <1>4, <1>5, <1>6, <1>7, <1>8, <1>9 DEF Next, Recovery

THEOREM Tracking == Spec => []TrackInv
<1>1. Init /\ TypeOK => TrackInv
  BY DEF Init, TrackInv, Tracked, Fresh, NoOwners
<1> QED
  BY <1>1, TrackStep, TypeCorrect, PTL DEF Spec

\* Mutual exclusion of order exchanges on a symbol, for any number of threads.
THEOREM Exclusion == Spec => []OneExchangePerSymbol
<1>1. TrackInv => OneExchangePerSymbol
  BY DEF TrackInv, Tracked, OneExchangePerSymbol
<1> QED
  BY <1>1, Tracking, PTL

\* Once written, a verdict is followed by no request, and it is not revised
\* but by its own thread, which still holds the symbol lock: recovery, other
\* threads and later boots leave it alone until it is pruned.
THEOREM Finality == Spec => VerdictIsFinal
<1> DEFINE Revised(t) == row'[t] = "failed" /\ pc[t] = "notify" /\ owner[SymbolOf[t]] = t
           Kept == \A t \in Signal :
                      row[t] \in Final =>
                         ~Post(t) /\ (row'[t] \in {row[t], "pruned"} \/ Revised(t))
<1>2. ASSUME Kept
      PROVE  \A s \in Signal :
                row[s] \in Final =>
                   /\ ~Post(s)
                   /\ row'[s] \in {row[s], "pruned"}
                      \/ /\ row'[s] = "failed" /\ pc[s] = "notify"
                         /\ owner[SymbolOf[s]] = s
  BY <1>2
<1>1. TrackInv /\ [Next]_vars => [Kept]_vars
  <2> SUFFICES ASSUME TrackInv, [Next]_vars, NEW t \in Signal, row[t] \in Final
               PROVE  ~Post(t) /\ (row'[t] \in {row[t], "pruned"} \/ Revised(t))
    OBVIOUS
  <2> USE DEF TrackInv, TypeOK, Tracked, memory, store, broker
  <2>1. row[t] \notin {"none", "pending", "processing"}
    BY DEF Final, Abandoned
  <2>2. ~Post(t)
    BY <2>1 DEF Post
  <2>3. ASSUME NEW s \in Signal, Work(s), ~NotifyRaises(s)
        PROVE  row'[t] = row[t]
    BY <2>1, <2>3 DEF Work, Dismiss, Screen, Stage, Begin, Acquire, Refuse, PaperFill,
       Post, PostFails, PostDenied, PostAccepted, PostGarbled, Record, Notified, Unfinished
  <2>9. ASSUME NEW s \in Signal, NotifyRaises(s)
        PROVE  row'[t] = row[t] \/ Revised(t)
    BY <2>9 DEF NotifyRaises, Final, Abandoned
  <2>4. ASSUME NEW s \in Signal, Arrive(s)
        PROVE  row'[t] = row[t]
    BY <2>1, <2>4 DEF Arrive, Receive, EngineStage
  <2>5. ASSUME NEW s \in Signal, Recovery(s)
        PROVE  row'[t] = row[t]
    <3>1. s # t
      BY <2>1, <2>5 DEF Recovery, Recover, RecoverStale, Unfinished
    <3> QED
      BY <2>5, <3>1 DEF Recovery, Recover, RecoverStale
  <2>6. ASSUME NEW s \in Signal, Outside(s)
        PROVE  row'[t] = row[t]
    BY <2>6 DEF Outside, BrokerBooks, RequestDies, OrderMoves
  <2>7. ASSUME NEW s \in Signal, Prune(s)
        PROVE  row'[t] \in {row[t], "pruned"}
    BY <2>7 DEF Prune
  <2>8. ASSUME \/ Pause \/ Resume \/ Crash \/ Boot
               \/ \E h \in Hash : ShieldExpires(h)
               \/ UNCHANGED vars
        PROVE  row'[t] = row[t]
    BY <2>8 DEF Pause, Resume, Crash, Boot, ShieldExpires, vars
  <2> QED
    BY <2>2, <2>3, <2>4, <2>5, <2>6, <2>7, <2>8, <2>9 DEF Next
<1> QED
  BY <1>1, <1>2, Tracking, PTL DEF Spec, VerdictIsFinal

----------------------------------------------------------------------------
(* At most one order per slice *)

\* A broker that only reports mapped statuses: Moves never leads to "odd".
LEMMA MappedMoves ==
  ASSUME OddStatus = FALSE, NEW a
  PROVE  /\ Moves(a) \subseteq Booked \ {"odd"}
         /\ Moves(a) # {} => a \in Booked
  BY DEF Moves, Booked

\* CountInv is preserved by the steps of a thread.
LEMMA CountWork ==
  ASSUME CountInv, TrackInv', NEW s \in Signal, Work(s)
  PROVE  CountInv'
<1> SUFFICES ASSUME NEW t \in Signal
             PROVE  Counted(t)'
  BY DEF CountInv
<1> USE PipelineAssumption DEF PipelineAssumption, CountInv, TrackInv, TypeOK, Tracked, Counted,
        IsBooked, Free, memory, store, broker
<1>1. CASE Dismiss(s)
  BY <1>1 DEF Dismiss
<1>2. CASE Screen(s)
  BY <1>2 DEF Screen
<1>3. CASE Stage(s)
  BY <1>3 DEF Stage
<1>4. CASE Begin(s)
  BY <1>4 DEF Begin
<1>5. CASE Acquire(s)
  BY <1>5 DEF Acquire
<1>6. CASE Post(s)
  <2> DEFINE k0 == placed[s] + 1
  <2>1. k0 \in Slice /\ SlicesOf[s] \in Nat
    BY <1>6 DEF Post, Slice
  <2>2. Free(s, k0) /\ booked[s][k0] = 0
    <3>1. pc[s] = "ready" /\ k0 > placed[s]
      BY <1>6, <2>1 DEF Post
    <3>2. Free(s, k0)
      BY <2>1, <3>1
    <3>3. ~IsBooked(s, k0)
      BY <3>2 DEF Booked
    <3> QED
      BY <2>1, <3>2, <3>3
  <2>3. order' = [order EXCEPT ![s][k0] = "flying"]
    BY <1>6 DEF Post
  <2>4. CASE t # s
    BY <1>6, <2>3, <2>4 DEF Post
  <2>5. CASE t = s
    <3>1. \A k \in Slice : order'[s][k] = IF k = k0 THEN "flying" ELSE order[s][k]
      BY <2>1, <2>3
    <3>2. \A k \in Slice : /\ order'[s][k] # "odd"
                           /\ booked'[s][k] = IF IsBooked(s, k)' THEN 1 ELSE 0
      BY <1>6, <2>2, <3>1 DEF Post, Booked
    <3>3. \A k \in Slice : k > placed[s] + 1 => order'[s][k] = order[s][k] /\ k > placed[s]
      <4> DEFINE n == placed[s]
      <4>1. n \in Nat
        OBVIOUS
      <4> HIDE DEF n
      <4>2. \A k \in Slice : k > n + 1 => k # n + 1 /\ k > n
        BY <4>1 DEF Slice
      <4> QED
        BY <3>1, <4>2 DEF n
    <3>4. row'[s] = "processing" /\ pc'[s] = "awaiting" /\ placed' = placed
      BY <1>6 DEF Post
    <3> QED
      BY <1>6, <2>5, <3>2, <3>3, <3>4 DEF Post
  <2> QED
    BY <2>4, <2>5
<1>7. CASE Record(s)
  <2>1. verdict[s] \notin {"none", "pending"}
    BY <1>7 DEF Record, Final, Abandoned
  <2>2. CASE t # s
    BY <1>7, <2>2 DEF Record
  <2>3. CASE t = s
    <3>1. row'[s] \notin {"none", "pending"} /\ pc'[s] = "notify" /\ placed'[s] = 0
      BY <1>7, <2>1 DEF Record
    <3> QED
      BY <1>7, <2>3, <3>1 DEF Record
  <2> QED
    BY <2>2, <2>3
<1>8. CASE PaperFill(s)
  BY <1>8 DEF PaperFill
<1>13. CASE Notified(s) \/ NotifyRaises(s)
  <2>1. pc[s] = "notify" /\ Leaves(s)
    BY <1>13 DEF Notified, NotifyRaises
  <2>2. row[s] \notin {"none", "pending"} /\ placed[s] = 0
    BY <2>1 DEF Final, Abandoned
  <2>3. row'[s] \notin {"none", "pending"}
    BY <1>13, <2>2 DEF Notified, NotifyRaises
  <2>4. \A u \in Signal \ {s} : row'[u] = row[u] /\ pc'[u] = pc[u]
    BY <1>13, <2>1 DEF Notified, NotifyRaises, Leaves
  <2>5. UNCHANGED <<placed, order, booked>> /\ pc'[s] = "over"
    BY <2>1 DEF Leaves
  <2> QED
    BY <2>2, <2>3, <2>4, <2>5
<1>9. CASE Refuse(s)
  BY <1>9 DEF Refuse, Fail, Retry
<1>10. CASE PostFails(s)
  BY <1>10 DEF PostFails, Fail
<1>11. CASE PostDenied(s)
  <2>1. CASE Fail(s)
    BY <1>11, <2>1 DEF PostDenied, Fail
  <2>2. CASE Retry(s)
    <3>1. \A k \in Slice : k > 0 => k = 1 \/ k > 1
      BY DEF Slice
    <3>2. \A k \in Slice : k > placed[s] => Free(s, k)
      BY <1>11, <2>2, <3>1 DEF PostDenied, Retry
    <3>3. placed[s] = 0 /\ SlicesOf[s] > 0 /\ row' = row /\ pc'[s] = "ready"
      BY <1>11, <2>2 DEF PostDenied, Retry
    <3> QED
      BY <1>11, <2>2, <3>2, <3>3 DEF PostDenied, Retry
  <2> QED
    BY <1>11, <2>1, <2>2 DEF PostDenied
<1>12. CASE PostAccepted(s) \/ PostGarbled(s)
  <2>1. /\ pc[s] = "awaiting"
        /\ UNCHANGED <<row, order, booked>>
        /\ Advance(s) \/ (Fail(s) /\ UNCHANGED placed)
    BY <1>12 DEF PostAccepted, PostGarbled, Verify
  <2>2. CASE Fail(s) /\ UNCHANGED placed
    BY <2>1, <2>2 DEF Fail
  <2>3. CASE Advance(s)
    <3>1. placed[s] \in Nat /\ SlicesOf[s] \in Nat /\ placed[s] < SlicesOf[s]
      BY <2>1
    <3>2. placed' = [placed EXCEPT ![s] = placed[s] + 1]
      BY <2>3 DEF Advance
    <3>3. \/ pc' = [pc EXCEPT ![s] = "record"]
          \/ pc' = [pc EXCEPT ![s] = "ready"] /\ placed[s] + 1 # SlicesOf[s]
      BY <2>3 DEF Advance
    <3>4. CASE t # s
      BY <2>1, <3>2, <3>3, <3>4
    <3>5. CASE t = s
      <4>1. /\ placed'[s] = placed[s] + 1 /\ placed'[s] \in Nat
            /\ pc'[s] \in {"ready", "record"}
            /\ pc'[s] = "ready" => placed'[s] # SlicesOf[s]
        BY <3>2, <3>3
      <4>2. pc'[s] = "ready" => placed'[s] < SlicesOf[s]
        BY ONLY <3>1, <4>1
      <4>3. \A k \in Slice : k > placed'[s] => Free(s, k)
        BY <2>1, <4>1
      <4> QED
        BY <2>1, <3>5, <4>1, <4>2, <4>3
    <3> QED
      BY <3>4, <3>5
  <2> QED
    BY <2>1, <2>2, <2>3
<1> QED
  BY <1>1, <1>2, <1>3, <1>4, <1>5, <1>6, <1>7, <1>8, <1>9, <1>10, <1>11, <1>12,
     <1>13 DEF Work

\* CountInv is inductive, if the broker's statuses are all mapped.
LEMMA CountStep ==
  ASSUME OddStatus = FALSE
  PROVE  CountInv /\ TrackInv' /\ [Next]_vars => CountInv'
<1> SUFFICES ASSUME CountInv, TrackInv', [Next]_vars
             PROVE  CountInv'
  OBVIOUS
<1> USE PipelineAssumption DEF PipelineAssumption, CountInv, TrackInv, TypeOK, Tracked, Counted,
        IsBooked, Free, memory, store, broker
<1>1. ASSUME NEW s \in Signal, Work(s)
      PROVE  CountInv'
  BY <1>1, CountWork
<1>2. ASSUME NEW s \in Signal, Arrive(s)
      PROVE  CountInv'
  BY <1>2 DEF Arrive, Receive, EngineStage
<1>3. ASSUME NEW s \in Signal, Recover(s)
      PROVE  CountInv'
  <2>1. PICK answer \in BrokerAnswers(s) :
           /\ row' = [row EXCEPT ![s] = RecoveredRow(s, answer)]
           /\ IF row'[s] \in Unfinished
              THEN pc' = [pc EXCEPT ![s] = "queued"]
              ELSE UNCHANGED pc
    BY <1>3 DEF Recover
  <2>2. answer \in (Booked \ {"odd"}) \cup {"NOT_FOUND", "NETWORK_ERROR"}
    <3>1. 1 \in Slice
      BY DEF Slice
    <3>2. \A u \in Signal : order[u][1] # "odd"
      BY <3>1
    <3> QED
      BY <3>2 DEF BrokerAnswers, Reports
  <2>3. row[s] \in {"pending", "processing"}
    BY <1>3 DEF Recover, Unfinished
  <2>4. /\ RecoveredRow(s, answer) \in Unfinished => RecoveredRow(s, answer) = "pending"
        /\ RecoveredRow(s, answer) = "pending" => row[s] = "pending"
        /\ RecoveredRow(s, answer) # "none"
    BY <2>2, <2>3, SMTT(30) DEF RecoveredRow, Booked, Unfinished
  <2> DEFINE closed == RecoveredRow(s, answer)
  <2> HIDE DEF closed
  <2>5. /\ row'[s] # "none"
        /\ row'[s] \in Unfinished => row'[s] = "pending"
        /\ row'[s] = "pending" => row[s] = "pending"
        /\ \A t \in Signal : t # s => row'[t] = row[t] /\ pc'[t] = pc[t]
        /\ pc'[s] = IF row'[s] \in Unfinished THEN "queued" ELSE pc[s]
    BY <2>1, <2>4 DEF closed
  <2> QED
    BY <1>3, <2>5 DEF Recover, Unfinished
<1>4. ASSUME NEW s \in Signal, RecoverStale(s)
      PROVE  CountInv'
  BY <1>4 DEF RecoverStale
<1>5. ASSUME NEW s \in Signal, Prune(s)
      PROVE  CountInv'
  BY <1>5 DEF Prune, Final, Abandoned
<1>6. ASSUME NEW s \in Signal, NEW k \in Slice, BrokerBooks(s, k)
      PROVE  CountInv'
  BY <1>6 DEF BrokerBooks, Booked
<1>7. ASSUME NEW s \in Signal, NEW k \in Slice, RequestDies(s, k)
      PROVE  CountInv'
  <2>1. PICK fate \in {"denied", "lost"} : order' = [order EXCEPT ![s][k] = fate]
    BY <1>7 DEF RequestDies
  <2> QED
    BY <1>7, <2>1 DEF RequestDies, Booked
<1>8. ASSUME NEW s \in Signal, NEW k \in Slice, OrderMoves(s, k)
      PROVE  CountInv'
  <2>1. PICK a \in Moves(order[s][k]) : order' = [order EXCEPT ![s][k] = a]
    BY <1>8 DEF OrderMoves
  <2>2. a \in Booked /\ a # "odd" /\ order[s][k] \in Booked
    BY ONLY OddStatus = FALSE, a \in Moves(order[s][k]), MappedMoves, ZenonT(30)
  <2> QED
    BY <1>8, <2>1, <2>2 DEF OrderMoves, Booked
<1>9. CASE Crash
  BY <1>9 DEF Crash, Fresh
<1>10. ASSUME \/ Pause \/ Resume \/ Boot \/ \E h \in Hash : ShieldExpires(h)
              \/ UNCHANGED vars
       PROVE  CountInv'
  BY <1>10 DEF Pause, Resume, Boot, ShieldExpires, vars
<1> QED
  BY <1>1, <1>2, <1>3, <1>4, <1>5, <1>6, <1>7, <1>8, <1>9, <1>10 DEF Next, Recovery, Outside

\* Orders are counted by their states, always.
LEMMA Counting ==
  ASSUME OddStatus = FALSE
  PROVE  Spec => []CountInv
<1>1. Init /\ TrackInv => CountInv
  BY DEF Init, CountInv, Counted, IsBooked, Booked, Free, Fresh
<1>2. CountInv /\ TrackInv' /\ [Next]_vars => CountInv'
  BY CountStep
<1> QED
  BY <1>1, <1>2, Tracking, PTL DEF Spec

\* The broker never books two orders for one slice, whatever is retried, lost
\* or recovered, provided it reports no status outside XTS_STATUS_CODE_MAP.
THEOREM AtMostOneOrder ==
  ASSUME OddStatus = FALSE
  PROVE  Spec => []OneOrderPerSlice
<1>1. CountInv => OneOrderPerSlice
  BY DEF CountInv, Counted, OneOrderPerSlice
<1> QED
  BY <1>1, Counting, PTL

----------------------------------------------------------------------------
(* A signal recorded as done has its order at the broker *)

\* An order the broker has booked stays booked, unless its slice is posted
\* again.
LEMMA BookedStays ==
  ASSUME CountInv, NEW t \in Signal, NEW j \in Slice, IsBooked(t, j), [Next]_vars,
         OddStatus = FALSE
  PROVE  IsBooked(t, j)'
<1> USE PipelineAssumption DEF PipelineAssumption, CountInv, TrackInv, TypeOK, IsBooked, memory, store, broker
<1>1. ASSUME NEW s \in Signal, Work(s), ~Post(s)
      PROVE  order' = order
  BY <1>1 DEF Work, Dismiss, Screen, Stage, Begin, Acquire, Refuse, PaperFill, PostFails,
     PostDenied, PostAccepted, PostGarbled, Record, Notified, NotifyRaises, Leaves
<1>2. ASSUME NEW s \in Signal, Post(s)
      PROVE  IsBooked(t, j)'
  <2>1. s = t => j # placed[s] + 1
    <3>1. pc[s] = "ready" /\ placed[s] + 1 > placed[s]
      BY <1>2 DEF Post
    <3>2. placed[s] + 1 \in Slice => Free(s, placed[s] + 1)
      BY <3>1 DEF Counted
    <3> QED
      BY <3>2 DEF Free, Booked
  <2> QED
    BY <1>2, <2>1 DEF Post
<1>3. ASSUME NEW s \in Signal, Arrive(s) \/ Recovery(s) \/ Prune(s)
      PROVE  order' = order
  BY <1>3 DEF Arrive, Receive, EngineStage, Recovery, Recover, RecoverStale, Prune
<1>4. ASSUME NEW s \in Signal, NEW k \in Slice, BrokerBooks(s, k) \/ RequestDies(s, k)
      PROVE  IsBooked(t, j)'
  <2>1. order[s][k] \notin Booked /\ \E a : order' = [order EXCEPT ![s][k] = a]
    BY <1>4 DEF BrokerBooks, RequestDies, Booked
  <2> QED
    BY <2>1
<1>5. ASSUME NEW s \in Signal, NEW k \in Slice, OrderMoves(s, k)
      PROVE  IsBooked(t, j)'
  <2>1. PICK a \in Moves(order[s][k]) : order' = [order EXCEPT ![s][k] = a]
    BY <1>5 DEF OrderMoves
  <2>2. a \in Booked
    BY <2>1, MappedMoves
  <2> QED
    BY <2>1, <2>2
<1>6. ASSUME \/ Pause \/ Resume \/ Boot \/ Crash \/ \E h \in Hash : ShieldExpires(h)
             \/ UNCHANGED vars
      PROVE  order' = order
  BY <1>6 DEF Pause, Resume, Boot, Crash, ShieldExpires, vars
<1> QED
  BY <1>1, <1>2, <1>3, <1>4, <1>5, <1>6 DEF Next, Outside

\* With a reference of its own, the reports for a slice are of its own order.
LEMMA OwnReports ==
  ASSUME NEW s \in Signal, NEW k \in Slice, UniqueRef(s), Reports(s, k) # {}
  PROVE  IsBooked(s, k)
  BY DEF Reports, UniqueRef

\* BackInv is inductive.
LEMMA BackStep ==
  ASSUME OddStatus = FALSE
  PROVE  BackInv /\ CountInv' /\ [Next]_vars => BackInv'
<1> SUFFICES ASSUME BackInv, CountInv', [Next]_vars, NEW t \in Signal
             PROVE  Backed(t)'
  BY DEF BackInv
<1> DEFINE Stays == \A j \in Slice : IsBooked(t, j) => IsBooked(t, j)'
<1>1. Stays /\ 1 \in Slice /\ Backed(t) /\ Tracked(t) /\ Counted(t)
  <2>1. CountInv
    BY DEF BackInv
  <2>2. Stays
    BY <2>1, BookedStays
  <2>3. 1 \in Slice
    BY PipelineAssumption DEF PipelineAssumption, Slice
  <2>4. Backed(t) /\ Tracked(t) /\ Counted(t)
    BY DEF BackInv, CountInv, TrackInv
  <2> QED
    BY <2>2, <2>3, <2>4
<1> HIDE DEF Stays
<1>2. (UniqueRef(t))' = UniqueRef(t)
  BY DEF UniqueRef
<1>3. TypeOK /\ TypeOK'
  BY DEF BackInv, CountInv, TrackInv
\* Steps that leave the locals and the row of t alone, or close the row
\* otherwise than as done.
<1>4. ASSUME /\ placed'[t] = placed[t] \/ placed'[t] = 0
             /\ verdict'[t] = verdict[t] \/ verdict'[t] = "none"
             /\ pc'[t] = pc[t] \/ verdict'[t] = "none"
             /\ row'[t] = row[t] \/ row'[t] # "done"
      PROVE  Backed(t)'
  BY <1>1, <1>4, <1>2, <1>3 DEF Backed, Stays, Slice
<1> USE DEF TypeOK, memory, store, broker
<1>5. ASSUME NEW s \in Signal, Arrive(s) \/ Outside(s) \/ Prune(s) \/ RecoverStale(s)
      PROVE  Backed(t)'
  BY <1>1, <1>4, <1>5, <1>3 DEF Arrive, Receive, EngineStage, Outside, BrokerBooks,
     RequestDies, OrderMoves, Prune, RecoverStale, Tracked, Backed
<1>6. ASSUME NEW s \in Signal, s # t, Work(s) \/ Recovery(s)
      PROVE  Backed(t)'
  <2>1. UNCHANGED <<placed[t], verdict[t], pc[t], row[t]>>
    BY <1>6, <1>3 DEF Work, Dismiss, Screen, Stage, Begin, Acquire, Refuse, PaperFill, Post,
       PostFails, PostDenied, PostAccepted, PostGarbled, Record, Notified, NotifyRaises,
       Leaves, Verify, Advance, Fail, Retry, Recovery, Recover, RecoverStale
  <2> QED
    BY <2>1, <1>4
<1>7. CASE Dismiss(t) \/ Screen(t) \/ Stage(t) \/ Begin(t) \/ Acquire(t) \/ Post(t)
  <2>1. verdict'[t] = "none"
    BY <1>1, <1>7 DEF Dismiss, Screen, Stage, Begin, Acquire, Post, Backed
  <2>2. placed'[t] = placed[t] /\ (row'[t] = row[t] \/ row'[t] # "done")
    BY <1>1, <1>7, <1>3 DEF Dismiss, Screen, Stage, Begin, Acquire, Post
  <2> QED
    BY <1>4, <1>1, <2>1, <2>2 DEF Backed
<1>8. CASE Record(t)
  <2>1. placed'[t] = 0 /\ verdict'[t] = "none" /\ row'[t] = verdict[t]
    BY <1>8, <1>3 DEF Record
  <2> QED
    BY <1>1, <1>2, <2>1 DEF Backed, Stays, Slice
<1>14. CASE Notified(t) \/ NotifyRaises(t)
  <2>1. UNCHANGED <<placed, verdict>> /\ pc[t] = "notify"
    BY <1>14 DEF Notified, NotifyRaises, Leaves
  <2>2. verdict'[t] = "none" /\ (row'[t] = row[t] \/ row'[t] # "done")
    BY <1>1, <1>3, <1>14, <2>1 DEF Notified, NotifyRaises, Backed
  <2> QED
    BY <1>4, <2>1, <2>2
<1>9. CASE \/ Refuse(t) \/ PaperFill(t) \/ PostFails(t) \/ PostDenied(t)
           \/ (PostAccepted(t) \/ PostGarbled(t)) /\ ~Advance(t)
  <2>1. /\ placed'[t] = placed[t] /\ row'[t] = row[t]
        /\ verdict'[t] # "none" => pc'[t] = "record"
        /\ verdict'[t] # "done"
    <3>1. pc[t] \in {"ready", "awaiting"} /\ verdict[t] = "none"
      BY <1>1, <1>9 DEF Refuse, PaperFill, PostFails, PostDenied, PostAccepted, PostGarbled, Backed
    <3>2. Failure(t) # "done"
      BY DEF Failure
    <3>3. CASE PaperFill(t)
      BY <1>3, <3>1, <3>3 DEF PaperFill
    <3>4. CASE (Fail(t) \/ Retry(t)) /\ UNCHANGED <<placed, row>>
      BY <1>3, <3>1, <3>2, <3>4 DEF Fail, Retry
    <3> QED
      BY <1>9, <3>3, <3>4 DEF Refuse, PostFails, PostDenied, PostAccepted, PostGarbled, Verify
  <2> QED
    BY <1>1, <1>2, <2>1 DEF Backed, Stays
<1>10. CASE (PostAccepted(t) \/ PostGarbled(t)) /\ Advance(t)
  <2>1. /\ placed'[t] = placed[t] + 1 /\ row' = row
        /\ verdict'[t] # "none" => pc'[t] = "record"
    BY <1>1, <1>10, <1>3 DEF PostAccepted, PostGarbled, Advance, Backed
  <2>2. placed[t] \in Nat /\ placed[t] + 1 \in Slice
    <3>1. placed[t] \in Nat /\ SlicesOf[t] \in 1..MaxSlices /\ MaxSlices \in Nat
      BY <1>3, PipelineAssumption DEF PipelineAssumption
    <3>2. placed[t] < SlicesOf[t]
      BY <1>1, <1>10 DEF PostAccepted, PostGarbled, Counted
    <3> QED
      BY <3>1, <3>2 DEF Slice
  <2>3. UniqueRef(t) => IsBooked(t, placed[t] + 1)
    <3>1. CASE PostAccepted(t)
      BY <3>1 DEF PostAccepted
    <3>2. CASE PostGarbled(t)
      <4>1. placed'[t] # placed[t]
        BY <2>1, <2>2
      <4>2. Reports(t, placed[t] + 1) # {}
        BY <3>2, <4>1 DEF PostGarbled
      <4> QED
        BY <2>2, <4>2, OwnReports
    <3> QED
      BY <1>10, <3>1, <3>2
  <2>4. UniqueRef(t) => \A k \in Slice : k <= placed[t] + 1 => IsBooked(t, k)
    BY <1>1, <2>2, <2>3 DEF Backed, Slice
  <2> QED
    BY <1>1, <1>2, <2>1, <2>2, <2>4 DEF Backed, Stays, Slice
<1>11. CASE Recover(t)
  <2>1. placed'[t] = placed[t] /\ verdict' = verdict /\ verdict[t] = "none"
    BY <1>1, <1>11, <1>3 DEF Recover, Backed, Tracked
  <2>2. row'[t] = "done" => Reports(t, 1) # {}
    BY <1>1, <1>11, <1>3 DEF Recover, RecoveredRow, BrokerAnswers, Tracked, Unfinished
  <2>3. UniqueRef(t) => (row'[t] = "done" => IsBooked(t, 1))
    BY <1>1, <2>2, OwnReports
  <2> QED
    BY <1>1, <1>2, <2>1, <2>3 DEF Backed, Stays
<1>12. CASE Crash
  BY <1>12, <1>4, <1>3 DEF Crash, Fresh
<1>13. ASSUME \/ Pause \/ Resume \/ Boot \/ \E h \in Hash : ShieldExpires(h)
              \/ UNCHANGED vars
       PROVE  Backed(t)'
  BY <1>13, <1>4 DEF Pause, Resume, Boot, ShieldExpires, vars
<1> QED
  BY <1>5, <1>6, <1>7, <1>8, <1>9, <1>10, <1>11, <1>12, <1>13,
     <1>14 DEF Next, Work, Recovery

\* What a signal is judged by is always its own order.
LEMMA Backing ==
  ASSUME OddStatus = FALSE
  PROVE  Spec => []BackInv
<1>1. Init /\ CountInv => BackInv
  BY PipelineAssumption DEF PipelineAssumption, Init, BackInv, Backed, Fresh, Slice
<1>2. BackInv /\ CountInv' /\ [Next]_vars => BackInv'
  BY BackStep
<1> QED
  BY <1>1, <1>2, Counting, PTL DEF Spec

\* A row closed as done, by its thread or by recovery, has its order at the
\* broker when no other signal was given the same order_ref.
THEOREM DoneHasOrder ==
  ASSUME OddStatus = FALSE
  PROVE  Spec => []DoneIsBooked
<1>1. BackInv => DoneIsBooked
  BY DEF BackInv, Backed, DoneIsBooked
<1> QED
  BY <1>1, Backing, PTL

----------------------------------------------------------------------------
(* Refinement. The step simulation rests on BackInv, the strongest of the   *)
(* inductive invariants, which asks for an order_ref of its own for every   *)
(* signal and for mapped statuses.                                          *)

Issued(s) == {k \in Slice : order[s][k] # "unsent"}

\* A signal whose row keeps its status keeps its life.
LEMMA SameLife ==
  ASSUME NEW t \in Signal, row'[t] = row[t]
  PROVE  LifeOf(t)' = LifeOf(t)
  BY DEF LifeOf

\* The mapped variables stay the same when rows do not change their life and
\* no slice is sent for the first time.
LEMMA Stutter ==
  ASSUME \A t \in Signal : LifeOf(t)' = LifeOf(t),
         \A t \in Signal : Issued(t)' = Issued(t),
         booked' = booked
  PROVE  UNCHANGED Ledger!vars
  BY DEF Ledger!vars, Issued

\* The row of s is written, and no order touched: the ledger takes, closes or
\* forgets s, or sees nothing.
LEMMA RowStep ==
  ASSUME NEW s \in Signal, UNCHANGED <<order, booked>>,
         \A t \in Signal \ {s} : row'[t] = row[t],
         \/ row'[s] = row[s]
         \/ row[s] = "none" /\ row'[s] = "pending"
         \/ row[s] \in Unfinished /\ row'[s] \in Unfinished
         \/ /\ row[s] \in Unfinished
            /\ row'[s] \in Final
            /\ row'[s] = "done" => booked[s][1] = 1
         \/ row[s] \in Final /\ row'[s] \in {"pruned", "failed"}
  PROVE  [Ledger!Next]_(Ledger!vars)
<1> DEFINE life == [t \in Signal |-> LifeOf(t)]
<1>1. \A t \in Signal \ {s} : LifeOf(t)' = LifeOf(t)
  BY SameLife
<1>2. \A t \in Signal : Issued(t)' = Issued(t)
  BY DEF Issued
<1>3. ASSUME LifeOf(s)' = LifeOf(s)
      PROVE  UNCHANGED Ledger!vars
  BY <1>1, <1>2, <1>3, Stutter
<1>4. ASSUME NEW a, LifeOf(s)' = a
      PROVE  /\ life' = [life EXCEPT ![s] = a]
             /\ UNCHANGED <<[t \in Signal |-> Issued(t)], booked>>
  BY <1>1, <1>2, <1>4
<1>5. CASE row'[s] = row[s]
  BY <1>3, <1>5, SameLife
<1>6. CASE row[s] = "none" /\ row'[s] = "pending"
  <2>1. LifeOf(s) = "new" /\ LifeOf(s)' = "open"
    BY <1>6 DEF LifeOf, Unfinished
  <2>2. Ledger!Take(s)
    BY <2>1, <1>4 DEF Ledger!Take, Issued
  <2> QED
    BY <2>2 DEF Ledger!Next
<1>7. CASE row[s] \in Unfinished /\ row'[s] \in Unfinished
  <2>1. LifeOf(s) = "open" /\ LifeOf(s)' = "open"
    BY <1>7 DEF LifeOf, Unfinished
  <2> QED
    BY <1>3, <2>1
<1>8. CASE /\ row[s] \in Unfinished
           /\ row'[s] \in Final
           /\ row'[s] = "done" => booked[s][1] = 1
  <2>1. /\ LifeOf(s) = "open"
        /\ LifeOf(s)' = IF row'[s] = "done" THEN "done" ELSE "closed"
    BY <1>8 DEF LifeOf, Unfinished, Final, Abandoned
  <2>2. Ledger!Close(s)
    BY <1>8, <2>1, <1>4 DEF Ledger!Close, Issued
  <2> QED
    BY <2>2 DEF Ledger!Next
<1>9. CASE row[s] \in Final /\ row'[s] \in {"pruned", "failed"}
  <2>1. LifeOf(s)' = "closed"
    BY <1>9 DEF LifeOf, Unfinished
  <2>2. CASE row[s] = "done"
    <3>1. LifeOf(s) = "done"
      BY <2>2 DEF LifeOf, Unfinished
    <3>2. Ledger!Forget(s)
      BY <2>1, <3>1, <1>4 DEF Ledger!Forget, Issued
    <3> QED
      BY <3>2 DEF Ledger!Next
  <2>3. CASE row[s] # "done"
    <3>1. LifeOf(s) = "closed"
      BY <1>9, <2>3 DEF LifeOf, Unfinished, Final, Abandoned
    <3> QED
      BY <1>3, <2>1, <3>1
  <2> QED
    BY <2>2, <2>3
<1> QED
  BY <1>5, <1>6, <1>7, <1>8, <1>9

\* The first request for a slice, or one more after the broker denied it.
LEMMA IssueStep ==
  ASSUME BackInv, NEW s \in Signal, UniqueRef(s), Post(s)
  PROVE  placed[s] + 1 \in Slice /\ Ledger!Issue(s, placed[s] + 1)
<1> DEFINE n == placed[s] + 1
<1>1. /\ placed[s] \in Nat /\ placed[s] < SlicesOf[s] /\ row[s] = "processing"
      /\ TypeOK /\ Counted(s) /\ Backed(s)
  BY DEF BackInv, CountInv, TrackInv, TypeOK, Tracked, Counted, Post
<1>2. n \in Slice
  BY <1>1, PipelineAssumption DEF PipelineAssumption, Slice
<1>3. \A j \in Slice : j < n => booked[s][j] = 1
  <2>1. \A j \in Slice : j < n => j <= placed[s]
    BY <1>1 DEF Slice
  <2> QED
    BY <1>1, <2>1 DEF Backed, Counted
<1>4. LifeOf(s) = "open"
  BY <1>1 DEF LifeOf, Unfinished
<1>5. \A t \in Signal : LifeOf(t)' = LifeOf(t)
  BY SameLife DEF Post, store
<1>6. \A t \in Signal : Issued(t)' = IF t = s THEN Issued(s) \cup {n} ELSE Issued(t)
  BY <1>1, <1>2 DEF Post, TypeOK, Issued
<1>7. [t \in Signal |-> Issued(t)]' = [[t \in Signal |-> Issued(t)] EXCEPT ![s] = @ \cup {n}]
  BY <1>6
<1>8. booked' = booked
  BY DEF Post
<1> QED
  BY <1>2, <1>3, <1>4, <1>5, <1>7, <1>8 DEF Ledger!Issue, Issued

\* The broker books the one order of a slice.
LEMMA BookStep ==
  ASSUME BackInv, BackInv', NEW s \in Signal, NEW k \in Slice, BrokerBooks(s, k)
  PROVE  Ledger!Book(s, k)
<1>1. TypeOK /\ Counted(s) /\ Counted(s)'
  BY DEF BackInv, CountInv, TrackInv
<1>2. k \in Issued(s) /\ booked[s][k] = 0
  BY <1>1 DEF BrokerBooks, Issued, Counted, IsBooked, Booked
<1>3. booked' = [booked EXCEPT ![s][k] = 1]
  BY <1>1, <1>2 DEF BrokerBooks
<1>4. \A t \in Signal : LifeOf(t)' = LifeOf(t)
  BY SameLife DEF BrokerBooks, store
<1>5. \A t \in Signal : Issued(t)' = Issued(t)
  BY <1>1 DEF BrokerBooks, TypeOK, Issued
<1> QED
  BY <1>2, <1>3, <1>4, <1>5 DEF Ledger!Book, Issued

\* Every step of the pipeline is a step or a stutter of the ledger.
LEMMA Simulation ==
  ASSUME OddStatus = FALSE, \A s \in Signal : UniqueRef(s),
         BackInv, BackInv', [Next]_vars
  PROVE  [Ledger!Next]_(Ledger!vars)
<1> USE DEF memory, store, broker
<1>1. TypeOK /\ \A t \in Signal : Tracked(t) /\ Counted(t) /\ Backed(t)
  BY DEF BackInv, CountInv, TrackInv
<1>2. \A s \in Signal : 1 \in Slice
  BY PipelineAssumption DEF PipelineAssumption, Slice
<1>3. ASSUME UNCHANGED <<row, order, booked>>
      PROVE  UNCHANGED Ledger!vars
  BY <1>3, SameLife, Stutter DEF Issued
<1>4. ASSUME NEW s \in Signal, Stage(s) \/ Begin(s) \/ Record(s) \/ EngineStage(s)
      PROVE  [Ledger!Next]_(Ledger!vars)
  <2>1. UNCHANGED <<order, booked>> /\ row' = [row EXCEPT ![s] = row'[s]]
    BY <1>1, <1>4 DEF Stage, Begin, Record, EngineStage, TypeOK
  <2>2. \A t \in Signal \ {s} : row'[t] = row[t]
    BY <1>1, <2>1 DEF TypeOK
  <2>3. CASE Stage(s) \/ EngineStage(s)
    <3>1. row[s] = "none" /\ row'[s] = "pending"
      BY <1>1, <2>3 DEF Stage, EngineStage, TypeOK, Tracked
    <3> QED
      BY <2>1, <2>2, <3>1, RowStep
  <2>4. CASE Begin(s)
    <3>1. row[s] \in Unfinished /\ row'[s] \in Unfinished
      BY <1>1, <2>4 DEF Begin, TypeOK, Tracked, Unfinished
    <3> QED
      BY <2>1, <2>2, <3>1, RowStep
  <2>5. CASE Record(s)
    <3>1. row[s] \in Unfinished /\ row'[s] = verdict[s] /\ verdict[s] \in Final
      BY <1>1, <2>5 DEF Record, TypeOK, Tracked, Unfinished
    <3>2. row'[s] = "done" => booked[s][1] = 1
      BY <1>1, <1>2, <3>1 DEF Backed, Counted
    <3> QED
      BY <2>1, <2>2, <3>1, <3>2, RowStep
  <2> QED
    BY <1>4, <2>3, <2>4, <2>5
<1>11. ASSUME NEW s \in Signal, NotifyRaises(s)
       PROVE  [Ledger!Next]_(Ledger!vars)
  <2>1. UNCHANGED <<order, booked>> /\ \A t \in Signal \ {s} : row'[t] = row[t]
    BY <1>1, <1>11 DEF NotifyRaises, Leaves, TypeOK
  <2>2. row'[s] = row[s] \/ (row[s] \in Final /\ row'[s] \in {"pruned", "failed"})
    BY <1>1, <1>11 DEF NotifyRaises, TypeOK, Tracked
  <2> QED
    BY <2>1, <2>2, RowStep
<1>5. ASSUME NEW s \in Signal, Recovery(s) \/ Prune(s)
      PROVE  [Ledger!Next]_(Ledger!vars)
  <2>1. UNCHANGED <<order, booked>> /\ row' = [row EXCEPT ![s] = row'[s]]
    BY <1>1, <1>5 DEF Recovery, Recover, RecoverStale, Prune, TypeOK
  <2>2. \A t \in Signal \ {s} : row'[t] = row[t]
    BY <1>1, <2>1 DEF TypeOK
  <2>3. CASE Recover(s)
    <3>1. row[s] \in Unfinished
      BY <1>1, <2>3 DEF Recover, Tracked
    <3>2. row'[s] \in Unfinished \cup Final
      <4>1. PICK answer \in BrokerAnswers(s) :
               row' = [row EXCEPT ![s] = RecoveredRow(s, answer)]
        BY <2>3 DEF Recover
      <4>2. RecoveredRow(s, answer) \in Unfinished \cup Final
        BY <3>1 DEF RecoveredRow, Final, Abandoned
      <4> QED
        BY <1>1, <4>1, <4>2 DEF TypeOK
    <3>3. row'[s] = "done" => booked[s][1] = 1
      <4>1. Backed(s)' /\ Counted(s)'
        BY DEF BackInv, CountInv
      <4>2. UniqueRef(s)'
        BY DEF UniqueRef
      <4> QED
        BY <1>2, <2>1, <4>1, <4>2 DEF Backed, Counted, IsBooked
    <3> QED
      BY <2>1, <2>2, <3>1, <3>2, <3>3, RowStep
  <2>4. CASE RecoverStale(s)
    <3>1. row[s] \in Unfinished /\ row'[s] \in Final /\ row'[s] # "done"
      BY <1>1, <2>4 DEF RecoverStale, TypeOK, Unfinished, Final, Abandoned
    <3> QED
      BY <2>1, <2>2, <3>1, RowStep
  <2>5. CASE Prune(s)
    <3>1. row[s] \in Final /\ row'[s] = "pruned"
      BY <1>1, <2>5 DEF Prune, TypeOK
    <3> QED
      BY <2>1, <2>2, <3>1, RowStep
  <2> QED
    BY <1>5, <2>3, <2>4, <2>5 DEF Recovery
<1>6. ASSUME NEW s \in Signal, Post(s)
      PROVE  [Ledger!Next]_(Ledger!vars)
  <2> DEFINE n == placed[s] + 1
  <2>1. n \in Slice /\ Ledger!Issue(s, n)
    BY <1>6, IssueStep
  <2> HIDE DEF n
  <2>2. \E k \in Slice : Ledger!Issue(s, k)
    BY <2>1 DEF Ledger!Issue
  <2> QED
    BY <2>2 DEF Ledger!Next
<1>7. ASSUME NEW s \in Signal, NEW k \in Slice, BrokerBooks(s, k)
      PROVE  [Ledger!Next]_(Ledger!vars)
  BY <1>7, BookStep DEF Ledger!Next
<1>8. ASSUME NEW s \in Signal, NEW k \in Slice, RequestDies(s, k) \/ OrderMoves(s, k)
      PROVE  UNCHANGED Ledger!vars
  <2>1. PICK a : order' = [order EXCEPT ![s][k] = a] /\ a # "unsent" /\ order[s][k] # "unsent"
    BY <1>8, MappedMoves DEF RequestDies, OrderMoves, Booked
  <2>2. \A t \in Signal : Issued(t)' = Issued(t)
    BY <1>1, <2>1 DEF TypeOK, Issued
  <2> QED
    BY <1>8, <2>2, SameLife, Stutter DEF RequestDies, OrderMoves
<1>9. ASSUME NEW s \in Signal,
             \/ Receive(s) \/ Dismiss(s) \/ Screen(s) \/ Acquire(s) \/ Refuse(s) \/ PaperFill(s)
             \/ PostFails(s) \/ PostDenied(s) \/ PostAccepted(s) \/ PostGarbled(s)
             \/ Notified(s)
      PROVE  UNCHANGED Ledger!vars
  BY <1>3, <1>9 DEF Receive, Dismiss, Screen, Acquire, Refuse, PaperFill, PostFails,
     PostDenied, PostAccepted, PostGarbled, Notified, Leaves
<1>10. ASSUME \/ Pause \/ Resume \/ Boot \/ Crash \/ \E h \in Hash : ShieldExpires(h)
              \/ UNCHANGED vars
       PROVE  UNCHANGED Ledger!vars
  BY <1>3, <1>10 DEF Pause, Resume, Boot, Crash, ShieldExpires, vars
<1> QED
  BY <1>4, <1>5, <1>6, <1>7, <1>8, <1>9, <1>10, <1>11 DEF Next, Work, Arrive, Outside

\* The pipeline keeps the ledger's promises: a signal is taken once and closed
\* for good, its slices are sent in order while it is open, none is booked
\* twice, and it is closed as done only with an order at the broker.
THEOREM Refinement ==
  ASSUME OddStatus = FALSE, \A s \in Signal : UniqueRef(s)
  PROVE  Spec => ImplementsLedger
<1>1. Init => Ledger!Init
  <2> SUFFICES ASSUME Init PROVE Ledger!Init
    OBVIOUS
  <2>1. \A s \in Signal : LifeOf(s) = "new"
    <3>1. \A s \in Signal : row[s] = "none"
      BY DEF Init, Fresh
    <3> QED
      BY <3>1 DEF LifeOf, Unfinished
  <2>2. \A s \in Signal : Issued(s) = {}
    BY DEF Init, Fresh, Issued
  <2>3. booked = [s \in Signal |-> [k \in Slice |-> 0]]
    BY DEF Init, Fresh
  <2> QED
    BY <2>1, <2>2, <2>3 DEF Ledger!Init, Issued
<1>2. BackInv /\ BackInv' /\ [Next]_vars => [Ledger!Next]_(Ledger!vars)
  BY Simulation
<1> QED
  BY <1>1, <1>2, Backing, PTL DEF Spec, ImplementsLedger, Ledger!Spec
=============================================================================
