------------------------- MODULE MasterCacheProofs -------------------------
(***************************************************************************)
(* Theorems about MasterCache, for any number of threads, any contracts    *)
(* and calendar, any number of days and of failed refreshes.               *)
(***************************************************************************)
EXTENDS MasterCache, FiniteSetTheorems, WellFoundedInduction, TLAPS

USE DEF master, vars

----------------------------------------------------------------------------
(* The calendar and the choice *)

LEMMA DayIsNat == ASSUME NEW t \in Nat PROVE Day(t) \in Nat /\ Day(t) <= Day(t + 1)
  BY DEF Day

LEMMA NthIsCandidate ==
  ASSUME NEW S, NEW t, NEW e, Nth(e, Candidates(S, t))
  PROVE  e \in S
  BY DEF Nth, Candidates, Valid

\* A list that is published has only futures of the day of its refresh and later.
LEMMA PublishedAreLater ==
  ASSUME TypeOK, NEW p \in Thread, NEW d, Publishes(p, Listed(d)) \/ Publishes(p, {})
  PROVE  /\ fut' \subseteq Expiry /\ cash' \in BOOLEAN /\ date' \in Nat
         /\ \A e \in fut' : e >= date'
  <1>1. today[p] \in Nat  BY DEF TypeOK
  <1>2. cash' \in BOOLEAN  BY MasterAssumption DEF MasterAssumption, Publishes
  <1> QED BY <1>1, <1>2 DEF Publishes, Listed

LEMMA FetchesList ==
  ASSUME TypeOK, NEW p \in Thread, Fetches(p)
  PROVE  \/ fut' \subseteq Expiry /\ cash' \in BOOLEAN /\ date' \in Nat /\ \A e \in fut' : e >= date'
         \/ UNCHANGED master
  <1>1. CASE \E d \in today[p] .. Day(now) : Publishes(p, Listed(d))
    BY <1>1, PublishedAreLater
  <1>2. CASE Publishes(p, {})
    BY <1>2, PublishedAreLater
  <1>3. CASE UNCHANGED master
    BY <1>3
  <1> QED BY <1>1, <1>2, <1>3 DEF Fetches

----------------------------------------------------------------------------
(* Type correctness *)

Place == {"idle", "ask", "fetch", "wait", "leave", "look", "match"}

LEMMA GoesTypes ==
  ASSUME TypeOK, NEW p \in Thread, NEW where \in Place, Goes(p, where),
         p \in Forcer => where \notin {"look", "match"}
  PROVE  /\ pc' \in [Thread -> Place]
         /\ \A q \in Forcer : pc'[q] \notin {"look", "match"}
         /\ today' \in [Thread -> Nat]
         /\ \A q \in Thread : today'[q] <= Day(now)
  <1>1. 0 <= Day(now)  BY DayIsNat DEF TypeOK
  <1>2. pc \in [Thread -> Place] /\ today \in [Thread -> Nat]  BY DEF TypeOK, Place
  <1>3. Forcer \subseteq Thread  BY DEF Thread
  <1> QED BY <1>1, <1>2, <1>3 DEF Goes, TypeOK

LEMMA ReturnsTypes ==
  ASSUME TypeOK, NEW p \in Thread, Returns(p)
  PROVE  /\ pc' \in [Thread -> Place]
         /\ \A q \in Forcer : pc'[q] \notin {"look", "match"}
         /\ today' \in [Thread -> Nat]
         /\ \A q \in Thread : today'[q] <= Day(now)
  <1>1. CASE p \in Forcer
    <2>1. Goes(p, "idle")  BY <1>1 DEF Returns, Forced, Goes
    <2> QED BY <2>1, GoesTypes DEF Place
  <1>2. CASE p \notin Forcer
    <2>1. Goes(p, "look")  BY <1>2 DEF Returns, Forced, Goes
    <2> QED BY <1>2, <2>1, GoesTypes DEF Place
  <1> QED BY <1>1, <1>2

\* Type correctness of the masters, of the threads and of what they look into.
THEOREM Types == Spec => []TypeOK
<1>1. Init => TypeOK
  <2> SUFFICES ASSUME Init PROVE TypeOK
    OBVIOUS
  <2>1. \A p \in Thread : today[p] <= Day(now)
    BY DayIsNat DEF Init
  <2>2. /\ pc \in [Thread -> {"idle", "ask", "fetch", "wait", "leave", "look", "match"}]
        /\ \A p \in Forcer : pc[p] \notin {"look", "match"}
        /\ today \in [Thread -> Nat]
    BY DEF Init, Thread
  <2>3. seen \in [Caller -> [fut : SUBSET Expiry, cash : BOOLEAN, date : Nat \cup {-1}]]
    BY DEF Init, Unseen
  <2>4. got \in [exp : Expiry \cup {-1}, fresh : BOOLEAN, dead : BOOLEAN, valid : BOOLEAN]
    BY DEF Init
  <2>5. cash \in BOOLEAN /\ cool \in BOOLEAN
    BY DEF Init
  <2>6. /\ now \in Nat /\ date \in Nat \cup {-1}
        /\ fut \subseteq Expiry /\ lock \in Thread \cup {"none"}
    BY DEF Init
  <2>7. faults \in 0 .. MaxFaults
    <3>1. MaxFaults \in Nat  BY MasterAssumption DEF MasterAssumption
    <3> QED BY <3>1 DEF Init
  <2> QED BY <2>1, <2>2, <2>3, <2>4, <2>5, <2>6, <2>7 DEF TypeOK
<1>2. TypeOK /\ [Next]_vars => TypeOK'
  <2> SUFFICES ASSUME TypeOK, [Next]_vars PROVE TypeOK'
    OBVIOUS
  <2> USE DEF Place
  <2>1. CASE Tick
    <3>1. Day(now) <= Day(now + 1) /\ Day(now) \in Nat /\ Day(now + 1) \in Nat
      BY DayIsNat DEF TypeOK
    <3>2. \A p \in Thread : today[p] <= Day(now')
      BY <2>1, <3>1 DEF Tick, TypeOK
    <3> QED BY <2>1, <3>2 DEF Tick, TypeOK
  <2>2. CASE Cools
    BY <2>2 DEF Cools, TypeOK
  <2>3. ASSUME NEW p \in Thread, Begins(p) PROVE TypeOK'
    <3>1. ASSUME p \notin Forcer, Goes(p, "look") PROVE TypeOK'
      BY <2>3, <3>1, GoesTypes DEF Begins, TypeOK
    <3>2. ASSUME pc' = [pc EXCEPT ![p] = "ask"], today' = [today EXCEPT ![p] = Day(now)]
          PROVE  TypeOK'
      <4>1. Day(now) \in Nat  BY DayIsNat DEF TypeOK
      <4> QED BY <2>3, <3>2, <4>1 DEF Begins, TypeOK
    <3>3. \/ p \notin Forcer /\ Goes(p, "look")
          \/ pc' = [pc EXCEPT ![p] = "ask"] /\ today' = [today EXCEPT ![p] = Day(now)]
      <4>1. CASE ~Forced(p) /\ Healthy
        <5>1. Goes(p, "look")  BY <2>3, <4>1 DEF Begins
        <5> QED BY <4>1, <5>1 DEF Forced
      <4>2. CASE ~(~Forced(p) /\ Healthy)
        BY <2>3, <4>2 DEF Begins
      <4> QED BY <4>1, <4>2
    <3> QED BY <3>1, <3>2, <3>3
  <2>4. ASSUME NEW p \in Thread, Acquires(p) PROVE TypeOK'
    <3>1. Goes(p, "leave") \/ Goes(p, "fetch")  BY <2>4 DEF Acquires
    <3>2. cool' \in BOOLEAN  BY <2>4 DEF Acquires, TypeOK
    <3> QED BY <2>4, <3>1, <3>2, GoesTypes DEF Acquires, TypeOK
  <2>5. ASSUME NEW p \in Thread, FindsBusy(p) PROVE TypeOK'
    <3>1. Goes(p, "wait") \/ Returns(p)  BY <2>5 DEF FindsBusy
    <3> QED BY <2>5, <3>1, GoesTypes, ReturnsTypes DEF FindsBusy, TypeOK
  <2>6. ASSUME NEW p \in Thread, Waits(p) \/ Leaves(p) PROVE TypeOK'
    BY <2>6, ReturnsTypes DEF Waits, Leaves, TypeOK
  <2>7. ASSUME NEW p \in Thread, Fetches(p) PROVE TypeOK'
    <3>1. faults' \in 0 .. MaxFaults
      BY <2>7, MasterAssumption DEF Fetches, Fault, TypeOK, MasterAssumption
    <3>2. fut' \subseteq Expiry /\ cash' \in BOOLEAN /\ date' \in Nat \cup {-1}
      BY <2>7, FetchesList DEF TypeOK
    <3> QED BY <2>7, <3>1, <3>2, ReturnsTypes DEF Fetches, TypeOK
  <2>8. ASSUME NEW p \in Thread, Looks(p) PROVE TypeOK'
    <3>1. p \in Caller /\ p \notin Forcer
      BY <2>8, MasterAssumption DEF Looks, MasterAssumption
    <3>2. [fut |-> fut, cash |-> cash, date |-> date] \in
            [fut : SUBSET Expiry, cash : BOOLEAN, date : Nat \cup {-1}]
      BY DEF TypeOK
    <3> QED BY <2>8, <3>1, <3>2, GoesTypes DEF Looks, TypeOK
  <2>9. ASSUME NEW p \in Thread, NEW e \in Expiry, Finds(p, e) PROVE TypeOK'
    <3>1. p \in Caller  BY <2>9 DEF Finds
    <3>2. seen' \in [Caller -> [fut : SUBSET Expiry, cash : BOOLEAN, date : Nat \cup {-1}]]
      BY <2>9, <3>1 DEF Finds, Forgets, Unseen, TypeOK
    <3>3. got' \in [exp : Expiry \cup {-1}, fresh : BOOLEAN, dead : BOOLEAN, valid : BOOLEAN]
      BY <2>9 DEF Finds
    <3> QED BY <2>9, <3>2, <3>3, GoesTypes DEF Finds, TypeOK
  <2>10. ASSUME NEW p \in Thread, FindsNone(p) PROVE TypeOK'
    <3>1. seen' \in [Caller -> [fut : SUBSET Expiry, cash : BOOLEAN, date : Nat \cup {-1}]]
      BY <2>10 DEF FindsNone, Forgets, Unseen, TypeOK
    <3> QED BY <2>10, <3>1, GoesTypes DEF FindsNone, TypeOK
  <2>11. CASE UNCHANGED vars
    BY <2>11 DEF TypeOK
  <2> QED BY <2>1, <2>2, <2>3, <2>4, <2>5, <2>6, <2>7, <2>8, <2>9, <2>10, <2>11 DEF Next, Works
<1> QED BY <1>1, <1>2, PTL DEF Spec

----------------------------------------------------------------------------
(* No future of a list of the day has expired *)

\* A list holds only futures of its own day and later; so do the lists that callers
\* hold on to while another one is published.
ListInv ==
    /\ \A e \in fut : e >= date
    /\ \A p \in Caller : \A e \in seen[p].fut : e >= seen[p].date
    /\ FreshNotExpired

\* A future found in a list of the day has not expired, whatever is refreshed, fails
\* or turns midnight in between.
THEOREM FreshFutures == Spec => []FreshNotExpired
<1>1. Init => ListInv
  BY DEF Init, ListInv, FreshNotExpired, Unseen
<1>2. TypeOK /\ ListInv /\ [Next]_vars => ListInv'
  <2> SUFFICES ASSUME TypeOK, ListInv, [Next]_vars PROVE ListInv'
    OBVIOUS
  <2>1. ASSUME UNCHANGED <<master, seen, got>> PROVE ListInv'
    BY <2>1 DEF ListInv, FreshNotExpired
  <2>2. ASSUME NEW p \in Thread, Fetches(p) PROVE ListInv'
    <3>1. \A e \in fut' : e >= date'
      BY <2>2, FetchesList DEF ListInv
    <3> QED BY <2>2, <3>1 DEF Fetches, ListInv, FreshNotExpired
  <2>3. ASSUME NEW p \in Thread, Looks(p) PROVE ListInv'
    <3>1. seen' = [seen EXCEPT ![p] = [fut |-> fut, cash |-> cash, date |-> date]]
      BY <2>3 DEF Looks
    <3>2. UNCHANGED <<master, got>>
      BY <2>3 DEF Looks
    <3>3. \A q \in Caller : \A e \in seen'[q].fut : e >= seen'[q].date
      BY <3>1 DEF ListInv, TypeOK
    <3> QED BY <3>2, <3>3 DEF ListInv, FreshNotExpired
  <2>4. ASSUME NEW p \in Thread, FindsNone(p) PROVE ListInv'
    <3>1. \A q \in Caller : \A e \in seen'[q].fut : e >= seen'[q].date
      BY <2>4 DEF FindsNone, Forgets, Unseen, ListInv, TypeOK
    <3> QED BY <2>4, <3>1 DEF FindsNone, ListInv, FreshNotExpired
  <2>5. ASSUME NEW p \in Thread, NEW e \in Expiry, Finds(p, e) PROVE ListInv'
    <3>1. p \in Caller /\ e \in seen[p].fut
      BY <2>5, NthIsCandidate DEF Finds
    <3>2. e >= seen[p].date
      BY <3>1 DEF ListInv
    <3>3. got' = [exp |-> e, fresh |-> seen[p].date = Day(now), dead |-> e < Day(now),
                  valid |-> ~Past(e, now)]
      BY <2>5 DEF Finds
    <3>4. seen[p].date = Day(now) => ~(e < Day(now))
      <4>1. e \in Int /\ Day(now) \in Int  BY MasterAssumption, DayIsNat DEF MasterAssumption, TypeOK
      <4> QED BY <3>2, <4>1
    <3>5. FreshNotExpired'
      BY <3>3, <3>4 DEF FreshNotExpired
    <3>6. \A q \in Caller : \A x \in seen'[q].fut : x >= seen'[q].date
      BY <2>5 DEF Finds, Forgets, Unseen, ListInv, TypeOK
    <3> QED BY <2>5, <3>5, <3>6 DEF Finds, ListInv
  <2> QED BY <2>1, <2>2, <2>3, <2>4, <2>5
          DEF Next, Works, Tick, Cools, Begins, Acquires, FindsBusy, Waits, Leaves
<1>3. ListInv => FreshNotExpired
  BY DEF ListInv
<1> QED BY <1>1, <1>2, <1>3, Types, PTL DEF Spec

----------------------------------------------------------------------------
(* The refresh lock *)

\* REFRESH_LOCK is held exactly by the thread that fetches or is about to give it back,
\* so no refresh is ever shut out for good and no two fetch at a time.
THEOREM LockOwned == Spec => []LockHasOwner
<1> USE DEF LockHasOwner
<1>n. "none" \notin Thread
  BY MasterAssumption DEF MasterAssumption, Thread
<1>1. Init => LockHasOwner
  BY <1>n DEF Init
<1>2. TypeOK /\ LockHasOwner /\ [Next]_vars => LockHasOwner'
  <2> SUFFICES ASSUME TypeOK, LockHasOwner, [Next]_vars PROVE LockHasOwner'
    OBVIOUS
  <2>t. DOMAIN pc = Thread /\ pc = [q \in Thread |-> pc[q]]  BY DEF TypeOK
  <2>1. ASSUME UNCHANGED <<lock, pc>> PROVE LockHasOwner'
    BY <2>1
  <2>2. ASSUME NEW p \in Thread, NEW where \in {"idle", "ask", "wait", "look", "match"},
               pc[p] \notin {"fetch", "leave"}, pc' = [pc EXCEPT ![p] = where], lock' = lock
        PROVE  LockHasOwner'
    BY <2>2, <2>t
  <2>3. ASSUME NEW p \in Thread, Acquires(p) PROVE LockHasOwner'
    <3>1. lock = "none" /\ lock' = p  BY <2>3 DEF Acquires
    <3>2. PICK where \in {"fetch", "leave"} : pc' = [pc EXCEPT ![p] = where]
      BY <2>3 DEF Acquires, Goes
    <3> QED BY <3>1, <3>2, <2>t, <1>n
  <2>4. ASSUME NEW p \in Thread, Leaves(p) \/ Fetches(p) PROVE LockHasOwner'
    <3>1. lock = p /\ lock' = "none"  BY <2>4 DEF Leaves, Fetches
    <3>2. PICK where \in {"idle", "look"} : pc' = [pc EXCEPT ![p] = where]
      BY <2>4 DEF Leaves, Fetches, Returns, Goes
    <3> QED BY <3>1, <3>2, <2>t, <1>n
  <2>5. ASSUME NEW p \in Thread, Begins(p) PROVE LockHasOwner'
    BY <2>5, <2>2 DEF Begins, Goes
  <2>6. ASSUME NEW p \in Thread, FindsBusy(p) \/ Waits(p) PROVE LockHasOwner'
    BY <2>6, <2>2 DEF FindsBusy, Waits, Returns, Goes
  <2>7. ASSUME NEW p \in Thread, Looks(p) \/ FindsNone(p) \/ \E e \in Expiry : Finds(p, e)
        PROVE  LockHasOwner'
    BY <2>7, <2>2 DEF Looks, FindsNone, Finds, Goes
  <2> QED BY <2>1, <2>3, <2>4, <2>5, <2>6, <2>7 DEF Next, Works, Tick, Cools
<1> QED BY <1>1, <1>2, Types, PTL DEF Spec

----------------------------------------------------------------------------
(* The hour of the rollover *)

LEMMA Numbers ==
  /\ Lead \in Nat /\ Lead > 0 /\ Horizon \in Nat /\ Expiry \subseteq Int
  /\ Commodity \in BOOLEAN
  BY MasterAssumption DEF MasterAssumption

LEMMA DayOf == \A d \in Int : Day(4 * d + 2) = d
  BY DEF Day

\* A set of natural numbers that is not empty has a least one.
LEMMA LeastOf ==
  ASSUME NEW D \in SUBSET Nat, D # {}
  PROVE  \E k \in D : \A j \in D : k <= j
  <1> DEFINE R == OpToRel(<, Nat)
  <1>1. IsWellFoundedOn(R, Nat)  BY NatLessThanWellFounded
  <1>2. \A j, k \in Nat : j < k => <<j, k>> \in R  BY DEF OpToRel
  <1> HIDE DEF R
  <1>3. PICK k \in D : \A j \in D : ~(<<j, k>> \in R)  BY <1>1, WFMin
  <1>4. \A j \in D : ~(j < k)  BY <1>2, <1>3
  <1> QED BY <1>4

\* The cut-off is the afternoon of the last trading day that leaves Lead days.
LEMMA CutoffIsLastTradingDay ==
  ASSUME Commodity, NEW e \in Expiry
  PROVE  \E d \in Int : /\ d <= e - Lead /\ Cutoff(e) = 4 * d + 2 /\ Trades(d)
                        /\ \A x \in d + 1 .. e - Lead : ~Trades(x)
  <1> DEFINE n == e - Lead
             D == {k \in 0 .. 9 : Trades(n - k)}
  <1>1. n \in Int /\ e - Lead - 9 = n - 9  BY Numbers
  <1>2. PICK d \in n - 9 .. n : Trades(d)  BY <1>1, CalendarAssumption DEF CalendarAssumption
  <1>3. n - d \in 0 .. 9 /\ n - (n - d) = d  BY <1>1, <1>2
  <1>4. D \in SUBSET Nat /\ n - d \in D  BY <1>2, <1>3
  <1>5. PICK k \in D : \A j \in D : k <= j  BY <1>4, LeastOf
  <1>6. k \in 0 .. 9 /\ Trades(n - k)  BY <1>5
  <1>7. \A x \in (n - k) + 1 .. n : ~Trades(x)
    <2> SUFFICES ASSUME NEW x \in (n - k) + 1 .. n, Trades(x) PROVE FALSE
      OBVIOUS
    <2>1. n - x \in 0 .. 9 /\ n - x < k /\ n - (n - x) = x  BY <1>1, <1>6
    <2>2. n - x \in D  BY <2>1
    <2> QED BY <1>5, <1>6, <2>1, <2>2
  <1> DEFINE T == {4 * y + 2 : y \in (e - Lead - 9) .. (e - Lead)}
             Last(t) == Trades(Day(t)) /\ \A y \in Day(t) + 1 .. e - Lead : ~Trades(y)
  <1>8. Day(4 * (n - k) + 2) = n - k  BY <1>1, <1>6, DayOf
  <1>9. 4 * (n - k) + 2 \in T /\ Last(4 * (n - k) + 2)
    BY <1>1, <1>6, <1>7, <1>8
  <1>10. Cutoff(e) = CHOOSE t \in T : Last(t)  BY DEF Cutoff
  <1>11. Cutoff(e) \in T /\ Last(Cutoff(e))  BY <1>9, <1>10
  <1>12. PICK y \in n - 9 .. n : Cutoff(e) = 4 * y + 2  BY <1>1, <1>11
  <1>13. Day(Cutoff(e)) = y  BY <1>1, <1>12, DayOf
  <1> QED BY <1>1, <1>11, <1>12, <1>13

\* A contract that is past its rollover stays so.
LEMMA PastStays ==
  ASSUME NEW e \in Expiry, NEW t \in Nat, NEW u \in Nat, t <= u, Past(e, t)
  PROVE  Past(e, u)
  <1>1. Day(t) \in Nat /\ Day(u) \in Nat /\ Day(t) <= Day(u)  BY DEF Day
  <1>2. e \in Int /\ Lead \in Nat  BY Numbers
  <1>3. CASE Commodity
    <2>1. Cutoff(e) \in Int  BY <1>3, CutoffIsLastTradingDay
    <2> QED BY <1>1, <1>2, <1>3, <2>1 DEF Past
  <1>4. CASE ~Commodity  BY <1>1, <1>2, <1>4 DEF Past
  <1> QED BY <1>3, <1>4

\* The contract to trade changes while its market is open: the cut-off comes before the
\* fail-safe, on a day that trades, at an hour at which both sessions' days do.
THEOREM SwitchesInHours == Spec => SwitchIsTradable
<1>1. ASSUME TypeOK, [Next]_vars, Commodity, Valid(Expiry, now) # Valid(Expiry, now')
      PROVE  MarketOpen(now')
  <2>1. now \in Nat /\ now' = now + 1
    BY <1>1 DEF Next, Works, Tick, Cools, Begins, Acquires, FindsBusy, Waits, Leaves, Fetches,
                Looks, Finds, FindsNone, TypeOK
  <2>2. PICK e \in Expiry : ~Past(e, now) /\ Past(e, now')
    BY <1>1, <2>1, PastStays DEF Valid
  <2>3. PICK d \in Int : d <= e - Lead /\ Cutoff(e) = 4 * d + 2 /\ Trades(d)
    BY <1>1, CutoffIsLastTradingDay
  <2>4. e \in Int /\ Lead \in Nat  BY Numbers
  <2>5. /\ ~(e - Day(now) < Lead) /\ now < 4 * d + 2
        /\ e - Day(now + 1) < Lead \/ now + 1 >= 4 * d + 2
    BY <1>1, <2>1, <2>2, <2>3 DEF Past
  <2>6. now + 1 = 4 * d + 2
    BY <2>1, <2>3, <2>4, <2>5 DEF Day
  <2>7. Day(now') = d /\ now' % 4 = 2
    BY <2>1, <2>6 DEF Day
  <2> QED BY <1>1, <2>3, <2>7 DEF MarketOpen, Trades
<1>2. TypeOK /\ [Next]_vars =>
         [Commodity /\ Valid(Expiry, now) # Valid(Expiry, now') => MarketOpen(now')]_vars
  BY <1>1
<1> QED BY <1>2, Types, PTL DEF Spec, SwitchIsTradable

----------------------------------------------------------------------------
(* No way back *)

\* A list has no gap: with a contract it has all earlier ones that are not expired.
Gapless(L) ==
    /\ IsFiniteSet(L)
    /\ \A e \in L : \A x \in Expiry : Day(now) < x /\ x <= e => x \in L

\* What was found last is the first of all contracts that can still be traded, whether
\* or not they are in a list at the moment.
FrontInv ==
    /\ Gapless(fut)
    /\ \A p \in Caller : Gapless(seen[p].fut)
    /\ got.valid => \A x \in Expiry : ~Past(x, now) => x >= got.exp

LEMMA ValidIsAhead ==
  ASSUME NEW t \in Nat, NEW e \in Expiry, ~Past(e, t)
  PROVE  e > Day(t)
  <1>1. Day(t) \in Nat  BY DEF Day
  <1> QED BY <1>1, Numbers DEF Past

\* A list as it is published.
LEMMA PublishedIsGapless ==
  ASSUME TypeOK, NEW p \in Thread,
         (\E d \in today[p] .. Day(now) : Publishes(p, Listed(d))) \/ Publishes(p, {})
  PROVE  Gapless(fut')
  <1>1. today[p] \in Nat /\ Day(now) \in Nat  BY DayIsNat DEF TypeOK
  <1>2. CASE Publishes(p, {})
    <2>1. fut' = {}  BY <1>2 DEF Publishes
    <2> QED BY <2>1, FS_EmptySet DEF Gapless
  <1>3. ASSUME NEW d \in today[p] .. Day(now), Publishes(p, Listed(d)) PROVE Gapless(fut')
    <2>1. d \in Nat /\ d <= Day(now) /\ d >= today[p] /\ d + Horizon \in Int  BY <1>1, Numbers
    <2>2. fut' = {e \in Expiry : d <= e /\ e <= d + Horizon /\ e >= today[p]}
      BY <1>3 DEF Publishes, Listed
    <2>3. \A e \in fut' : e \in Int /\ d <= e /\ e <= d + Horizon  BY <2>2, Numbers
    <2> DEFINE top == d + Horizon
    <2>4. IsFiniteSet(fut')
      <3>1. top \in Int /\ d \in Int  BY <2>1
      <3>2. fut' \subseteq d .. top  BY <2>3
      <3> HIDE DEF top
      <3>3. IsFiniteSet(d .. top)  BY <3>1, FS_Interval
      <3> QED BY <3>2, <3>3, FS_Subset
    <2>5. \A e \in fut' : \A x \in Expiry : Day(now) < x /\ x <= e => x \in fut'
      BY <1>1, <2>1, <2>2, Numbers
    <2> QED BY <2>4, <2>5 DEF Gapless
  <1> QED BY <1>2, <1>3

\* The front contract of a list without gaps comes before all that can be traded.
LEMMA FrontIsFirst ==
  ASSUME TypeOK, Depth = 1, NEW L \in SUBSET Expiry, Gapless(L), NEW e \in Expiry,
         Nth(e, Candidates(L, now)), ~Past(e, now)
  PROVE  \A x \in Expiry : ~Past(x, now) => x >= e
  <1> DEFINE V == Valid(L, now)
             B == {x \in V : x < e}
  <1>1. e \in L  BY NthIsCandidate
  <1>2. e \in V /\ V # {}  BY <1>1 DEF Valid
  <1>3. Candidates(L, now) = V  BY <1>2 DEF Candidates
  <1>4. V \subseteq L /\ B \subseteq V  BY DEF Valid
  <1>5. IsFiniteSet(V) /\ IsFiniteSet(B)  BY <1>4, FS_Subset DEF Gapless
  <1>6. Cardinality(V) \in Nat /\ Cardinality(V) # 0
    BY <1>2, <1>5, FS_CardinalityType, FS_EmptySet
  <1>7. Cardinality(B) = (IF Depth <= Cardinality(V) THEN Depth ELSE Cardinality(V)) - 1
    BY <1>3 DEF Nth
  <1>8. Cardinality(B) = 0  BY <1>6, <1>7
  <1>9. B = {}  BY <1>5, <1>8, FS_EmptySet
  <1> SUFFICES ASSUME NEW x \in Expiry, ~Past(x, now), x < e PROVE FALSE
    BY Numbers
  <1>10. x > Day(now)  BY ValidIsAhead DEF TypeOK
  <1>11. x \in L  BY <1>1, <1>10, Numbers DEF Gapless
  <1>12. x \in B  BY <1>11 DEF Valid
  <1> QED BY <1>9, <1>12

LEMMA InitFront == Init => FrontInv
  <1> SUFFICES ASSUME Init PROVE FrontInv
    OBVIOUS
  <1>1. Gapless({})  BY FS_EmptySet DEF Gapless
  <1>2. fut = {} /\ \A p \in Caller : seen[p].fut = {}  BY DEF Init, Unseen
  <1>3. got.valid = FALSE  BY DEF Init
  <1> QED BY <1>1, <1>2, <1>3 DEF FrontInv

\* A search that finds a valid contract finds the first.
LEMMA FindsFront ==
  ASSUME TypeOK, FrontInv, Depth = 1, NEW p \in Thread, NEW e \in Expiry, Finds(p, e)
  PROVE  /\ got'.exp = e /\ got'.valid = ~Past(e, now)
         /\ got'.valid => \A x \in Expiry : ~Past(x, now) => x >= e
  <1>1. /\ p \in Caller /\ Nth(e, Candidates(seen[p].fut, now))
        /\ got' = [exp |-> e, fresh |-> seen[p].date = Day(now), dead |-> e < Day(now),
                   valid |-> ~Past(e, now)]
    BY DEF Finds
  <1>2. seen[p].fut \in SUBSET Expiry /\ Gapless(seen[p].fut)
    BY <1>1 DEF TypeOK, FrontInv
  <1>3. got'.exp = e /\ got'.valid = ~Past(e, now)  BY <1>1
  <1> QED BY <1>1, <1>2, <1>3, FrontIsFirst

LEMMA NextFront ==
  ASSUME Depth = 1
  PROVE  TypeOK /\ FrontInv /\ [Next]_vars => FrontInv'
  <1> SUFFICES ASSUME TypeOK, FrontInv, [Next]_vars PROVE FrontInv'
    OBVIOUS
  <1>1. ASSUME UNCHANGED <<now, fut, seen, got>> PROVE FrontInv'
    BY <1>1 DEF FrontInv, Gapless
  <1>2. CASE Tick
    <2>1. now \in Nat /\ now' = now + 1 /\ UNCHANGED <<fut, seen, got>>
      BY <1>2 DEF Tick, TypeOK
    <2>2. Day(now) \in Nat /\ Day(now') \in Nat /\ Day(now) <= Day(now')  BY <2>1 DEF Day
    <2>3. \A x \in Expiry : Day(now') < x => Day(now) < x  BY <2>2, Numbers
    <2>4. \A x \in Expiry : ~Past(x, now') => ~Past(x, now)  BY <2>1, PastStays
    <2> QED BY <2>1, <2>3, <2>4 DEF FrontInv, Gapless
  <1>3. ASSUME NEW p \in Thread, Fetches(p) PROVE FrontInv'
    <2>1. UNCHANGED <<now, seen, got>>  BY <1>3 DEF Fetches
    <2>2. Gapless(fut')  BY <1>3, PublishedIsGapless DEF Fetches, FrontInv
    <2> QED BY <2>1, <2>2 DEF FrontInv, Gapless
  <1>4. ASSUME NEW p \in Thread, Looks(p) PROVE FrontInv'
    <2>1. UNCHANGED <<now, fut, got>>  BY <1>4 DEF Looks
    <2>2. \A q \in Caller : seen'[q].fut \in {seen[q].fut, fut}
      BY <1>4 DEF Looks, TypeOK
    <2> QED BY <2>1, <2>2 DEF FrontInv, Gapless
  <1>5. ASSUME NEW p \in Thread, Forgets(p), UNCHANGED <<now, fut>> PROVE
               Gapless(fut)' /\ \A q \in Caller : Gapless(seen[q].fut)'
    <2>1. \A q \in Caller : seen'[q].fut \in {seen[q].fut, {}}
      BY <1>5 DEF Forgets, Unseen, TypeOK
    <2>2. Gapless({})  BY FS_EmptySet DEF Gapless
    <2> QED BY <1>5, <2>1, <2>2 DEF FrontInv, Gapless
  <1>6. ASSUME NEW p \in Thread, FindsNone(p) PROVE FrontInv'
    BY <1>5, <1>6 DEF FindsNone, FrontInv
  <1>7. ASSUME NEW p \in Thread, NEW e \in Expiry, Finds(p, e) PROVE FrontInv'
    BY <1>5, <1>7, FindsFront DEF Finds, FrontInv
  <1> QED BY <1>1, <1>2, <1>3, <1>4, <1>6, <1>7
          DEF Next, Works, Cools, Begins, Acquires, FindsBusy, Waits, Leaves

\* A strategy of the front contract that rolled over is never sent back: whatever lists
\* are lost, late or old when they are looked into, the first contract that can be traded
\* is found, or one that cannot.
THEOREM RollsStayForward ==
  ASSUME Depth = 1
  PROVE  Spec => RollsForward
<1>1. TypeOK /\ FrontInv /\ [Next]_vars => [got'.valid /\ got.valid => got'.exp >= got.exp]_vars
  <2> SUFFICES ASSUME TypeOK, FrontInv, Next, got'.valid, got.valid PROVE got'.exp >= got.exp
    OBVIOUS
  <2>1. CASE UNCHANGED got
    <3>1. got.exp \in Expiry \cup {-1}  BY DEF TypeOK
    <3>2. \A x \in Expiry : x \in Int  BY Numbers
    <3>3. -1 \in Int  OBVIOUS
    <3>4. got.exp \in Int  BY ONLY <3>1, <3>2, <3>3
    <3>5. got.exp >= got.exp  BY <3>4
    <3> QED BY <2>1, <3>5
  <2>2. ASSUME NEW p \in Thread, NEW e \in Expiry, Finds(p, e) PROVE got'.exp >= got.exp
    <3>1. got'.exp = e /\ ~Past(e, now)  BY <2>2, FindsFront
    <3> QED BY <3>1 DEF FrontInv
  <2> QED BY <2>1, <2>2 DEF Next, Works, Tick, Cools, Begins, Acquires, FindsBusy, Waits, Leaves,
                            Fetches, Looks, FindsNone
<1> QED BY <1>1, InitFront, NextFront, Types, PTL DEF Spec, RollsForward
=============================================================================
