------------------------- MODULE TokenSessionProofs -------------------------
(***************************************************************************)
(* Safety of the token session for any number of threads, sessions and     *)
(* expiries.  SingleFlight is inductive given the types; OrderInv says     *)
(* that a login still to be stored is newer than everything in use, and    *)
(* FreshInv follows a refusal through the rest of its call.                *)
(***************************************************************************)
EXTENDS TokenSession, TLAPS

\* The answer to a login that is not stored yet is newer than all that was.
OrderInv ==
    \A t \in Thread : pc[t] = "answered" =>
        /\ mine[t] > token
        /\ \A u \in Thread : mine[t] > held[u] /\ mine[t] > refused[u]

\* What a thread may still find, once it was refused: an interactive call has
\* cleared the refused token, a market data call only trusts its own login.
FreshInv ==
    \A t \in Thread : refused[t] # None =>
        /\ kind = Interactive /\ pc[t] # "clear" => token = None \/ token > refused[t]
        /\ kind = MarketData => /\ forced[t] /\ pc[t] \notin {"give", "clear"}
                                /\ pc[t] = "stored" => token = None \/ token > refused[t]
        /\ pc[t] = "use" /\ held[t] # None => held[t] > refused[t]

IInv == TypeOK /\ SingleFlight /\ OrderInv /\ FreshInv

-----------------------------------------------------------------------------
LEMMA InitInv == Init => IInv
  <1> SUFFICES ASSUME Init PROVE IInv
    OBVIOUS
  <1>1. aged \in BOOLEAN /\ failing \in BOOLEAN /\ cooling \in BOOLEAN /\ refreshing \in BOOLEAN
    BY DEF Init
  <1>2. TypeOK
    BY BoundsAreNat, <1>1 DEF Init, TypeOK, None
  <1>. QED
    BY <1>2 DEF Init, IInv, SingleFlight, OrderInv, FreshInv, InFlight

\* Every step keeps the types.
LEMMA TypeStep == TypeOK /\ [Next]_vars => TypeOK'
<1> SUFFICES ASSUME TypeOK, [Next]_vars PROVE TypeOK'
  OBVIOUS
<1> USE BoundsAreNat DEF TypeOK, None, Asking, InFlight, shared, broker
<1>1. ASSUME NEW t \in Thread, Call(t) PROVE TypeOK'
  BY <1>1 DEF Call, At
<1>2. ASSUME NEW t \in Thread, Peek(t) PROVE TypeOK'
  <2>1. (forced[t] \/ (token # None /\ aged)) \in BOOLEAN
    OBVIOUS
  <2>. QED
    BY <1>2, <2>1 DEF Peek, At, Given
<1>3. ASSUME NEW t \in Thread, Give(t) PROVE TypeOK'
  BY <1>3 DEF Give, Given
<1>4. ASSUME NEW t \in Thread, Enter(t) PROVE TypeOK'
  BY <1>4 DEF Enter, Given, StartsLogin, At
<1>5. ASSUME NEW t \in Thread, Woken(t) \/ WaitExpires(t) PROVE TypeOK'
  <2>1. CASE Woken(t)
    <3>1. refreshing' \in BOOLEAN
      BY <2>1 DEF Woken, StartsLogin
    <3>. QED
      BY <2>1, <3>1 DEF Woken, Given, StartsLogin
  <2>2. CASE WaitExpires(t)
    BY <2>2 DEF WaitExpires, Given
  <2>. QED
    BY <1>5, <2>1, <2>2
<1>6. ASSUME NEW t \in Thread, Post(t) PROVE TypeOK'
  <2>1. (kind = Interactive) \in BOOLEAN
    OBVIOUS
  <2>. QED
    BY <1>6, <2>1 DEF Post, At
<1>7. ASSUME NEW t \in Thread, BrokerGrants(t) PROVE TypeOK'
  BY <1>7 DEF BrokerGrants, Grants, At
<1>8. ASSUME NEW t \in Thread, LoginSucceeds(t) PROVE TypeOK'
  <2>1. aged' \in BOOLEAN /\ failing' \in BOOLEAN
    BY <1>8 DEF LoginSucceeds
  <2>. QED
    BY <1>8, <2>1 DEF LoginSucceeds, At, Forget
<1>9. ASSUME NEW t \in Thread, LoginFails(t) PROVE TypeOK'
  <2>1. (kind = Interactive) \in BOOLEAN
    OBVIOUS
  <2>. QED
    BY <1>9, <2>1 DEF LoginFails, Forget
<1>10. ASSUME NEW t \in Thread, Finish(t) PROVE TypeOK'
  <2>1. refreshing' \in BOOLEAN
    BY <1>10 DEF Finish
  <2>. QED
    BY <1>10, <2>1 DEF Finish, Given
<1>11. ASSUME NEW t \in Thread, Ends(t) PROVE TypeOK'
  BY <1>11 DEF Ends, At, Forget
<1>12. ASSUME NEW t \in Thread, Refused(t) PROVE TypeOK'
  <2>1. forced' \in [Thread -> BOOLEAN]
    BY <1>12 DEF Refused
  <2>2. pc'[t] \in {"clear", "ask"} /\ pc' = [pc EXCEPT ![t] = pc'[t]]
    BY <1>12 DEF Refused, At
  <2>. QED
    BY <1>12, <2>1, <2>2 DEF Refused, Forget
<1>13. ASSUME NEW t \in Thread, ClearTokens(t) PROVE TypeOK'
  <2>1. aged' \in BOOLEAN /\ cooling' \in BOOLEAN
    BY <1>13 DEF ClearTokens, Dropped
  <2>. QED
    BY <1>13, <2>1 DEF ClearTokens, At, Dropped
<1>14. CASE Environment
  <2>1. CASE CooldownEnds
    <3>1. cooling' \in BOOLEAN
      BY <2>1 DEF CooldownEnds
    <3>. QED
      BY <2>1, <3>1 DEF CooldownEnds
  <2>2. CASE TokenAges
    <3>1. aged' \in BOOLEAN
      BY <2>2 DEF TokenAges
    <3>. QED
      BY <2>2, <3>1 DEF TokenAges
  <2>3. CASE SessionsEnd
    BY <2>3 DEF SessionsEnd
  <2>4. CASE ClearedElsewhere
    <3>1. aged' \in BOOLEAN
      BY <2>4 DEF ClearedElsewhere, Dropped
    <3>. QED
      BY <2>4, <3>1 DEF ClearedElsewhere, Dropped
  <2>. QED
    BY <1>14, <2>1, <2>2, <2>3, <2>4 DEF Environment
<1>15. ASSUME NEW t \in Thread, LateGrant(t) PROVE TypeOK'
  BY <1>15 DEF LateGrant, Grants
<1>16. CASE UNCHANGED vars
  BY <1>16 DEF vars
<1>. QED
  BY <1>1, <1>2, <1>3, <1>4, <1>5, <1>6, <1>7, <1>8, <1>9, <1>10, <1>11, <1>12, <1>13,
     <1>14, <1>15, <1>16 DEF Next, Step, Login

\* Only a thread that finds the flag down, under the lock, sets it, and only the
\* thread that set it takes it down.
LEMMA FlightStep == TypeOK /\ SingleFlight /\ [Next]_vars => SingleFlight'
<1> SUFFICES ASSUME TypeOK, SingleFlight, [Next]_vars PROVE SingleFlight'
  OBVIOUS
<1> USE DEF SingleFlight, TypeOK, InFlight, Asking, shared, broker
<1>1. ASSUME NEW t \in Thread, Call(t) PROVE SingleFlight'
  BY <1>1 DEF Call, At
<1>2. ASSUME NEW t \in Thread, Peek(t) PROVE SingleFlight'
  BY <1>2 DEF Peek, At, Given
<1>3. ASSUME NEW t \in Thread, Give(t) PROVE SingleFlight'
  BY <1>3 DEF Give, Given
<1>4. ASSUME NEW t \in Thread, Enter(t) PROVE SingleFlight'
  BY <1>4 DEF Enter, Given, StartsLogin, At
<1>5. ASSUME NEW t \in Thread, Woken(t) PROVE SingleFlight'
  BY <1>5 DEF Woken, Given, StartsLogin
<1>6. ASSUME NEW t \in Thread, WaitExpires(t) PROVE SingleFlight'
  BY <1>6 DEF WaitExpires, Given
<1>7. ASSUME NEW t \in Thread, Post(t) PROVE SingleFlight'
  BY <1>7 DEF Post, At
<1>8. ASSUME NEW t \in Thread, BrokerGrants(t) PROVE SingleFlight'
  BY <1>8 DEF BrokerGrants, Grants, At
<1>9. ASSUME NEW t \in Thread, LoginSucceeds(t) PROVE SingleFlight'
  BY <1>9 DEF LoginSucceeds, At, Forget
<1>10. ASSUME NEW t \in Thread, LoginFails(t) PROVE SingleFlight'
  BY <1>10 DEF LoginFails, Forget
<1>11. ASSUME NEW t \in Thread, Finish(t) PROVE SingleFlight'
  BY <1>11 DEF Finish, Given
<1>12. ASSUME NEW t \in Thread, Ends(t) PROVE SingleFlight'
  BY <1>12 DEF Ends, At, Forget
<1>13. ASSUME NEW t \in Thread, Refused(t) PROVE SingleFlight'
  BY <1>13 DEF Refused, At, Forget
<1>14. ASSUME NEW t \in Thread, ClearTokens(t) PROVE SingleFlight'
  BY <1>14 DEF ClearTokens, At, Dropped
<1>15. ASSUME NEW t \in Thread, LateGrant(t) PROVE SingleFlight'
  BY <1>15 DEF LateGrant, Grants
<1>16. CASE Environment
  BY <1>16 DEF Environment, CooldownEnds, TokenAges, SessionsEnd, ClearedElsewhere, Dropped
<1>17. CASE UNCHANGED vars
  BY <1>17 DEF vars
<1>. QED
  BY <1>1, <1>2, <1>3, <1>4, <1>5, <1>6, <1>7, <1>8, <1>9, <1>10, <1>11, <1>12, <1>13, <1>14, <1>15, <1>16, <1>17 DEF Next, Step, Login

\* A session is granted after all that are held; no other login can be stored
\* before this one is, for it is the only one.
LEMMA OrderStep == TypeOK /\ SingleFlight /\ OrderInv /\ [Next]_vars => OrderInv'
<1> SUFFICES ASSUME TypeOK, SingleFlight, OrderInv, [Next]_vars PROVE OrderInv'
  OBVIOUS
<1> USE BoundsAreNat DEF OrderInv, SingleFlight, TypeOK, InFlight, Asking, None, shared, broker
<1>1. ASSUME NEW t \in Thread, Call(t) PROVE OrderInv'
  BY <1>1 DEF Call, At
<1>2. ASSUME NEW t \in Thread, Peek(t) PROVE OrderInv'
  BY <1>2 DEF Peek, At, Given
<1>3. ASSUME NEW t \in Thread, Give(t) PROVE OrderInv'
  BY <1>3 DEF Give, Given
<1>4. ASSUME NEW t \in Thread, Enter(t) PROVE OrderInv'
  BY <1>4 DEF Enter, Given, StartsLogin, At
<1>5. ASSUME NEW t \in Thread, Woken(t) PROVE OrderInv'
  BY <1>5 DEF Woken, Given, StartsLogin
<1>6. ASSUME NEW t \in Thread, WaitExpires(t) PROVE OrderInv'
  BY <1>6 DEF WaitExpires, Given
<1>7. ASSUME NEW t \in Thread, Post(t) PROVE OrderInv'
  BY <1>7 DEF Post, At
<1>8. ASSUME NEW t \in Thread, BrokerGrants(t) PROVE OrderInv'
  BY <1>8 DEF BrokerGrants, Grants, At
<1>9. ASSUME NEW t \in Thread, LoginSucceeds(t) PROVE OrderInv'
  BY <1>9 DEF LoginSucceeds, At, Forget
<1>10. ASSUME NEW t \in Thread, LoginFails(t) PROVE OrderInv'
  BY <1>10 DEF LoginFails, Forget
<1>11. ASSUME NEW t \in Thread, Finish(t) PROVE OrderInv'
  BY <1>11 DEF Finish, Given
<1>12. ASSUME NEW t \in Thread, Ends(t) PROVE OrderInv'
  BY <1>12 DEF Ends, At, Forget
<1>13. ASSUME NEW t \in Thread, Refused(t) PROVE OrderInv'
  BY <1>13 DEF Refused, At, Forget
<1>14. ASSUME NEW t \in Thread, ClearTokens(t) PROVE OrderInv'
  BY <1>14 DEF ClearTokens, At, Dropped
<1>15. ASSUME NEW t \in Thread, LateGrant(t) PROVE OrderInv'
  BY <1>15 DEF LateGrant, Grants
<1>16. CASE Environment
  BY <1>16 DEF Environment, CooldownEnds, TokenAges, SessionsEnd, ClearedElsewhere, Dropped
<1>17. CASE UNCHANGED vars
  BY <1>17 DEF vars
<1>. QED
  BY <1>1, <1>2, <1>3, <1>4, <1>5, <1>6, <1>7, <1>8, <1>9, <1>10, <1>11, <1>12, <1>13, <1>14, <1>15, <1>16, <1>17 DEF Next, Step, Login

\* What a refused thread may still find stays newer than what it was refused.
LEMMA FreshStep == TypeOK /\ SingleFlight /\ OrderInv /\ FreshInv /\ [Next]_vars => FreshInv'
<1> SUFFICES ASSUME TypeOK, SingleFlight, OrderInv, FreshInv, [Next]_vars PROVE FreshInv'
  OBVIOUS
<1> USE BoundsAreNat, KindsAreKnown DEF FreshInv, OrderInv, SingleFlight, TypeOK, InFlight, Asking, None, Interactive, MarketData, Second, Takes, CoolsDown, shared, broker
<1>1. ASSUME NEW t \in Thread, Call(t) PROVE FreshInv'
  BY <1>1 DEF Call, At
<1>2. ASSUME NEW t \in Thread, Peek(t) PROVE FreshInv'
  BY <1>2 DEF Peek, At, Given
<1>3. ASSUME NEW t \in Thread, Give(t) PROVE FreshInv'
  BY <1>3 DEF Give, Given
<1>4. ASSUME NEW t \in Thread, Enter(t) PROVE FreshInv'
  BY <1>4 DEF Enter, Given, StartsLogin, At
<1>5. ASSUME NEW t \in Thread, Woken(t) PROVE FreshInv'
  BY <1>5 DEF Woken, Given, StartsLogin
<1>6. ASSUME NEW t \in Thread, WaitExpires(t) PROVE FreshInv'
  BY <1>6 DEF WaitExpires, Given
<1>7. ASSUME NEW t \in Thread, Post(t) PROVE FreshInv'
  BY <1>7 DEF Post, At
<1>8. ASSUME NEW t \in Thread, BrokerGrants(t) PROVE FreshInv'
  BY <1>8 DEF BrokerGrants, Grants, At
<1>9. ASSUME NEW t \in Thread, LoginSucceeds(t) PROVE FreshInv'
  BY <1>9 DEF LoginSucceeds, At, Forget
<1>10. ASSUME NEW t \in Thread, LoginFails(t) PROVE FreshInv'
  BY <1>10 DEF LoginFails, Forget
<1>11. ASSUME NEW t \in Thread, Finish(t) PROVE FreshInv'
  BY <1>11 DEF Finish, Given
<1>12. ASSUME NEW t \in Thread, Ends(t) PROVE FreshInv'
  BY <1>12 DEF Ends, At, Forget
<1>13. ASSUME NEW t \in Thread, Refused(t) PROVE FreshInv'
  BY <1>13 DEF Refused, At, Forget
<1>14. ASSUME NEW t \in Thread, ClearTokens(t) PROVE FreshInv'
  BY <1>14 DEF ClearTokens, At, Dropped
<1>15. ASSUME NEW t \in Thread, LateGrant(t) PROVE FreshInv'
  BY <1>15 DEF LateGrant, Grants
<1>16. CASE Environment
  BY <1>16 DEF Environment, CooldownEnds, TokenAges, SessionsEnd, ClearedElsewhere, Dropped
<1>17. CASE UNCHANGED vars
  BY <1>17 DEF vars
<1>. QED
  BY <1>1, <1>2, <1>3, <1>4, <1>5, <1>6, <1>7, <1>8, <1>9, <1>10, <1>11, <1>12, <1>13, <1>14, <1>15, <1>16, <1>17 DEF Next, Step, Login

-----------------------------------------------------------------------------
LEMMA InvStep == IInv /\ [Next]_vars => IInv'
  BY TypeStep, FlightStep, OrderStep, FreshStep DEF IInv

LEMMA Invariance == Spec => []IInv
  BY InitInv, InvStep, PTL DEF Spec

\* Types, for any threads and bounds.
THEOREM TokenTypes == Spec => []TypeOK
  <1>1. IInv => TypeOK
    BY DEF IInv
  <1>. QED
    BY <1>1, Invariance, PTL

\* One login at a time, and the flag tells: however many threads ask, wait, time
\* out and are woken.
THEOREM OneLoginAtATime == Spec => []SingleFlight
  <1>1. IInv => SingleFlight
    BY DEF IInv
  <1>. QED
    BY <1>1, Invariance, PTL

\* A thread that was refused a token is never given that one or an older one.
THEOREM NoRefusedToken == Spec => []FreshAfterRefusal
  <1>1. IInv => FreshAfterRefusal
    BY DEF IInv, FreshInv, FreshAfterRefusal, Second
  <1>. QED
    BY <1>1, Invariance, PTL

\* A stored token is newer than any held or refused: late answers to logins
\* cannot bring an older session back.
THEOREM TokensNeverGoBack == Spec => TokensMoveForward
  <1>1. IInv /\ [Next]_vars =>
          [token' \notin {token, None} =>
             \A t \in Thread : token' > held[t] /\ token' > refused[t]]_vars
    <2> SUFFICES ASSUME IInv, Next, token' \notin {token, None}
                 PROVE \A u \in Thread : token' > held[u] /\ token' > refused[u]
      OBVIOUS
    <2>1. PICK t \in Thread : LoginSucceeds(t)
      BY DEF Next, Step, Login, Environment, Call, Peek, Give, Enter, Woken, WaitExpires,
             Post, BrokerGrants, LoginFails, Finish, Ends, Refused, ClearTokens, Dropped,
             LateGrant, CooldownEnds, TokenAges, SessionsEnd, ClearedElsewhere, shared
    <2>. QED
      BY <2>1 DEF LoginSucceeds, At, IInv, OrderInv
  <1>. QED
    BY <1>1, Invariance, PTL DEF Spec, TokensMoveForward

=============================================================================
