---------------------------- MODULE TokenSession ----------------------------
(***************************************************************************)
(* The broker session of one client, client/xts_api.py: the token shared   *)
(* by every thread that talks to the broker, the single-flight login that  *)
(* replaces it (get_interactive_token, get_marketdata_token), and what a   *)
(* call does when the broker refuses its token (clear_tokens and one       *)
(* retry).  The interactive and the market data session follow the same    *)
(* protocol with differences that `kind' selects.                          *)
(***************************************************************************)
EXTENDS Naturals

CONSTANTS
    Thread,       \* threads that call the broker
    MaxLogins,    \* bound: sessions the broker grants
    MaxExpiries,  \* bound: times the broker ends every session
    Kinds         \* the sessions considered

Interactive == "interactive"
MarketData == "marketdata"

ASSUME BoundsAreNat == MaxLogins \in Nat /\ MaxExpiries \in Nat
ASSUME KindsAreKnown == Kinds \subseteq {Interactive, MarketData}

VARIABLES
    kind,        \* which session this is
    token,       \* INTERACTIVE_TOKEN or MARKET_DATA_TOKEN, by order of login
    aged,        \* it is older than TOKEN_MAX_LIFESPAN_SECONDS
    failing,     \* LAST_INTERACTIVE_AUTH_ERROR is set
    cooling,     \* the last login is less than INTERACTIVE_COOLDOWN_SECONDS old
    refreshing,  \* REFRESHING_INTERACTIVE or REFRESHING_MD
    pc,          \* where each thread is
    forced,      \* its force_refresh
    held,        \* the token it was given
    refused,     \* the token the broker refused it in this call
    mine,        \* the session the broker granted its login
    issued,      \* sessions the broker has granted
    live,        \* sessions the broker honours
    adrift,      \* threads with a login request the broker has yet to see
    expiries     \* times the broker has ended every session

shared == <<token, aged, failing, cooling>>
broker == <<issued, live, adrift, expiries>>
vars == <<kind, shared, refreshing, pc, forced, held, refused, mine, broker>>

None == 0
Token == 1 .. MaxLogins

Asking == {"ask", "give", "enter", "wait"}
InFlight == {"login", "posted", "answered", "stored", "failed"}

Init ==
    /\ kind \in Kinds
    /\ token = None /\ aged = FALSE /\ failing = FALSE /\ cooling = FALSE
    /\ refreshing = FALSE
    /\ pc = [t \in Thread |-> "idle"]
    /\ forced = [t \in Thread |-> FALSE]
    /\ held = [t \in Thread |-> None]
    /\ refused = [t \in Thread |-> None]
    /\ mine = [t \in Thread |-> None]
    /\ issued = 0 /\ live = {} /\ adrift = {} /\ expiries = 0

At(t, from, to) == pc[t] = from /\ pc' = [pc EXCEPT ![t] = to]

\* The thread leaves get_..._token with x.
Given(t, x) == /\ held' = [held EXCEPT ![t] = x]
               /\ pc' = [pc EXCEPT ![t] = "use"]

Forget(f, t, x) == f' = [f EXCEPT ![t] = x]

-----------------------------------------------------------------------------
(* A call to the broker asks for the token. *)

Call(t) ==
    /\ At(t, "idle", "ask")
    /\ UNCHANGED <<kind, shared, refreshing, forced, held, refused, mine, broker>>

\* What is decided before the lock is taken.
CoolsDown == kind = Interactive /\ failing /\ cooling /\ token = None

Peek(t) ==
    /\ pc[t] = "ask"
    /\ LET force == forced[t] \/ (token # None /\ aged) IN
       /\ forced' = [forced EXCEPT ![t] = force]
       /\ \/ /\ ~force /\ token # None
             /\ At(t, "ask", "give") /\ UNCHANGED held
          \/ /\ ~force /\ CoolsDown
             /\ Given(t, None)
          \/ /\ force \/ (token = None /\ ~CoolsDown)
             /\ At(t, "ask", "enter") /\ UNCHANGED held
    /\ UNCHANGED <<kind, shared, refreshing, refused, mine, broker>>

\* The token is read a second time, still without the lock.
Give(t) ==
    /\ pc[t] = "give"
    /\ Given(t, token)
    /\ UNCHANGED <<kind, shared, refreshing, forced, refused, mine, broker>>

StartsLogin(t) == /\ refreshing' = TRUE
                  /\ pc' = [pc EXCEPT ![t] = "login"]
                  /\ UNCHANGED held

\* Mutation: the flag is not checked under the lock.
EnterBlind(t) ==
    /\ pc[t] = "enter"
    /\ \/ ~forced[t] /\ token # None /\ Given(t, token) /\ UNCHANGED refreshing
       \/ (forced[t] \/ token = None) /\ StartsLogin(t)
    /\ UNCHANGED <<kind, shared, forced, refused, mine, broker>>

Enter(t) ==
    /\ pc[t] = "enter"
    /\ \/ ~forced[t] /\ token # None /\ Given(t, token) /\ UNCHANGED refreshing
       \/ /\ forced[t] \/ token = None
          /\ \/ refreshing /\ At(t, "enter", "wait") /\ UNCHANGED <<held, refreshing>>
             \/ ~refreshing /\ StartsLogin(t)
    /\ UNCHANGED <<kind, shared, forced, refused, mine, broker>>

\* A waiter takes what it finds, but for a forced market data refresh.
Takes(t) == token # None /\ (kind = Interactive \/ ~forced[t])

Woken(t) ==
    /\ pc[t] = "wait" /\ ~refreshing
    /\ \/ Takes(t) /\ Given(t, token) /\ UNCHANGED refreshing
       \/ ~Takes(t) /\ StartsLogin(t)
    /\ UNCHANGED <<kind, shared, forced, refused, mine, broker>>

\* Mutation: a waiter whose wait expired starts over.
WaitExpiresAsks(t) ==
    /\ pc[t] = "wait" /\ refreshing
    /\ At(t, "wait", "ask")
    /\ UNCHANGED <<kind, shared, refreshing, forced, held, refused, mine, broker>>

\* Mutation: a waiter whose wait expired logs in itself.
WaitExpiresLogsIn(t) ==
    /\ pc[t] = "wait" /\ refreshing
    /\ \/ Takes(t) /\ Given(t, token) /\ UNCHANGED refreshing
       \/ ~Takes(t) /\ StartsLogin(t)
    /\ UNCHANGED <<kind, shared, forced, refused, mine, broker>>

\* TOKEN_REFRESH_WAIT_TIMEOUT is shorter than the timeout of a login.
WaitExpires(t) ==
    /\ pc[t] = "wait" /\ refreshing
    /\ Given(t, IF Takes(t) THEN token ELSE None)
    /\ UNCHANGED <<kind, shared, refreshing, forced, refused, mine, broker>>

-----------------------------------------------------------------------------
(* The login, by the thread that set the flag. *)

Post(t) ==
    /\ At(t, "login", "posted")
    /\ cooling' = (kind = Interactive)
    /\ UNCHANGED <<kind, token, aged, failing, refreshing, forced, held, refused, mine, broker>>

\* A new session may end the ones before it.
Grants == /\ issued < MaxLogins
          /\ issued' = issued + 1
          /\ live' \in {{issued + 1}, live \cup {issued + 1}}
          /\ UNCHANGED expiries

BrokerGrants(t) ==
    /\ At(t, "posted", "answered")
    /\ Grants
    /\ mine' = [mine EXCEPT ![t] = issued + 1]
    /\ UNCHANGED <<kind, shared, refreshing, forced, held, refused, adrift>>

LoginSucceeds(t) ==
    /\ At(t, "answered", "stored")
    /\ token' = mine[t]
    /\ aged' = FALSE /\ failing' = FALSE
    /\ Forget(mine, t, None)
    /\ UNCHANGED <<kind, cooling, refreshing, forced, held, refused, broker>>

\* Rejected, timed out, or the answer is lost; the request may still arrive.
LoginFails(t) ==
    /\ pc[t] \in {"posted", "answered"}
    /\ pc' = [pc EXCEPT ![t] = "failed"]
    /\ failing' = (kind = Interactive)
    /\ Forget(mine, t, None)
    /\ adrift' \in {adrift, IF pc[t] = "posted" THEN adrift \cup {t} ELSE adrift}
    /\ UNCHANGED <<kind, token, aged, cooling, refreshing, forced, held, refused,
                   issued, live, expiries>>

\* Mutation: no finally block around a failing login.
FinishOnSuccess(t) ==
    /\ pc[t] \in {"stored", "failed"}
    /\ Given(t, IF pc[t] = "stored" THEN token ELSE None)
    /\ refreshing' = (refreshing /\ pc[t] = "failed")
    /\ UNCHANGED <<kind, shared, forced, refused, mine, broker>>

\* The finally block: what is returned is the token of this moment.
Finish(t) ==
    /\ pc[t] \in {"stored", "failed"}
    /\ Given(t, IF pc[t] = "stored" THEN token ELSE None)
    /\ refreshing' = FALSE
    /\ UNCHANGED <<kind, shared, forced, refused, mine, broker>>

-----------------------------------------------------------------------------
(* The call uses the token, and asks for another one once. *)

Second(t) == refused[t] # None

\* The call is answered, or gives up without a token or at the second refusal.
Ends(t) ==
    /\ held[t] \in live \cup {None} \/ Second(t)
    /\ At(t, "use", "idle")
    /\ Forget(held, t, None) /\ Forget(refused, t, None) /\ Forget(forced, t, FALSE)
    /\ UNCHANGED <<kind, shared, refreshing, mine, broker>>

\* A market data call forces a refresh at once.
Refused(t) ==
    /\ pc[t] = "use" /\ held[t] \notin live \cup {None} /\ ~Second(t)
    /\ refused' = [refused EXCEPT ![t] = held[t]]
    /\ Forget(held, t, None)
    /\ IF kind = Interactive
         THEN At(t, "use", "clear") /\ UNCHANGED forced
         ELSE At(t, "use", "ask") /\ forced' = [forced EXCEPT ![t] = TRUE]
    /\ UNCHANGED <<kind, shared, refreshing, mine, broker>>

\* Mutation: the old token stays in place while its successor is fetched.
DroppedLazily == UNCHANGED <<token, aged>>

Dropped == token' = None /\ aged' = FALSE

\* clear_tokens; a query then forces a refresh, an order does not.
ClearTokens(t) ==
    /\ At(t, "clear", "ask")
    /\ Dropped /\ cooling' = FALSE
    /\ \E force \in BOOLEAN : forced' = [forced EXCEPT ![t] = force]
    /\ UNCHANGED <<kind, failing, refreshing, held, refused, mine, broker>>

\* An interactive call drops the market data token as well.
ClearedElsewhere ==
    /\ kind = MarketData /\ token # None
    /\ Dropped
    /\ UNCHANGED <<kind, failing, cooling, refreshing, pc, forced, held, refused, mine, broker>>

-----------------------------------------------------------------------------
(* Time and the broker. *)

CooldownEnds ==
    /\ cooling /\ cooling' = FALSE
    /\ UNCHANGED <<kind, token, aged, failing, refreshing, pc, forced, held, refused, mine, broker>>

TokenAges ==
    /\ token # None /\ ~aged /\ aged' = TRUE
    /\ UNCHANGED <<kind, token, failing, cooling, refreshing, pc, forced, held, refused, mine, broker>>

LateGrant(t) ==
    /\ t \in adrift
    /\ adrift' = adrift \ {t}
    /\ Grants
    /\ UNCHANGED <<kind, shared, refreshing, pc, forced, held, refused, mine>>

SessionsEnd ==
    /\ expiries < MaxExpiries /\ live # {}
    /\ expiries' = expiries + 1
    /\ live' = {}
    /\ UNCHANGED <<kind, shared, refreshing, pc, forced, held, refused, mine, issued, adrift>>

Login(t) == Post(t) \/ BrokerGrants(t) \/ LoginSucceeds(t) \/ LoginFails(t) \/ Finish(t)

Step(t) == \/ Peek(t) \/ Give(t) \/ Enter(t) \/ Woken(t) \/ WaitExpires(t)
           \/ Login(t) \/ Ends(t) \/ Refused(t) \/ ClearTokens(t)

Environment == CooldownEnds \/ TokenAges \/ SessionsEnd \/ ClearedElsewhere

Next == \/ \E t \in Thread : Call(t) \/ Step(t) \/ LateGrant(t)
        \/ Environment

Spec == Init /\ [][Next]_vars

\* A thread that can go on does; every wait and request has a timeout.
FairSpec == Spec /\ \A t \in Thread : WF_vars(Step(t))

-----------------------------------------------------------------------------
(* Properties *)

\* Types: every variable keeps its range; a thread that was refused or
\* granted a session holds a token that was issued.
TypeOK ==
    /\ kind \in Kinds
    /\ token \in 0 .. issued
    /\ aged \in BOOLEAN /\ failing \in BOOLEAN /\ cooling \in BOOLEAN
    /\ refreshing \in BOOLEAN
    /\ pc \in [Thread -> {"idle", "use", "clear"} \cup Asking \cup InFlight]
    /\ forced \in [Thread -> BOOLEAN]
    /\ held \in [Thread -> 0 .. issued]
    /\ refused \in [Thread -> 0 .. issued]
    /\ mine \in [Thread -> 0 .. issued]
    /\ issued \in 0 .. MaxLogins
    /\ live \subseteq 1 .. issued
    /\ adrift \subseteq Thread
    /\ expiries \in 0 .. MaxExpiries

\* At most one thread is between setting REFRESHING_... and its finally block,
\* and the flag is up exactly then, whoever waited, timed out or was woken.
SingleFlight ==
    /\ \A t, u \in Thread : pc[t] \in InFlight /\ pc[u] \in InFlight => t = u
    /\ refreshing <=> \E t \in Thread : pc[t] \in InFlight

\* A token that replaces another is from a later login than any token a thread
\* holds or was refused: answers to logins are never stored out of order, though
\* a login may time out, be answered late, or be granted after it was given up.
TokensMoveForward ==
    [][token' \notin {token, None} =>
         \A t \in Thread : token' > held[t] /\ token' > refused[t]]_vars

\* After a refusal the thread is given a later token or none: never again the one
\* it was refused, though it may wait for, or find, what another thread did.
FreshAfterRefusal ==
    \A t \in Thread :
        pc[t] = "use" /\ Second(t) /\ held[t] # None => held[t] > refused[t]

\* The refreshing flag always comes down again, whatever becomes of the login;
\* left up, it would keep every thread from logging in until a restart.
FlightEnds == refreshing ~> ~refreshing

\* Every call ends, with an answer or without one, after at most one retry.
CallsEnd == \A t \in Thread : pc[t] # "idle" ~> pc[t] = "idle"

=============================================================================
