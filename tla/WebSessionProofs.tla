---------------------------- MODULE WebSessionProofs ----------------------------
(***************************************************************************)
(* Proofs about WebSession, for any number of calls and of logins.         *)
(*                                                                         *)
(* The inductive invariant names the refresh under way: a call that has    *)
(* one is the call that the variable refreshing of api.ts stands for, so   *)
(* there is one at most, and whoever waits, waits for a call that has one. *)
(* Of the tokens it says that a session in the store, in a logout or in a  *)
(* refresh was opened by a login: a later login stores another.            *)
(***************************************************************************)
EXTENDS WebSession, FiniteSetTheorems, TLAPS

\* A refresh under way is the one that is shared, and every waiter has one.
FlightIsShared ==
    /\ \A c \in Calls : flight[c] # NoFlight => refreshing = c
    /\ \A c \in Calls : call[c].pc = "waiting" =>
           call[c].waitsFor \in Calls /\ flight[call[c].waitsFor] # NoFlight
    /\ \A c \in Calls : flight[c].state = "none" => flight[c] = NoFlight

\* Sessions are opened by a login, and what has been logged out is not stored.
SessionsAreOpened ==
    /\ refresh \in used \cup {None}
    /\ logout # NoLogout => logout.session \in used
    /\ \A c \in Calls : flight[c] # NoFlight => flight[c].session \in used
    /\ loggedOut \subseteq used
    /\ refresh \notin loggedOut

Inv == TypeOK /\ FlightIsShared /\ SessionsAreOpened

-----------------------------------------------------------------------------
\* The records of the calls are calls.
LEMMA CallTypes ==
    /\ NoCall \in CallStates /\ NoCall.pc # "waiting"
    /\ \A by \in {"page", "loadUser", "login"}, t \in Maybe(Sessions) :
         /\ Sent(by, t) \in CallStates
         /\ Sent(by, t).pc = "sent"
         /\ [Sent(by, t) EXCEPT !.retry = TRUE] \in CallStates
         /\ [Sent(by, t) EXCEPT !.retry = TRUE].pc = "sent"
  BY DEF NoCall, Sent, CallStates, Maybe

\* Steps that leave the refresh alone, and make no call wait.
LEMMA NoRefreshInv ==
    ASSUME FlightIsShared, UNCHANGED network,
           \A c \in Calls : call'[c].pc = "waiting" => call'[c] = call[c]
    PROVE  FlightIsShared'
  BY DEF FlightIsShared, network

\* Steps that leave the tokens alone.
LEMMA NoTokenInv ==
    ASSUME SessionsAreOpened, UNCHANGED <<refresh, flight, logout, used, loggedOut>>
    PROVE  SessionsAreOpened'
  BY DEF SessionsAreOpened

LEMMA InitInv ==
    ASSUME Init
    PROVE  Inv
<1>1. TypeOK
  <2>1. login \in 0 .. MaxLogins
    BY LoginsAssumption DEF Init
  <2> QED  BY <2>1, CallTypes DEF Init, TypeOK, Maybe, NoFlight, NoLogout
<1>2. FlightIsShared
  BY DEF Init, FlightIsShared, NoFlight, NoCall
<1>3. SessionsAreOpened
  BY DEF Init, SessionsAreOpened
<1> QED  BY <1>1, <1>2, <1>3 DEF Inv

\* An answer that ends a call, or one that is refused for good.
LEMMA CallInv ==
    ASSUME Inv, NEW c \in Calls,
           PageCalls(c) \/ Succeeds(c) \/ Fails(c) \/ Unauthorized(c)
    PROVE  Inv'
<1>1. /\ \E x \in {NoCall, Sent("page", access)} : call' = [call EXCEPT ![c] = x]
      /\ user' \in {user, None, call[c].token}
      /\ UNCHANGED <<stored, network, login, logout, used, revoked, loggedOut>>
  BY DEF PageCalls, Succeeds, Fails, Unauthorized, Rejected
<1>2. call[c] \in CallStates /\ access \in Maybe(Sessions)
  BY DEF Inv, TypeOK
<1>3. /\ NoCall \in CallStates /\ NoCall.pc # "waiting"
      /\ Sent("page", access) \in CallStates /\ Sent("page", access).pc = "sent"
  BY <1>2, CallTypes
<1>4. TypeOK'
  BY <1>1, <1>2, <1>3 DEF Inv, TypeOK, CallStates, Maybe, stored, network
<1>5. FlightIsShared'
  BY <1>1, <1>3, NoRefreshInv DEF Inv, TypeOK, network
<1>6. SessionsAreOpened'
  BY <1>1, NoTokenInv DEF Inv, stored, network
<1> QED  BY <1>4, <1>5, <1>6 DEF Inv

\* A refused call joins the refresh under way, or starts one.
LEMMA RefreshesInv ==
    ASSUME Inv, NEW c \in Calls, Refreshes(c)
    PROVE  Inv'
<1> DEFINE sh == Shared(c)
<1>1. /\ call' = [call EXCEPT ![c].pc = "waiting", ![c].retry = TRUE, ![c].waitsFor = sh]
      /\ refreshing' = sh
      /\ flight' = [flight EXCEPT ![sh] =
                      IF @ = NoFlight THEN [state |-> "sent", session |-> refresh] ELSE @]
      /\ UNCHANGED <<stored, user, login, logout, used, revoked, loggedOut>>
  BY DEF Refreshes
<1>2. sh \in Calls /\ (refreshing # None => sh = refreshing)
  BY DEF Inv, TypeOK, Maybe, Shared
<1>3. TypeOK'
  <2>1. [call[c] EXCEPT !.pc = "waiting", !.retry = TRUE, !.waitsFor = sh] \in CallStates
    BY <1>2 DEF Inv, TypeOK, CallStates, Maybe
  <2>2. call' \in [Calls -> CallStates]
    BY <1>1, <2>1 DEF Inv, TypeOK
  <2>3. flight' \in [Calls -> [state : {"none", "sent", "granted", "denied"},
                               session : Maybe(Sessions)]]
    BY <1>1, <1>2 DEF Inv, TypeOK
  <2> QED  BY <1>1, <1>2, <2>2, <2>3 DEF Inv, TypeOK, stored, Maybe
<1>4. FlightIsShared'
  <2>1. /\ flight'[sh] # NoFlight /\ flight'[sh].state # "none"
        /\ \A d \in Calls \ {sh} : flight'[d] = flight[d]
    BY <1>1, <1>2 DEF Inv, TypeOK, FlightIsShared, NoFlight
  <2>2. \A d \in Calls : flight[d] # NoFlight => d = sh
    BY <1>2, NoneAssumption DEF Inv, FlightIsShared
  <2>3. call'[c].waitsFor = sh /\ \A d \in Calls \ {c} : call'[d] = call[d]
    BY <1>1 DEF Inv, TypeOK, CallStates
  <2> QED  BY <1>1, <1>2, <2>1, <2>2, <2>3 DEF Inv, FlightIsShared
<1>5. SessionsAreOpened'
  <2>1. refresh \in used
    BY DEF Refreshes, Inv, SessionsAreOpened
  <2>2. \A d \in Calls : flight'[d] # NoFlight => flight'[d].session \in used
    BY <1>1, <1>2, <2>1 DEF Inv, TypeOK, SessionsAreOpened
  <2> QED  BY <1>1, <2>2 DEF Inv, SessionsAreOpened, stored
<1> QED  BY <1>3, <1>4, <1>5 DEF Inv

\* The server answers the refresh.
LEMMA DecidedInv ==
    ASSUME Inv, NEW c \in Calls, Granted(c) \/ Denied(c)
    PROVE  Inv'
<1>1. /\ flight[c].state = "sent"
      /\ \E x \in {"granted", "denied"} : flight' = [flight EXCEPT ![c].state = x]
      /\ UNCHANGED <<stored, user, call, refreshing, login, logout, used, revoked, loggedOut>>
  BY DEF Granted, Denied
<1>2. /\ flight[c] # NoFlight /\ flight'[c] # NoFlight /\ flight'[c].state # "none"
      /\ flight'[c] \in [state : {"none", "sent", "granted", "denied"},
                         session : Maybe(Sessions)]
      /\ flight' = [flight EXCEPT ![c] = flight'[c]]
  BY <1>1 DEF Inv, TypeOK, NoFlight
<1>3. TypeOK'
  BY <1>1, <1>2 DEF Inv, TypeOK, stored
<1>4. FlightIsShared'
  BY <1>1, <1>2 DEF Inv, TypeOK, FlightIsShared
<1>5. SessionsAreOpened'
  <2>1. flight'[c].session = flight[c].session /\ flight'[c].state # "none"
    BY <1>1 DEF Inv, TypeOK
  <2> QED  BY <1>1, <1>2, <2>1 DEF Inv, TypeOK, SessionsAreOpened, stored
<1> QED  BY <1>3, <1>4, <1>5 DEF Inv

\* The refresh ends, for every call that waits for it.
LEMMA RefreshEndsInv ==
    ASSUME Inv, NEW c \in Calls, RefreshSucceeds(c) \/ RefreshFails(c)
    PROVE  Inv'
<1>1. /\ flight[c].state \in {"granted", "denied"}
      /\ flight' = [flight EXCEPT ![c] = NoFlight]
      /\ refreshing' = None
      /\ access' \in {flight[c].session, None}
      /\ refresh' \in {refresh, None}
      /\ user' \in {user, None}
      /\ UNCHANGED <<login, logout, used, revoked, loggedOut>>
  BY DEF RefreshSucceeds, RefreshFails
<1>2. flight[c] # NoFlight /\ refreshing = c
  BY <1>1 DEF Inv, FlightIsShared, NoFlight
<1>3. access' \in Maybe(Sessions)
  BY <1>1 DEF Inv, TypeOK, Maybe
<1>4. /\ call' \in [Calls -> CallStates]
      /\ \A d \in Calls : call'[d].pc = "waiting" => d \notin Waiters(c) /\ call'[d] = call[d]
  <2>1. \A d \in Calls : [Sent(call[d].by, access') EXCEPT !.retry = TRUE] \in CallStates
    BY <1>3, CallTypes DEF Inv, TypeOK, CallStates
  <2>2. \A d \in Calls : [Sent(call[d].by, access') EXCEPT !.retry = TRUE].pc # "waiting"
    BY DEF Sent
  <2>3. CASE RefreshSucceeds(c)
    BY <2>1, <2>2, <2>3 DEF RefreshSucceeds, Inv, TypeOK
  <2>4. CASE RefreshFails(c)
    BY <2>4, CallTypes DEF RefreshFails, Inv, TypeOK
  <2> QED  BY <2>3, <2>4
<1>5. TypeOK'
  BY <1>1, <1>3, <1>4 DEF Inv, TypeOK, Maybe, NoFlight
<1>6. FlightIsShared'
  <2>1. \A d \in Calls : flight'[d] = NoFlight
    BY <1>1, <1>2 DEF Inv, TypeOK, FlightIsShared
  <2>2. \A d \in Calls : call'[d].pc # "waiting"
    <3> SUFFICES ASSUME NEW d \in Calls, call'[d].pc = "waiting"
                 PROVE  FALSE
      OBVIOUS
    <3>1. call[d].pc = "waiting" /\ d \notin Waiters(c)
      BY <1>4
    <3>2. call[d].waitsFor = c
      BY <1>2, <3>1 DEF Inv, FlightIsShared
    <3> QED  BY <3>1, <3>2 DEF Waiters
  <2> QED  BY <2>1, <2>2 DEF FlightIsShared
<1>7. SessionsAreOpened'
  BY <1>1, NoneAssumption DEF Inv, TypeOK, SessionsAreOpened
<1> QED  BY <1>5, <1>6, <1>7 DEF Inv

\* A login opens a session of its own.
LEMMA LoginInv ==
    ASSUME Inv, NEW c \in Calls, NEW s \in Sessions, LoginSucceeds(c, s)
    PROVE  Inv'
<1>1. Sent("login", s) \in CallStates /\ Sent("login", s).pc = "sent"
  BY CallTypes DEF Maybe
<1>2. TypeOK'
  <2>1. login' \in 0 .. MaxLogins
    BY LoginsAssumption DEF Inv, TypeOK, LoginSucceeds
  <2> QED  BY <1>1, <2>1 DEF Inv, TypeOK, LoginSucceeds, Maybe, network
<1>3. FlightIsShared'
  BY <1>1, NoRefreshInv DEF Inv, TypeOK, LoginSucceeds
<1>4. SessionsAreOpened'
  BY DEF Inv, SessionsAreOpened, LoginSucceeds, network
<1> QED  BY <1>2, <1>3, <1>4 DEF Inv

\* Logout takes the tokens out of the store, whatever the server says.
LEMMA LogoutInv ==
    ASSUME Inv, Logout \/ LogoutLocally \/ Revokes \/ LogoutFails \/ LogoutEnds
    PROVE  Inv'
<1>1. call' = call /\ UNCHANGED network
  BY DEF Logout, LogoutLocally, Revokes, LogoutFails, LogoutEnds
<1>2. FlightIsShared'
  BY <1>1, NoRefreshInv DEF Inv
<1>3. TypeOK' /\ SessionsAreOpened'
  <2>1. CASE Logout
    BY <2>1 DEF Logout, Inv, TypeOK, SessionsAreOpened, Maybe, stored, network, NoLogout
  <2>2. CASE LogoutLocally
    BY <2>2 DEF LogoutLocally, Inv, TypeOK, SessionsAreOpened, Maybe, network
  <2>3. CASE Revokes \/ LogoutFails
    <3>1. /\ logout.state = "sent" /\ logout # NoLogout
          /\ logout' = [logout EXCEPT !.state = "answered"]
          /\ revoked' \in {revoked, revoked \cup {logout.session}}
          /\ UNCHANGED <<stored, user, call, network, login, used, loggedOut>>
      BY <2>3 DEF Revokes, LogoutFails, NoLogout
    <3>2. logout.session \in used /\ logout'.session = logout.session
      BY <3>1 DEF Inv, TypeOK, SessionsAreOpened
    <3> QED  BY <3>1, <3>2 DEF Inv, TypeOK, SessionsAreOpened, stored, network
  <2>4. CASE LogoutEnds
    <3>1. logout.session \in used /\ logout.session # None
      BY <2>4, NoneAssumption
      DEF LogoutEnds, Inv, TypeOK, SessionsAreOpened, NoLogout
    <3> QED
      BY <2>4, <3>1, NoneAssumption
      DEF LogoutEnds, Inv, TypeOK, SessionsAreOpened, NoLogout, Maybe, network
  <2> QED  BY <2>1, <2>2, <2>3, <2>4
<1> QED  BY <1>2, <1>3 DEF Inv

\* The form sends a login, or gets no session for it.
LEMMA FormInv ==
    ASSUME Inv, Login \/ LoginFails
    PROVE  Inv'
<1>1. /\ login' \in 0 .. MaxLogins
      /\ UNCHANGED <<stored, user, call, network, logout, used, revoked, loggedOut>>
  BY LoginsAssumption DEF Login, LoginFails, Inv, TypeOK
<1> QED
  BY <1>1 DEF Inv, TypeOK, FlightIsShared, SessionsAreOpened, stored, network

\* A reload forgets the calls and their refresh, not the store.
LEMMA ReloadInv ==
    ASSUME Inv, NEW c \in Calls, Reload(c)
    PROVE  Inv'
<1>1. \A d \in Calls : call'[d] \in CallStates /\ call'[d].pc # "waiting"
  BY CallTypes DEF Reload, Inv, TypeOK
<1>2. TypeOK'
  <2>1. login' \in 0 .. MaxLogins
    BY LoginsAssumption DEF Reload
  <2> QED  BY <1>1, <2>1 DEF Reload, Inv, TypeOK, stored, NoFlight, NoLogout, Maybe
<1>3. FlightIsShared'
  BY <1>1 DEF Reload, FlightIsShared
<1>4. SessionsAreOpened'
  BY DEF Reload, Inv, SessionsAreOpened, stored
<1> QED  BY <1>2, <1>3, <1>4 DEF Inv

LEMMA NextInv ==
    ASSUME Inv, [Next]_vars
    PROVE  Inv'
<1>1. CASE UNCHANGED vars
  BY <1>1 DEF vars, stored, network, Inv, TypeOK, FlightIsShared, SessionsAreOpened
<1>2. CASE Next
  BY <1>2, CallInv, RefreshesInv, DecidedInv, RefreshEndsInv, LoginInv, LogoutInv,
     FormInv, ReloadInv
  DEF Next, Answered, RefreshEnds
<1> QED  BY <1>1, <1>2

-----------------------------------------------------------------------------
(***************************************************************************)
(* The inductive invariant holds: the refresh under way is the shared one, *)
(* and the stored session is an open one.                                  *)
(***************************************************************************)
THEOREM Invariance == Spec => []Inv
<1>1. Init => Inv
  BY InitInv
<1>2. Inv /\ [Next]_vars => Inv'
  BY NextInv
<1> QED  BY <1>1, <1>2, PTL DEF Spec

(***************************************************************************)
(* Every variable stays in its set: no token but a login's is stored.      *)
(***************************************************************************)
THEOREM TypeCorrect == Spec => []TypeOK
<1>1. Inv => TypeOK
  BY DEF Inv
<1> QED  BY <1>1, Invariance, PTL

(***************************************************************************)
(* However many calls are refused at once, the tab has one refresh under   *)
(* way, and a call that waits, waits for it.                               *)
(***************************************************************************)
THEOREM OneRefresh == Spec => []SingleFlight
<1>1. Inv => SingleFlight
  <2> SUFFICES ASSUME Inv PROVE SingleFlight
    OBVIOUS
  <2> DEFINE F == {c \in Calls : flight[c] # NoFlight}
  <2>1. F \subseteq {refreshing}
    BY DEF Inv, FlightIsShared
  <2>2. IsFiniteSet({refreshing}) /\ Cardinality({refreshing}) = 1
    BY FS_Singleton
  <2>3. Cardinality(F) <= 1
    BY <2>1, <2>2, FS_Subset
  <2> QED  BY <2>3 DEF Inv, FlightIsShared, SingleFlight
<1> QED  BY <1>1, Invariance, PTL

(***************************************************************************)
(* A session whose logout has ended does not get its refresh token back.   *)
(***************************************************************************)
THEOREM LogoutKeepsOut == Spec => []RefreshTokenStaysOut
<1>1. Inv => RefreshTokenStaysOut
  BY DEF Inv, SessionsAreOpened, RefreshTokenStaysOut
<1> QED  BY <1>1, Invariance, PTL

-----------------------------------------------------------------------------
(***************************************************************************)
(* A 401 is retried once: however the answers come, what is left of a call *)
(* shrinks with every step that changes it, unless the tab is reloaded.    *)
(***************************************************************************)
THEOREM NobodyRetriesForever == Spec => CallsMoveForward
<1>1. Inv /\ [Next]_vars =>
        [Reloads \/ \A c \in Calls :
           call[c].pc # "idle" => call'[c] = call[c] \/ Left(c)' < Left(c)]_vars
  <2> SUFFICES ASSUME Inv, Next, ~Reloads, NEW c \in Calls,
                      call[c].pc # "idle", call'[c] # call[c]
               PROVE  Left(c)' < Left(c)
    BY Zenon
  <2>1. call[c] \in CallStates /\ call \in [Calls -> CallStates]
    BY DEF Inv, TypeOK
  <2>2. PICK d \in Calls :
          \/ Succeeds(d) \/ Fails(d) \/ Unauthorized(d) \/ Refreshes(d)
          \/ RefreshSucceeds(d) \/ RefreshFails(d)
    BY DEF Next, Reloads, Answered, RefreshEnds, PageCalls, Granted, Denied, LoginSucceeds,
           Login, LoginFails, Logout, LogoutLocally, Revokes, LogoutFails, LogoutEnds,
           Inv, TypeOK
  <2>3. CASE Succeeds(d) \/ Fails(d) \/ Unauthorized(d)
    <3>1. call'[c] = NoCall
      BY <2>1, <2>3 DEF Succeeds, Fails, Unauthorized, Rejected
    <3> QED  BY <2>1, <3>1 DEF Left, NoCall, CallStates
  <2>4. CASE Refreshes(d)
    <3>1. c = d /\ call[c].pc = "sent" /\ ~call[c].retry /\ call'[c].pc = "waiting"
      BY <2>1, <2>4 DEF Refreshes, CallStates
    <3> QED  BY <3>1 DEF Left
  <2>5. CASE RefreshSucceeds(d)
    <3>1. /\ call[c].pc = "waiting"
          /\ call'[c] = [Sent(call[c].by, access') EXCEPT !.retry = TRUE]
      BY <2>5 DEF RefreshSucceeds, Waiters
    <3>2. call'[c].pc = "sent" /\ call'[c].retry
      BY <3>1 DEF Sent
    <3> QED  BY <3>1, <3>2 DEF Left
  <2>6. CASE RefreshFails(d)
    <3>1. call[c].pc = "waiting" /\ call'[c] = NoCall
      BY <2>6 DEF RefreshFails, Waiters
    <3> QED  BY <3>1 DEF Left, NoCall
  <2> QED  BY <2>2, <2>3, <2>4, <2>5, <2>6
<1> QED  BY <1>1, Invariance, PTL DEF Spec, CallsMoveForward

-----------------------------------------------------------------------------
(***************************************************************************)
(* The server of the tab is that of SessionService.                        *)
(***************************************************************************)
\* A refused call asks for a refresh of the stored session, once.
LEMMA RefreshesStep ==
    ASSUME Inv, NEW c \in Calls, Refreshes(c)
    PROVE  [Service!Next]_Service!vars
<1> DEFINE sh == Shared(c)
<1>1. /\ sh \in Calls /\ refresh \in Sessions /\ refresh \in used
      /\ flight \in [Calls -> [state : {"none", "sent", "granted", "denied"},
                               session : Maybe(Sessions)]]
  BY DEF Refreshes, Inv, TypeOK, SessionsAreOpened, Maybe, Shared
<1>2. CASE flight[sh] = NoFlight
  <2>1. flight' = [flight EXCEPT ![sh] = [state |-> "sent", session |-> refresh]]
    BY <1>1, <1>2 DEF Refreshes
  <2>2. Service!Ask(sh, refresh)
    BY <1>1, <1>2, <2>1 DEF Refreshes, Service!Ask, Service!Unasked, NoFlight
  <2> QED  BY <1>1, <2>2 DEF Service!Next
<1>3. CASE flight[sh] # NoFlight
  <2>1. flight' = flight
    BY <1>1, <1>3 DEF Refreshes
  <2> QED  BY <2>1 DEF Refreshes, Service!vars
<1> QED  BY <1>2, <1>3

(***************************************************************************)
(* What this module lets the server do is what the service can do, step by *)
(* step: the tab relies on nothing that AuthSessions does not keep.        *)
(***************************************************************************)
THEOREM ServiceRespected == Spec => RespectsService
<1>1. Init => Service!Init
  BY DEF Init, Service!Init, Service!Unasked, NoFlight
<1>2. Inv /\ [Next]_vars => [Service!Next]_Service!vars
  <2> SUFFICES ASSUME Inv, [Next]_vars PROVE [Service!Next]_Service!vars
    OBVIOUS
  <2>1. CASE UNCHANGED <<used, revoked, flight>>
    BY <2>1 DEF Service!vars
  <2>2. ASSUME NEW c \in Calls, Refreshes(c)
        PROVE  [Service!Next]_Service!vars
    BY <2>2, RefreshesStep
  <2>3. ASSUME NEW c \in Calls, Granted(c)
        PROVE  Service!Grant(c)
    BY <2>3 DEF Granted, Service!Grant, Inv, SessionsAreOpened, NoFlight
  <2>4. ASSUME NEW c \in Calls, Denied(c)
        PROVE  Service!Deny(c)
    BY <2>4 DEF Denied, Service!Deny
  <2>5. ASSUME NEW c \in Calls, RefreshSucceeds(c) \/ RefreshFails(c)
        PROVE  Service!Done({c})
    <3>1. /\ flight' = [flight EXCEPT ![c] = NoFlight]
          /\ UNCHANGED <<used, revoked>>
      BY <2>5 DEF RefreshSucceeds, RefreshFails
    <3>2. flight' = [d \in Calls |-> IF d \in {c} THEN Service!Unasked ELSE flight[d]]
      BY <3>1 DEF Inv, TypeOK, Service!Unasked, NoFlight
    <3> QED  BY <3>1, <3>2 DEF Service!Done
  <2>6. ASSUME NEW c \in Calls, NEW s \in Sessions, LoginSucceeds(c, s)
        PROVE  Service!Open(s)
    BY <2>6 DEF LoginSucceeds, Service!Open, network
  <2>7. ASSUME Revokes
        PROVE  logout.session \in Sessions /\ Service!Close(logout.session)
    <3>1. logout.session \in used /\ logout.session \in Sessions
      BY <2>7 DEF Revokes, Inv, TypeOK, SessionsAreOpened, NoLogout
    <3> QED  BY <2>7, <3>1 DEF Revokes, Service!Close, network
  <2>8. ASSUME NEW c \in Calls, Reload(c)
        PROVE  Service!Done(Calls)
    BY <2>8 DEF Reload, Service!Done, Service!Unasked, NoFlight
  <2>9. ASSUME NEW c \in Calls, PageCalls(c) \/ Succeeds(c) \/ Fails(c) \/ Unauthorized(c)
        PROVE  UNCHANGED <<used, revoked, flight>>
    BY <2>9 DEF PageCalls, Succeeds, Fails, Unauthorized, network
  <2>10. ASSUME \/ Login \/ LoginFails \/ Logout \/ LogoutLocally \/ LogoutFails
                \/ LogoutEnds \/ UNCHANGED vars
         PROVE  UNCHANGED <<used, revoked, flight>>
    BY <2>10
    DEF Login, LoginFails, Logout, LogoutLocally, LogoutFails, LogoutEnds, vars, network
  <2> QED
    BY <2>1, <2>2, <2>3, <2>4, <2>5, <2>6, <2>7, <2>8, <2>9, <2>10
    DEF Next, Answered, RefreshEnds, Service!Next
<1> QED  BY <1>1, <1>2, Invariance, PTL DEF Spec, RespectsService, Service!Spec

(***************************************************************************)
(* And the other way round: whatever the service answers to a refresh, the *)
(* tab is ready to take, so that what is proved of the tab holds of it     *)
(* together with AuthSessions.                                             *)
(***************************************************************************)
LEMMA EveryAnswerIsTaken ==
    ASSUME Inv, NEW c \in Calls,
           UNCHANGED <<stored, user, call, refreshing, login, logout, loggedOut>>
    PROVE  /\ Service!Grant(c) <=> Granted(c)
           /\ Service!Deny(c) <=> Denied(c)
  BY DEF Inv, SessionsAreOpened, NoFlight, Service!Grant, Service!Deny, Granted, Denied

=============================================================================
