----------------------------- MODULE WebSession -----------------------------
(***************************************************************************)
(* The session of one browser tab: the axios client of api.ts with its     *)
(* token store and its refresh on 401, and the AuthProvider of             *)
(* auth-context.tsx.                                                       *)
(*                                                                         *)
(* The tab runs one task at a time.  A step here is one task: from a user  *)
(* action or from an answer of the network up to the next await of         *)
(* something that is not settled yet.  In between, tasks interleave.       *)
(*                                                                         *)
(* The server is external.  It answers a call 2xx, 401 or with some other  *)
(* failure, grants or denies a refresh (never one whose token it has       *)
(* revoked), and its answers take any time.  A token is named by the login *)
(* session it belongs to; the user shown by the session of the token that  *)
(* fetched it.                                                             *)
(***************************************************************************)
EXTENDS Naturals, FiniteSets

CONSTANTS
    Calls,      \* calls of the api client under way at a time
    Sessions,   \* the logins of a behaviour (bound of the model)
    MaxLogins,  \* those of them that are sent at a time (bound of the model)
    None        \* no token, no user, no call

ASSUME NoneAssumption == None \notin Calls \cup Sessions
ASSUME LoginsAssumption == MaxLogins \in Nat

VARIABLES
    access,     \* localStorage piple_access_token
    refresh,    \* localStorage piple_refresh_token
    user,       \* state of the AuthProvider
    call,       \* the calls of the api client
    flight,     \* the refresh each call started, if it started one
    refreshing, \* the call whose refresh is shared (api.ts: refreshing)
    login,      \* how many logins are sent and not answered
    logout,     \* the logout under way and the session it is for
    used,       \* sessions the server has opened
    revoked,    \* sessions whose refresh token the server has revoked
    loggedOut   \* history: sessions whose logout has ended

stored == <<access, refresh>>
network == <<flight, refreshing>>
vars == <<access, refresh, user, call, flight, refreshing, login, logout,
          used, revoked, loggedOut>>

Maybe(S) == S \cup {None}

(***************************************************************************)
(* A call: what its caller does with the answer (loadUser and login set    *)
(* the user, everybody else does not), the session of the token it was     *)
(* sent with, whether it is the retry, and whose refresh it waits for.     *)
(***************************************************************************)
CallStates ==
    [pc : {"idle", "sent", "waiting"}, by : {"page", "loadUser", "login"},
     token : Maybe(Sessions), retry : BOOLEAN, waitsFor : Maybe(Calls)]

NoCall ==
    [pc |-> "idle", by |-> "page", token |-> None, retry |-> FALSE,
     waitsFor |-> None]

NoFlight == [state |-> "none", session |-> None]
NoLogout == [state |-> "idle", session |-> None]

Init ==
    /\ access = None /\ refresh = None /\ user = None
    /\ call = [c \in Calls |-> NoCall]
    /\ flight = [c \in Calls |-> NoFlight]
    /\ refreshing = None
    /\ login = 0
    /\ logout = NoLogout
    /\ used = {} /\ revoked = {}
    /\ loggedOut = {}

-----------------------------------------------------------------------------
(***************************************************************************)
(* Calls of the api client.                                                *)
(***************************************************************************)
\* The request interceptor puts the stored access token on every request.
Sent(by, token) ==
    [pc |-> "sent", by |-> by, token |-> token, retry |-> FALSE,
     waitsFor |-> None]

\* A page that needs a user asks for its data.
PageCalls(c) ==
    /\ user # None
    /\ call[c].pc = "idle"
    /\ call' = [call EXCEPT ![c] = Sent("page", access)]
    /\ UNCHANGED <<stored, user, network, login, logout, used, revoked, loggedOut>>

\* The caller takes the result: me() is awaited by loadUser and by login.
Succeeds(c) ==
    /\ call[c].pc = "sent"
    /\ call' = [call EXCEPT ![c] = NoCall]
    /\ user' = IF call[c].by \in {"loadUser", "login"} THEN call[c].token
                                                       ELSE user
    /\ UNCHANGED <<stored, network, login, logout, used, revoked, loggedOut>>

Rejected(c) ==
    /\ call' = [call EXCEPT ![c] = NoCall]
    /\ user' = IF call[c].by = "loadUser" THEN None ELSE user

Fails(c) ==
    /\ call[c].pc = "sent"
    /\ Rejected(c)
    /\ UNCHANGED <<stored, network, login, logout, used, revoked, loggedOut>>

\* 401 for the retry, or with no refresh token stored.
Unauthorized(c) ==
    /\ call[c].pc = "sent"
    /\ call[c].retry \/ refresh = None
    /\ Rejected(c)
    /\ UNCHANGED <<stored, network, login, logout, used, revoked, loggedOut>>

\* 401 otherwise: wait for the refresh under way, or start one.
NotShared(c) == c               \* mutant: every 401 starts its own refresh

Shared(c) == IF refreshing # None THEN refreshing ELSE c

RetryForgotten(c) ==            \* mutant: _retry is not looked at
    /\ call[c].pc = "sent"
    /\ refresh # None
    /\ call' = [call EXCEPT ![c].pc = "waiting", ![c].retry = TRUE,
                            ![c].waitsFor = Shared(c)]
    /\ refreshing' = Shared(c)
    /\ flight' = [flight EXCEPT ![Shared(c)] =
                    IF @ = NoFlight THEN [state |-> "sent", session |-> refresh]
                                    ELSE @]
    /\ UNCHANGED <<stored, user, login, logout, used, revoked, loggedOut>>

Refreshes(c) ==
    /\ call[c].pc = "sent"
    /\ ~call[c].retry
    /\ refresh # None
    /\ call' = [call EXCEPT ![c].pc = "waiting", ![c].retry = TRUE,
                            ![c].waitsFor = Shared(c)]
    /\ refreshing' = Shared(c)
    /\ flight' = [flight EXCEPT ![Shared(c)] =
                    IF @ = NoFlight THEN [state |-> "sent", session |-> refresh]
                                    ELSE @]
    /\ UNCHANGED <<stored, user, login, logout, used, revoked, loggedOut>>

-----------------------------------------------------------------------------
(***************************************************************************)
(* The refresh: the server's answer, and the task that takes it.           *)
(***************************************************************************)
Granted(c) ==
    /\ flight[c].state = "sent"
    /\ flight[c].session \notin revoked
    /\ flight' = [flight EXCEPT ![c].state = "granted"]
    /\ UNCHANGED <<stored, user, call, refreshing, login, logout, used, revoked,
                   loggedOut>>

Denied(c) ==
    /\ flight[c].state = "sent"
    /\ flight' = [flight EXCEPT ![c].state = "denied"]
    /\ UNCHANGED <<stored, user, call, refreshing, login, logout, used, revoked,
                   loggedOut>>

Waiters(c) == {d \in Calls : call[d].pc = "waiting" /\ call[d].waitsFor = c}

\* tokenStore.set(newAccess), then every waiter sends its request again.
GrantedBoth(c) ==               \* mutant: the refresh token is stored again
    /\ flight[c].state = "granted"
    /\ access' = flight[c].session
    /\ refresh' = flight[c].session
    /\ call' = [d \in Calls |->
                  IF d \in Waiters(c)
                    THEN [Sent(call[d].by, access') EXCEPT !.retry = TRUE]
                    ELSE call[d]]
    /\ flight' = [flight EXCEPT ![c] = NoFlight]
    /\ refreshing' = None
    /\ UNCHANGED <<user, login, logout, used, revoked, loggedOut>>

RefreshSucceeds(c) ==
    /\ flight[c].state = "granted"
    /\ access' = flight[c].session
    /\ call' = [d \in Calls |->
                  IF d \in Waiters(c)
                    THEN [Sent(call[d].by, access') EXCEPT !.retry = TRUE]
                    ELSE call[d]]
    /\ flight' = [flight EXCEPT ![c] = NoFlight]
    /\ refreshing' = None
    /\ UNCHANGED <<refresh, user, login, logout, used, revoked, loggedOut>>

\* tokenStore.clear(), onAuthFailure, and every waiter rejects.
RefreshFails(c) ==
    /\ flight[c].state = "denied"
    /\ access' = None /\ refresh' = None /\ user' = None
    /\ call' = [d \in Calls |-> IF d \in Waiters(c) THEN NoCall ELSE call[d]]
    /\ flight' = [flight EXCEPT ![c] = NoFlight]
    /\ refreshing' = None
    /\ UNCHANGED <<login, logout, used, revoked, loggedOut>>

-----------------------------------------------------------------------------
(***************************************************************************)
(* login, logout, and the tab.                                             *)
(***************************************************************************)
\* A form is disabled while its login is under way, but the login page has
\* no gate: it is mounted for whoever opens it, and anew with another form.
Login ==
    /\ login < MaxLogins
    /\ login' = login + 1
    /\ UNCHANGED <<stored, user, call, network, logout, used, revoked, loggedOut>>

LoginFails ==
    /\ login > 0
    /\ login' = login - 1
    /\ UNCHANGED <<stored, user, call, network, logout, used, revoked, loggedOut>>

\* tokenStore.set(access, refresh), then me().
LoginSucceeds(c, s) ==
    /\ login > 0
    /\ login' = login - 1
    /\ s \notin used
    /\ used' = used \cup {s}
    /\ access' = s /\ refresh' = s
    /\ call[c].pc = "idle"
    /\ call' = [call EXCEPT ![c] = Sent("login", s)]
    /\ UNCHANGED <<user, network, logout, revoked, loggedOut>>

Logout ==
    /\ user # None
    /\ logout = NoLogout
    /\ refresh # None
    /\ logout' = [state |-> "sent", session |-> refresh]
    /\ UNCHANGED <<stored, user, call, network, login, used, revoked, loggedOut>>

\* Without a refresh token there is nothing to send.
LogoutLocally ==
    /\ user # None
    /\ logout = NoLogout
    /\ refresh = None
    /\ access' = None /\ user' = None
    /\ UNCHANGED <<refresh, call, network, login, logout, used, revoked, loggedOut>>

Revokes ==
    /\ logout.state = "sent"
    /\ revoked' = revoked \cup {logout.session}
    /\ logout' = [logout EXCEPT !.state = "answered"]
    /\ UNCHANGED <<stored, user, call, network, login, used, loggedOut>>

\* The server or the network fails: the error is ignored.
LogoutFails ==
    /\ logout.state = "sent"
    /\ logout' = [logout EXCEPT !.state = "answered"]
    /\ UNCHANGED <<stored, user, call, network, login, used, revoked, loggedOut>>

LogoutEnds ==
    /\ logout.state = "answered"
    /\ logout' = NoLogout
    /\ access' = None /\ refresh' = None /\ user' = None
    /\ loggedOut' = loggedOut \cup {logout.session}
    /\ UNCHANGED <<call, network, login, used, revoked>>

\* The tab is reloaded: localStorage is all that stays, and loadUser runs.
Reload(c) ==
    /\ user' = None
    /\ call' = [d \in Calls |->
                  IF d = c /\ access # None THEN Sent("loadUser", access)
                                            ELSE NoCall]
    /\ flight' = [d \in Calls |-> NoFlight]
    /\ refreshing' = None
    /\ login' = 0
    /\ logout' = NoLogout
    /\ UNCHANGED <<stored, used, revoked, loggedOut>>

-----------------------------------------------------------------------------
Answered(c) ==
    \/ Succeeds(c)
    \/ Fails(c)
    \/ Unauthorized(c)
    \/ Refreshes(c)

RefreshEnds(c) ==
    \/ Granted(c)
    \/ Denied(c)
    \/ RefreshSucceeds(c)
    \/ RefreshFails(c)

Next ==
    \/ \E c \in Calls :
         PageCalls(c) \/ Answered(c) \/ RefreshEnds(c) \/ Reload(c)
    \/ \E c \in Calls, s \in Sessions : LoginSucceeds(c, s)
    \/ Login \/ LoginFails
    \/ Logout \/ LogoutLocally \/ Revokes \/ LogoutFails \/ LogoutEnds

Spec == Init /\ [][Next]_vars

(***************************************************************************)
(* Every request is answered at last, if only with an error, and the tab   *)
(* runs the tasks it has.  (The client sets no timeout of its own.)        *)
(***************************************************************************)
Fairness ==
    \A c \in Calls : WF_vars(Answered(c)) /\ WF_vars(RefreshEnds(c))

FairSpec == Spec /\ Fairness

-----------------------------------------------------------------------------
(***************************************************************************)
(* Every variable stays in its set.                                        *)
(***************************************************************************)
TypeOK ==
    /\ access \in Maybe(Sessions)
    /\ refresh \in Maybe(Sessions)
    /\ user \in Maybe(Sessions)
    /\ call \in [Calls -> CallStates]
    /\ flight \in [Calls -> [state : {"none", "sent", "granted", "denied"},
                             session : Maybe(Sessions)]]
    /\ refreshing \in Maybe(Calls)
    /\ login \in 0 .. MaxLogins
    /\ logout \in [state : {"idle", "sent", "answered"},
                   session : Maybe(Sessions)]
    /\ used \subseteq Sessions
    /\ revoked \subseteq Sessions
    /\ loggedOut \subseteq Sessions

(***************************************************************************)
(* However many calls are refused at once, the tab has one refresh under   *)
(* way, and a call that waits, waits for that one.                         *)
(***************************************************************************)
SingleFlight ==
    /\ Cardinality({c \in Calls : flight[c] # NoFlight}) <= 1
    /\ \A c \in Calls :
         call[c].pc = "waiting" => flight[call[c].waitsFor] # NoFlight

(***************************************************************************)
(* A session whose logout has ended, answered or not, does not get its     *)
(* refresh token back into the store, not even from a refresh that was     *)
(* under way.                                                              *)
(***************************************************************************)
RefreshTokenStaysOut == refresh \notin loggedOut

(***************************************************************************)
(* Every call settles, unless its tab is reloaded again and again: a 401   *)
(* is retried once, and a call that waits for a refresh is not forgotten.  *)
(***************************************************************************)
Reloads == \E c \in Calls : Reload(c)

EveryCallSettles ==
    \/ []<><<Reloads>>_vars
    \/ \A c \in Calls : call[c].pc = "sent" ~> call[c].pc = "idle"

(***************************************************************************)
(* What is left of a call only shrinks, but for a reload: it is refused    *)
(* and waits once, is sent again once, and then ends, whatever the answers *)
(* to the others are.                                                      *)
(***************************************************************************)
Left(c) ==
    CASE call[c].pc = "idle" -> 0
      [] call[c].pc = "sent" /\ call[c].retry -> 1
      [] call[c].pc = "waiting" -> 2
      [] call[c].pc = "sent" /\ ~call[c].retry -> 3

CallsMoveForward ==
    [][Reloads \/ \A c \in Calls :
         call[c].pc # "idle" => call'[c] = call[c] \/ Left(c)' < Left(c)]_vars

(***************************************************************************)
(* "ignore -- clear locally regardless" (auth-context.tsx, logout): once   *)
(* logout has ended, no token of the session is in the store.              *)
(***************************************************************************)
LoggedOutStaysOut == access \notin loggedOut

(***************************************************************************)
(* The server of this module is that of SessionService: it opens a session *)
(* for a login, closes one for a logout, and grants a refresh of a session *)
(* that is open.  AuthSessions implements the same service.                *)
(***************************************************************************)
Service ==
    INSTANCE SessionService
    WITH Clients <- Calls, opened <- used, closed <- revoked, asked <- flight

RespectsService == Service!Spec

=============================================================================
