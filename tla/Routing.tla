-------------------------------- MODULE Routing --------------------------------
(***************************************************************************)
(* Which screen of the web client is shown: the routes of App.tsx, the     *)
(* gate of protected-route.tsx in front of them, the links of the layout   *)
(* and of the dashboard, and how loading, logging in and logging out move  *)
(* between them.                                                           *)
(*                                                                         *)
(* The server is external: me() answers with a user of some role, which    *)
(* need not be the role of the last time, or with none.                    *)
(***************************************************************************)
CONSTANT None       \* no user, no origin

Roles == {"employee", "procurement", "ceo", "admin"}

VARIABLES
    user,       \* the role of the AuthProvider's user, or None
    loading,    \* loadUser is under way
    token,      \* an access token is stored
    path,       \* location.pathname
    from,       \* location.state.from, of the login page
    login,      \* the form's submission and the page it goes to when it ends
    leaving     \* handleLogout waits for logout()

session == <<user, loading, token>>
place == <<path, from>>
vars == <<user, loading, token, path, from, login, leaving>>

Maybe(S) == S \cup {None}

-----------------------------------------------------------------------------
(***************************************************************************)
(* The tables: what a route asks for, and which links a user is shown.     *)
(***************************************************************************)
AdminRoutes == {"/users", "/salary-codes"}
FinanceRoutes == {"/wallet", "/payouts", "/transactions"}
OpenRoutes == {"/", "/employees", "/profile"}
Protected == AdminRoutes \cup FinanceRoutes \cup OpenRoutes \cup {"/payment-requests"}
Public == {"/login", "/404"}
Paths == Protected \cup Public \cup {"*"}

ASSUME NoneAssumption == None \notin Roles \cup Paths

WalletAdminOnly ==              \* mutant: a route's roles out of step with the links
    [p \in Protected |->
        IF p \in AdminRoutes \cup {"/wallet"} THEN {"admin"}
        ELSE IF p \in FinanceRoutes THEN {"admin", "ceo"}
        ELSE IF p \in OpenRoutes THEN Roles
        ELSE {"admin", "ceo", "procurement"}]

HomeGated ==                    \* mutant: the page to fall back on has roles, too
    [p \in Protected |->
        IF p \in AdminRoutes THEN {"admin"}
        ELSE IF p \in FinanceRoutes \cup {"/"} THEN {"admin", "ceo"}
        ELSE IF p \in OpenRoutes THEN Roles
        ELSE {"admin", "ceo", "procurement"}]

RouteRoles ==
    [p \in Protected |->
        IF p \in AdminRoutes THEN {"admin"}
        ELSE IF p \in FinanceRoutes THEN {"admin", "ceo"}
        ELSE IF p \in OpenRoutes THEN Roles
        ELSE {"admin", "ceo", "procurement"}]

\* NAV and its filter, and the menu's link to the profile.
NavLinks(r) ==
    {"/", "/employees", "/profile"}
      \cup (IF r = "admin" THEN {"/users", "/salary-codes"} ELSE {})
      \cup (IF r \in {"admin", "ceo"} THEN {"/payouts", "/wallet", "/transactions"} ELSE {})
      \cup (IF r \in {"admin", "ceo", "procurement"} THEN {"/payment-requests"} ELSE {})

\* The cards and the quick actions of the dashboard.
DashboardLinks(r) ==
    {"/employees", "/profile"}
      \cup (IF r \in {"admin", "ceo"} THEN {"/wallet", "/payment-requests", "/payouts"} ELSE {})
      \cup (IF r = "admin" THEN {"/users"} ELSE {})

-----------------------------------------------------------------------------
(***************************************************************************)
(* ProtectedRoute: wait, go to the login page, go home, or show the page.  *)
(***************************************************************************)
Barred == user # None /\ user \notin RouteRoles[path]

Shown ==
    IF path \in Public THEN path
    ELSE IF path = "*" \/ loading \/ user = None \/ Barred THEN None
    ELSE path

Links ==
    IF Shown = "/login" THEN {"/login"}
    ELSE IF Shown = "/404" THEN {"/"}
    ELSE IF Shown = None THEN {}
    ELSE NavLinks(user) \cup (IF Shown = "/" THEN DashboardLinks(user) ELSE {})

Redirecting ==
    \/ path = "*"
    \/ path \in Protected /\ ~loading /\ (user = None \/ Barred)

Target ==
    IF path = "*" THEN "/404"
    ELSE IF user = None THEN "/login"
    ELSE "/"

Redirect ==
    /\ Redirecting
    /\ path' = Target
    /\ from' = IF Target = "/login" THEN path ELSE None
    /\ UNCHANGED <<session, login, leaving>>

Follow(p) ==
    /\ p \in Links
    /\ path' = p /\ from' = None
    /\ UNCHANGED <<session, login, leaving>>

\* The browser's back and forward: some page of before, with its state.
Back(p) ==
    /\ path' = p
    /\ from' \in IF p = "/login" THEN Maybe(Protected) ELSE {None}
    /\ UNCHANGED <<session, login, leaving>>

-----------------------------------------------------------------------------
(***************************************************************************)
(* The session, as far as the routes see it.                               *)
(***************************************************************************)
Idle == [state |-> "idle", to |-> None]

\* A page is loaded: localStorage is what is left, and the location's state.
Load(p) ==
    /\ path' = p
    /\ from' = IF p = path THEN from ELSE None
    /\ user' = None /\ loading' = TRUE
    /\ login' = Idle /\ leaving' = FALSE
    /\ UNCHANGED token

LoadUser(r) ==
    /\ loading
    /\ r # None => token
    /\ loading' = FALSE
    /\ user' = r
    /\ UNCHANGED <<token, place, login, leaving>>

LoadUserEnds == \E r \in Maybe(Roles) : LoadUser(r)

SubmitNowhere ==                \* mutant: no page to go to without an origin
    /\ Shown = "/login"
    /\ login = Idle
    /\ login' = [state |-> "sent", to |-> from]
    /\ UNCHANGED <<session, place, leaving>>

Submit ==
    /\ Shown = "/login"
    /\ login = Idle
    /\ login' = [state |-> "sent", to |-> IF from = None THEN "/" ELSE from]
    /\ UNCHANGED <<session, place, leaving>>

LoginFails ==
    /\ login # Idle
    /\ login' = Idle
    /\ token' \in {token, TRUE}
    /\ UNCHANGED <<user, loading, place, leaving>>

LoginSucceeds(r) ==
    /\ login # Idle
    /\ token' = TRUE /\ user' = r
    /\ path' = login.to /\ from' = None
    /\ login' = Idle
    /\ UNCHANGED <<loading, leaving>>

\* A refresh has failed: onAuthFailure.
Dropped ==
    /\ token
    /\ token' = FALSE /\ user' = None
    /\ UNCHANGED <<loading, place, login, leaving>>

Logout ==
    /\ Shown \in Protected
    /\ ~leaving
    /\ leaving' = TRUE
    /\ UNCHANGED <<session, place, login>>

\* The page of before may be rendered once more, without a user, before the
\* navigation is: then its redirect comes last.
LogoutEnds ==
    /\ leaving
    /\ leaving' = FALSE
    /\ token' = FALSE /\ user' = None
    /\ path' = "/login"
    /\ from' \in {None} \cup ({path} \cap Protected)
    /\ UNCHANGED <<loading, login>>

-----------------------------------------------------------------------------
Init ==
    /\ user = None /\ loading = TRUE /\ token \in BOOLEAN
    /\ path \in Paths /\ from = None
    /\ login = Idle /\ leaving = FALSE

Next ==
    \/ Redirect \/ LoadUserEnds \/ Submit \/ LoginFails \/ Dropped \/ Logout \/ LogoutEnds
    \/ \E p \in Paths : Follow(p) \/ Load(p) \/ Back(p)
    \/ \E r \in Roles : LoginSucceeds(r)

Spec == Init /\ [][Next]_vars

(***************************************************************************)
(* React renders what has changed, and me() answers at last.               *)
(***************************************************************************)
Fairness == WF_vars(Redirect) /\ WF_vars(LoadUserEnds)

-----------------------------------------------------------------------------
(***************************************************************************)
(* Every variable stays in its set.                                        *)
(***************************************************************************)
TypeOK ==
    /\ user \in Maybe(Roles)
    /\ loading \in BOOLEAN
    /\ token \in BOOLEAN
    /\ path \in Paths
    /\ from \in Maybe(Protected)
    /\ login \in [state : {"sent"}, to : Protected] \cup {Idle}
    /\ leaving \in BOOLEAN

(***************************************************************************)
(* No page links to one that would send its user away again: the roles in  *)
(* NAV and on the dashboard agree with those in App.tsx.                   *)
(***************************************************************************)
LinksLand ==
    Shown \in Protected => \A p \in Links : user \in RouteRoles[p]

(***************************************************************************)
(* Whoever is shown no page waits for loadUser or is being sent to one,    *)
(* and a redirect ends on a page: it is never followed by another.         *)
(***************************************************************************)
SomewhereToGo == Shown = None => loading \/ Redirecting

RedirectsLand == [][Redirect => Shown' = Target]_vars

(***************************************************************************)
(* Whoever is sent away from a page, or waits for loadUser, is shown some  *)
(* page at last, unless pages are loaded again and again: no redirect      *)
(* leads back to itself.                                                   *)
(***************************************************************************)
Loads == \E p \in Paths : Load(p)

SomePageIsShown ==
    \/ []<><<Loads>>_vars
    \/ Shown = None ~> Shown # None

=============================================================================
