---------------------------- MODULE AuthSessions ----------------------------
(***************************************************************************)
(* Accounts and sessions of the backend: the handlers of auth_handler.go   *)
(* and users_handler.go that write table users or table refresh_tokens,    *)
(* the tokens of auth_service.go and the middleware of auth.go.            *)
(*                                                                         *)
(* The server runs one goroutine per request and keeps nothing between     *)
(* two requests but the two tables.  A handler is a sequence of steps, one *)
(* per access to the database or to the clock, and the steps of different  *)
(* requests interleave.  Slots is how many requests are served at a time.  *)
(*                                                                         *)
(* A token is the record of its claims, because that is all a signed JWT   *)
(* is a function of: two refresh tokens issued to one user with one role   *)
(* in one second are the same string, and have the same hash.              *)
(***************************************************************************)
EXTENDS Integers, FiniteSets

CONSTANTS
    Slots,          \* requests served at the same time
    Users,          \* ids of table users
    Emails,
    Roles,
    Admin,          \* the role the account routes require
    Employee,       \* the role Register gives
    Nobody,         \* stands for no user
    NoEmail,        \* stands for no email
    NoRole,         \* stands for no role
    NoToken,        \* stands for no token
    AccessTTL,      \* accessTokenDuration
    RefreshTTL,     \* refreshTokenDuration
    Latency,        \* how long the server may take over a request
    MaxClock,       \* bound of the model: the clock stops here
    MaxSessions     \* bound of the model: no login once there are that many

ASSUME RolesAssumption == Admin \in Roles /\ Employee \in Roles
ASSUME NothingAssumption ==
    Nobody \notin Users /\ NoEmail \notin Emails /\ NoRole \notin Roles
ASSUME TTLAssumption == AccessTTL \in Nat \ {0} /\ RefreshTTL \in Nat \ {0}
ASSUME ClockAssumption ==
    Latency \in Nat /\ MaxClock \in Nat /\ MaxSessions \in Nat

VARIABLES
    now,        \* the clock, in seconds
    users,      \* table users
    rows,       \* table refresh_tokens, a row under the hash of its token
    held,       \* the tokens clients have been given
    req,        \* the request each slot serves
    lastHeld    \* history: the last time each user was live with each role

vars == <<now, users, rows, held, req, lastHeld>>

Time == 0 .. MaxClock
Never == -1

Tokens ==
    [user : Users, role : Roles, type : {"access", "refresh"}, iat : Time]

TTL(t) == IF t.type = "access" THEN AccessTTL ELSE RefreshTTL

\* service.Validate: the signature holds and now is before exp.
Valid(t) == now < t.iat + TTL(t)

-----------------------------------------------------------------------------
(***************************************************************************)
(* Table users.  A row that was never inserted is "absent"; a soft delete  *)
(* keeps the row.                                                          *)
(***************************************************************************)
UserRows ==
    [status : {"absent", "live", "deleted"}, email : Emails, role : Roles]

Live(u) == users[u].status = "live"

\* GetUserByEmail: the rows WHERE email = $1 AND deleted_at IS NULL.
ByEmailWithDeleted(e) ==            \* mutant: AND deleted_at IS NULL is lost
    {u \in Users : users[u].status # "absent" /\ users[u].email = e}

ByEmail(e) == {u \in Users : Live(u) /\ users[u].email = e}

\* users_email_active_key: no other live row has the email.
NoUniqueEmail(u, e) == TRUE         \* mutant: the index is not there

EmailIsFree(u, e) == ByEmail(e) \subseteq {u}

\* The history is written with every change of a row and of the clock.
Stamped(table, t) ==
    [u \in Users |-> [r \in Roles |->
        IF table[u].status = "live" /\ table[u].role = r
          THEN t ELSE lastHeld[u][r]]]

SetUser(u, row) ==
    /\ users' = [users EXCEPT ![u] = row]
    /\ lastHeld' = Stamped(users', now)

-----------------------------------------------------------------------------
(***************************************************************************)
(* Requests.  A request carries an email (login, register, create,         *)
(* update), a user and a role (create, update, delete: the target; login:  *)
(* what the handler read) and a token (the body's refresh token, or the    *)
(* bearer token).  deletedBefore and revokedBefore are history: the users  *)
(* deleted when a login came in, and whether the token of a refresh was    *)
(* revoked by then.  Nothing is kept of an answered request.               *)
(***************************************************************************)
Ops == {"none", "login", "register", "refresh", "logout", "create", "update",
        "delete"}

Steps == {"idle", "validate", "authorize", "lookup", "hash", "store", "check",
          "run", "issue", "revoke"}

NoRequest ==
    [op |-> "none", step |-> "idle", since |-> 0, email |-> NoEmail,
     user |-> Nobody, role |-> NoRole, token |-> NoToken,
     deletedBefore |-> {}, revokedBefore |-> FALSE]

Deleted == {u \in Users : users[u].status = "deleted"}
Revoked == {t \in DOMAIN rows : rows[t].revoked}

Busy(s) == req[s].step # "idle"

Receive(s, r) ==
    /\ ~Busy(s)
    /\ req' = [req EXCEPT ![s] = r]
    /\ UNCHANGED <<now, users, rows, held, lastHeld>>

Arrived(op, step) ==
    [NoRequest EXCEPT !.op = op, !.step = step, !.since = now]

AskLogin(s) ==
    /\ Cardinality(DOMAIN rows) < MaxSessions
    /\ \E e \in Emails :
         Receive(s, [Arrived("login", "lookup")
                       EXCEPT !.email = e, !.deletedBefore = Deleted])

AskRefresh(s) ==
    \E t \in held :
        Receive(s, [Arrived("refresh", "validate")
                      EXCEPT !.token = t, !.revokedBefore = t \in Revoked])

AskLogout(s) ==
    \E t \in held :
        Receive(s, [Arrived("logout", "validate") EXCEPT !.token = t])

AskRegister(s) ==
    \E t \in held, e \in Emails :
        Receive(s, [Arrived("register", "authorize")
                      EXCEPT !.token = t, !.email = e])

AskCreate(s) ==
    \E t \in held, e \in Emails, r \in Roles :
        Receive(s, [Arrived("create", "authorize")
                      EXCEPT !.token = t, !.email = e, !.role = r])

\* An update gives an email or a role: no property needs both at once.
AskUpdate(s) ==
    \E t \in held, u \in Users,
       e \in Emails \cup {NoEmail}, r \in Roles \cup {NoRole} :
        /\ (e = NoEmail) # (r = NoRole)
        /\ Receive(s, [Arrived("update", "authorize")
                         EXCEPT !.token = t, !.user = u,
                                !.email = e, !.role = r])

AskDelete(s) ==
    \E t \in held, u \in Users :
        Receive(s, [Arrived("delete", "authorize")
                      EXCEPT !.token = t, !.user = u])

-----------------------------------------------------------------------------
(***************************************************************************)
(* How a step of a handler ends.                                           *)
(***************************************************************************)
Goto(s, step) == req' = [req EXCEPT ![s].step = step]

Answer(s) == req' = [req EXCEPT ![s] = NoRequest]

At(s, op, step) == req[s].op = op /\ req[s].step = step

\* Any answer but 2xx.
Refuse(s) ==
    /\ Answer(s)
    /\ UNCHANGED <<now, users, rows, held, lastHeld>>

\* Any access to the database may fail.
DatabaseFails(s) ==
    /\ req[s].step \in {"lookup", "store", "check", "run", "revoke"}
    /\ Refuse(s)

-----------------------------------------------------------------------------
(***************************************************************************)
(* Login: read the user, compare the password (bcrypt takes its time),     *)
(* sign both tokens, store the refresh token's hash.                       *)
(***************************************************************************)
LoginLookup(s) ==
    /\ At(s, "login", "lookup")
    /\ \E u \in ByEmail(req[s].email) :
         req' = [req EXCEPT ![s].step = "hash", ![s].user = u,
                            ![s].role = users[u].role]
    /\ UNCHANGED <<now, users, rows, held, lastHeld>>

LoginUnknown(s) ==
    /\ At(s, "login", "lookup")
    /\ ByEmail(req[s].email) = {}
    /\ Refuse(s)

LoginWrongPassword(s) ==
    /\ At(s, "login", "hash")
    /\ Refuse(s)

LoginSign(s) ==
    /\ At(s, "login", "hash")
    /\ req' = [req EXCEPT ![s].step = "store",
                          ![s].token = [user |-> req[s].user,
                                        role |-> req[s].role,
                                        type |-> "refresh", iat |-> now]]
    /\ UNCHANGED <<now, users, rows, held, lastHeld>>

NewRow(t) ==
    [x \in DOMAIN rows \cup {t} |->
        IF x = t THEN [expires |-> now + RefreshTTL, revoked |-> FALSE]
                 ELSE rows[x]]

LoginUpsert(s) ==       \* mutant: ON CONFLICT (token_hash) DO UPDATE
    /\ At(s, "login", "store")
    /\ rows' = NewRow(req[s].token)
    /\ held' = held \cup {req[s].token, [req[s].token EXCEPT !.type = "access"]}
    /\ Answer(s)
    /\ UNCHANGED <<now, users, lastHeld>>

LoginStore(s) ==
    /\ At(s, "login", "store")
    /\ req[s].token \notin DOMAIN rows
    /\ rows' = NewRow(req[s].token)
    /\ held' = held \cup {req[s].token, [req[s].token EXCEPT !.type = "access"]}
    /\ Answer(s)
    /\ UNCHANGED <<now, users, lastHeld>>

\* The hash is there already: a login of the same user in the same second.
LoginCollides(s) ==
    /\ At(s, "login", "store")
    /\ req[s].token \in DOMAIN rows
    /\ Refuse(s)

-----------------------------------------------------------------------------
(***************************************************************************)
(* Refresh and Logout.                                                     *)
(***************************************************************************)
ValidateBody(s, next) ==
    /\ req[s].step = "validate"
    /\ IF Valid(req[s].token) /\ req[s].token.type = "refresh"
         THEN Goto(s, next) /\ UNCHANGED <<now, users, rows, held, lastHeld>>
         ELSE Refuse(s)

RefreshValidate(s) == req[s].op = "refresh" /\ ValidateBody(s, "lookup")

UsableOrRevoked(t) ==   \* mutant: RevokedAt is not looked at
    t \in DOMAIN rows /\ rows[t].expires >= now

Usable(t) ==
    /\ t \in DOMAIN rows
    /\ ~rows[t].revoked
    /\ rows[t].expires >= now

RefreshLookup(s) ==
    /\ At(s, "refresh", "lookup")
    /\ IF Usable(req[s].token)
         THEN Goto(s, "issue") /\ UNCHANGED <<now, users, rows, held, lastHeld>>
         ELSE Refuse(s)

\* The new access token has the claims of the refresh token: table users is
\* not read.
RefreshRotates(s) ==    \* mutant: a refresh renews the refresh token as well
    /\ At(s, "refresh", "issue")
    /\ LET t == [req[s].token EXCEPT !.iat = now]
       IN  /\ held' = held \cup {t, [t EXCEPT !.type = "access"]}
           /\ rows' = NewRow(t)
    /\ Answer(s)
    /\ UNCHANGED <<now, users, lastHeld>>

RefreshIssue(s) ==
    /\ At(s, "refresh", "issue")
    /\ held' = held \cup
         {[req[s].token EXCEPT !.type = "access", !.iat = now]}
    /\ Answer(s)
    /\ UNCHANGED <<now, users, rows, lastHeld>>

LogoutValidate(s) == req[s].op = "logout" /\ ValidateBody(s, "revoke")

LogoutRevoke(s) ==
    /\ At(s, "logout", "revoke")
    /\ req[s].token \in DOMAIN rows \ Revoked
    /\ rows' = [rows EXCEPT ![req[s].token].revoked = TRUE]
    /\ Answer(s)
    /\ UNCHANGED <<now, users, held, lastHeld>>

LogoutNoRow(s) ==
    /\ At(s, "logout", "revoke")
    /\ req[s].token \notin DOMAIN rows \ Revoked
    /\ Refuse(s)

-----------------------------------------------------------------------------
(***************************************************************************)
(* The account routes, behind AuthRequired and RoleRequired(admin).  The   *)
(* middleware takes any valid token of either type, and the role from its  *)
(* claims.                                                                 *)
(***************************************************************************)
Authorize(s) ==
    /\ req[s].step = "authorize"
    /\ IF Valid(req[s].token) /\ req[s].token.role = Admin
         THEN /\ Goto(s, IF req[s].op = "register" THEN "check" ELSE "run")
              /\ UNCHANGED <<now, users, rows, held, lastHeld>>
         ELSE Refuse(s)

RegisterCheck(s) ==
    /\ At(s, "register", "check")
    /\ IF ByEmail(req[s].email) = {}
         THEN Goto(s, "run") /\ UNCHANGED <<now, users, rows, held, lastHeld>>
         ELSE Refuse(s)

\* The INSERT of CreateUser, the query both handlers end in.
Insert(s, role) ==
    \E u \in Users :
        /\ users[u].status = "absent"
        /\ IF EmailIsFree(u, req[s].email)
             THEN /\ SetUser(u, [status |-> "live", email |-> req[s].email,
                                 role |-> role])
                  /\ Answer(s)
                  /\ UNCHANGED <<now, rows, held>>
             ELSE Refuse(s)

Register(s) == At(s, "register", "run") /\ Insert(s, Employee)

CreateUser(s) == At(s, "create", "run") /\ Insert(s, req[s].role)

\* COALESCE: an omitted field keeps the value the row has by then.
Patched(row, email, role) ==
    [row EXCEPT !.email = IF email = NoEmail THEN @ ELSE email,
                !.role = IF role = NoRole THEN @ ELSE role]

UpdateUser(s) ==
    /\ At(s, "update", "run")
    /\ LET u == req[s].user
           row == Patched(users[u], req[s].email, req[s].role)
       IN  IF Live(u) /\ EmailIsFree(u, row.email)
             THEN /\ SetUser(u, row)
                  /\ Answer(s)
                  /\ UNCHANGED <<now, rows, held>>
             ELSE Refuse(s)

DeleteUser(s) ==
    /\ At(s, "delete", "run")
    /\ LET u == req[s].user
       IN  IF Live(u)
             THEN /\ SetUser(u, [users[u] EXCEPT !.status = "deleted"])
                  /\ Answer(s)
                  /\ UNCHANGED <<now, rows, held>>
             ELSE Refuse(s)

-----------------------------------------------------------------------------
\* No request takes longer than Latency.  Clients forget the tokens that have
\* expired: nothing accepts them any more.
Tick ==
    /\ now < MaxClock
    /\ \A s \in Slots : Busy(s) => now < req[s].since + Latency
    /\ now' = now + 1
    /\ lastHeld' = Stamped(users, now')
    /\ held' = {t \in held : Valid(t)'}
    /\ UNCHANGED <<users, rows, req>>

\* One administrator is seeded.
Init ==
    /\ now = 0
    /\ \E u \in Users, e \in Emails :
         users = [x \in Users |->
                    [status |-> IF x = u THEN "live" ELSE "absent",
                     email |-> e, role |-> Admin]]
    /\ rows = [t \in {} |-> 0]
    /\ held = {}
    /\ req = [s \in Slots |-> NoRequest]
    /\ lastHeld = [u \in Users |-> [r \in Roles |->
                     IF users[u].status = "live" /\ r = Admin
                       THEN 0 ELSE Never]]

Arrive(s) ==
    \/ AskLogin(s)
    \/ AskRefresh(s)
    \/ AskLogout(s)
    \/ AskRegister(s)
    \/ AskCreate(s)
    \/ AskUpdate(s)
    \/ AskDelete(s)

Serve(s) ==
    \/ LoginLookup(s)
    \/ LoginUnknown(s)
    \/ LoginWrongPassword(s)
    \/ LoginSign(s)
    \/ LoginStore(s)
    \/ LoginCollides(s)
    \/ RefreshValidate(s)
    \/ RefreshLookup(s)
    \/ RefreshIssue(s)
    \/ LogoutValidate(s)
    \/ LogoutRevoke(s)
    \/ LogoutNoRow(s)
    \/ Authorize(s)
    \/ RegisterCheck(s)
    \/ Register(s)
    \/ CreateUser(s)
    \/ UpdateUser(s)
    \/ DeleteUser(s)
    \/ DatabaseFails(s)

Next == Tick \/ \E s \in Slots : Arrive(s) \/ Serve(s)

Spec == Init /\ [][Next]_vars

-----------------------------------------------------------------------------
(***************************************************************************)
(* Every variable stays in its set.                                        *)
(***************************************************************************)
TypeOK ==
    /\ now \in Time
    /\ users \in [Users -> UserRows]
    /\ DOMAIN rows \subseteq Tokens
    /\ \A t \in DOMAIN rows : rows[t].revoked \in BOOLEAN /\ rows[t].expires \in Nat
    /\ held \subseteq Tokens
    /\ \A s \in Slots :
         /\ req[s].op \in Ops
         /\ req[s].step \in Steps
         /\ req[s].token \in Tokens \cup {NoToken}
         /\ req[s].user \in Users \cup {Nobody}
    /\ lastHeld \in [Users -> [Roles -> Time \cup {Never}]]

(***************************************************************************)
(* "Partial index enforces uniqueness only among live accounts": however   *)
(* Register's check, CreateUser, UpdateUser and DeleteUser interleave, two *)
(* live accounts never share an email.                                     *)
(***************************************************************************)
LiveEmailsUnique ==
    \A u, v \in Users :
        Live(u) /\ Live(v) /\ users[u].email = users[v].email => u = v

(***************************************************************************)
(* A refresh that comes in after a logout of its token was answered is     *)
(* refused.  (One that was under way may still succeed.)                   *)
(***************************************************************************)
LogoutIsFinal ==
    \A s \in Slots : At(s, "refresh", "issue") => ~req[s].revokedBefore

(***************************************************************************)
(* No row of refresh_tokens is removed and no revocation is taken back,    *)
(* not even by a login that signs the very same token once more.           *)
(***************************************************************************)
RevocationIsFinal ==
    [][DOMAIN rows \subseteq DOMAIN rows' /\ Revoked \subseteq Revoked']_vars

(***************************************************************************)
(* A login never succeeds with a refresh token that a client has already,  *)
(* so that a logout ends one session and not another as well.              *)
(***************************************************************************)
SessionsAreSeparate ==
    [][\A s \in Slots : LoginStore(s) => req[s].token \notin held]_vars

(***************************************************************************)
(* A user who was deleted before a login came in gets no token from it     *)
(* (the deletion dialog of the web client: "can no longer sign in").       *)
(***************************************************************************)
DeletedCannotSignIn ==
    \A s \in Slots :
        At(s, "login", "store") => req[s].user \notin req[s].deletedBefore

(***************************************************************************)
(* How long a deleted or demoted user keeps what the old role allowed: a   *)
(* token is good for at most the lifetime of a refresh token and that of   *)
(* an access token after its user last had its role, and what the requests *)
(* that made the two of them took.                                         *)
(***************************************************************************)
Staleness == RefreshTTL + AccessTTL + 2 * Latency - 2

AuthorityExpires ==
    \A t \in held :
        Valid(t) => /\ lastHeld[t.user][t.role] # Never
                    /\ now <= lastHeld[t.user][t.role] + Staleness

(***************************************************************************)
(* Seen from the clients, the handlers are the one-step service that       *)
(* WebSession relies on: the row of a refresh token is its session, a      *)
(* login opens it with its INSERT, a logout closes it with its UPDATE, and *)
(* a refresh is decided when it looks the row up, between the moment it    *)
(* came in and its answer, whatever the other handlers do before or after. *)
(***************************************************************************)
Asked(r) ==
    IF r.op = "refresh" /\ r.token.type = "refresh"
      THEN [state |-> IF r.step = "issue" THEN "granted" ELSE "sent",
            session |-> r.token]
      ELSE [state |-> "none", session |-> NoToken]

Service ==
    INSTANCE SessionService
    WITH Clients <- Slots, Sessions <- Tokens, None <- NoToken,
         opened <- DOMAIN rows, closed <- Revoked,
         asked <- [s \in Slots |-> Asked(req[s])]

ImplementsService == Service!Spec

=============================================================================
