--------------------------- MODULE AuthSessionsProofs ---------------------------
(***************************************************************************)
(* Proofs about AuthSessions, for any number of requests at a time, any    *)
(* accounts, emails, roles and lifetimes, and a clock that runs as long    *)
(* as one likes.                                                           *)
(*                                                                         *)
(* A handler acts on what it has read before, so the inductive invariant   *)
(* says of a request what stays true of that while other requests write    *)
(* the tables: deletions and revocations are final, and the last time that *)
(* a user had a role only grows (Grown).  Good(r) is built from these.     *)
(* For AuthorityExpires it follows the role from the lookup of a login     *)
(* over its refresh token to the access token of a refresh.                *)
(***************************************************************************)
EXTENDS AuthSessions, TLAPS

Requests ==
    [op : Ops, step : Steps, since : Time, email : Emails \cup {NoEmail},
     user : Users \cup {Nobody}, role : Roles \cup {NoRole},
     token : Tokens \cup {NoToken}, deletedBefore : SUBSET Users,
     revokedBefore : BOOLEAN]

\* What the types leave open.
Types ==
    /\ now \in Time
    /\ users \in [Users -> UserRows]
    /\ DOMAIN rows \subseteq Tokens
    /\ rows \in [DOMAIN rows -> [expires : Nat, revoked : BOOLEAN]]
    /\ held \subseteq Tokens
    /\ req \in [Slots -> Requests]
    /\ lastHeld \in [Users -> [Roles -> Time \cup {Never}]]

\* The fields that a request has at its step.
Filled(r) ==
    /\ r.op \notin {"none", "login"} => r.token \in Tokens
    /\ r.op \in {"register", "create"} => r.email \in Emails
    /\ r.op = "create" => r.role \in Roles
    /\ r.op \in {"update", "delete"} => r.user \in Users
    /\ r.op = "login" /\ r.step \in {"hash", "store"} => r.user \in Users /\ r.role \in Roles
    /\ r.op = "login" /\ r.step = "store" =>
         r.token \in Tokens /\ r.token.type = "refresh"

\* The user had the role at that time, or later.
HeldSince(u, role, t) == lastHeld[u][role] # Never /\ t <= lastHeld[u][role]

\* A refresh token is signed soon after its role was read, an access token
\* soon after a refresh token was good.
Fresh(t) ==
    HeldSince(t.user, t.role,
              IF t.type = "refresh" THEN t.iat - Latency
                                    ELSE t.iat - Latency - (RefreshTTL + Latency - 1))

LoginGood(r) ==
    r.op = "login" =>
        /\ r.deletedBefore \subseteq Deleted
        /\ r.step \in {"hash", "store"} => r.user \notin r.deletedBefore
        /\ r.step = "hash" => HeldSince(r.user, r.role, r.since)
        /\ r.step = "store" => Fresh(r.token)

RefreshGood(r) ==
    r.op = "refresh" =>
        /\ r.step \in {"validate", "lookup", "issue"}
        /\ r.revokedBefore => r.token \in Revoked /\ r.step # "issue"
        /\ r.token.type = "refresh" => Fresh(r.token)
        /\ r.step \in {"lookup", "issue"} =>
             r.token.type = "refresh" /\ r.since < r.token.iat + RefreshTTL

Good(r) == Filled(r) /\ LoginGood(r) /\ RefreshGood(r)

InTime(r) == r.step # "idle" => r.since <= now /\ now <= r.since + Latency

\* The history keeps pace with the clock for whoever is live.
StampedNow ==
    /\ \A u \in Users, role \in Roles : lastHeld[u][role] <= now
    /\ \A u \in Users : Live(u) => lastHeld[u][users[u].role] = now

HeldGood ==
    \A t \in held : Fresh(t) /\ (t.type = "refresh" => t \in DOMAIN rows)

Inv ==
    /\ Types
    /\ StampedNow
    /\ HeldGood
    /\ \A s \in Slots : Good(req[s]) /\ InTime(req[s])
    /\ LiveEmailsUnique

-----------------------------------------------------------------------------
\* What no step takes back.
Grown ==
    /\ Deleted \subseteq Deleted'
    /\ DOMAIN rows \subseteq DOMAIN rows'
    /\ Revoked \subseteq Revoked'
    /\ \A u \in Users, role \in Roles :
         lastHeld[u][role] # Never =>
             lastHeld'[u][role] # Never /\ lastHeld[u][role] <= lastHeld'[u][role]

LEMMA Numbers ==
    /\ Latency \in Nat /\ RefreshTTL \in Nat \ {0} /\ AccessTTL \in Nat \ {0}
    /\ MaxClock \in Nat /\ Time \subseteq Nat /\ Never = -1 /\ Never \notin Time
  BY TTLAssumption, ClockAssumption DEF Time, Never

\* What was good stays good.
LEMMA FreshGrows ==
    ASSUME Types, Types', Grown, NEW t \in Tokens, Fresh(t)
    PROVE  Fresh(t)'
<1>1. t.user \in Users /\ t.role \in Roles /\ t.iat \in Nat
  BY Numbers DEF Tokens
<1>2. /\ lastHeld[t.user][t.role] \in Int
      /\ lastHeld'[t.user][t.role] \in Int
  BY <1>1, Numbers DEF Types, Time, Never
<1> QED  BY <1>1, <1>2, Numbers DEF Fresh, HeldSince, Grown

LEMMA GoodGrows ==
    ASSUME Types, Types', Grown, NEW r \in Requests, Good(r)
    PROVE  Good(r)'
<1>1. Filled(r)'
  BY DEF Good, Filled
<1>2. LoginGood(r)'
  <2> SUFFICES ASSUME r.op = "login" PROVE LoginGood(r)'
    BY DEF LoginGood
  <2>1. r.step = "hash" => HeldSince(r.user, r.role, r.since)'
    <3> SUFFICES ASSUME r.step = "hash" PROVE HeldSince(r.user, r.role, r.since)'
      OBVIOUS
    <3>1. r.user \in Users /\ r.role \in Roles /\ r.since \in Nat
      BY Numbers DEF Good, Filled, Requests
    <3>2. /\ lastHeld[r.user][r.role] \in Int
          /\ lastHeld'[r.user][r.role] \in Int
      BY <3>1, Numbers DEF Types, Time, Never
    <3>3. HeldSince(r.user, r.role, r.since)
      BY DEF Good, LoginGood
    <3> QED  BY <3>1, <3>2, <3>3 DEF HeldSince, Grown
  <2>2. r.step = "store" => Fresh(r.token)'
    BY FreshGrows DEF Good, Filled, LoginGood
  <2> QED  BY <2>1, <2>2 DEF Good, LoginGood, Grown
<1>3. RefreshGood(r)'
  <2> SUFFICES ASSUME r.op = "refresh" PROVE RefreshGood(r)'
    BY DEF RefreshGood
  <2>1. r.token.type = "refresh" => Fresh(r.token)'
    BY FreshGrows DEF Good, Filled, RefreshGood
  <2> QED  BY <2>1 DEF Good, RefreshGood, Grown
<1> QED  BY <1>1, <1>2, <1>3 DEF Good

\* A step that changes one request and not the clock.
LEMMA SlotInv ==
    ASSUME Inv, Types', Grown, now' = now,
           NEW s \in Slots, NEW r \in Requests, req' = [req EXCEPT ![s] = r],
           Good(r)', InTime(r)
    PROVE  \A q \in Slots : Good(req[q])' /\ InTime(req[q])'
<1> SUFFICES ASSUME NEW q \in Slots PROVE Good(req[q])' /\ InTime(req[q])'
  OBVIOUS
<1>1. CASE q = s
  <2>1. req'[q] = r
    BY <1>1 DEF Inv, Types
  <2> QED  BY <2>1 DEF Good, Filled, LoginGood, RefreshGood, InTime, Fresh, HeldSince
<1>2. CASE q # s
  <2>1. req'[q] = req[q] /\ req[q] \in Requests /\ Good(req[q]) /\ InTime(req[q])
    BY <1>2 DEF Inv, Types
  <2>2. ASSUME NEW x \in Requests, Good(x) PROVE Good(x)'
    BY <2>2, GoodGrows DEF Inv
  <2>3. PICK x \in Requests : x = req[q] /\ Good(x)
    BY <2>1
  <2>4. Good(x)' /\ req'[q] = x
    BY <2>1, <2>2, <2>3
  <2> QED
    BY <2>1, <2>4 DEF Good, Filled, LoginGood, RefreshGood, InTime, Fresh, HeldSince
<1> QED  BY <1>1, <1>2

-----------------------------------------------------------------------------
\* Steps that write neither table.
LEMMA QuietInv ==
    ASSUME Inv, NEW s \in Slots, NEW r \in Requests, req' = [req EXCEPT ![s] = r],
           Good(r), InTime(r), UNCHANGED <<now, users, rows, held, lastHeld>>
    PROVE  Inv'
<1>1. Types'
  BY DEF Inv, Types
<1>2. Grown
  <2>1. \A u \in Users, role \in Roles : lastHeld[u][role] \in Int
    BY Numbers DEF Inv, Types, Time, Never
  <2> QED  BY <2>1 DEF Grown, Deleted, Revoked
<1>3. Good(r)'
  BY <1>1, <1>2, GoodGrows DEF Inv
<1>4. \A q \in Slots : Good(req[q])' /\ InTime(req[q])'
  BY <1>1, <1>2, <1>3, SlotInv
<1>5. StampedNow' /\ HeldGood' /\ LiveEmailsUnique'
  BY DEF Inv, StampedNow, HeldGood, LiveEmailsUnique, Live, Fresh, HeldSince
<1> QED  BY <1>1, <1>4, <1>5 DEF Inv

LEMMA NoRequestGood ==
    /\ NoRequest \in Requests /\ Good(NoRequest) /\ InTime(NoRequest)
    /\ Good(NoRequest)' /\ InTime(NoRequest)'
<1>1. /\ NoRequest \in Requests
      /\ NoRequest.op = "none" /\ NoRequest.step = "idle"
  BY Numbers DEF NoRequest, Requests, Ops, Steps, Time
<1>2. \A r : r.op = "none" /\ r.step = "idle" =>
               Good(r) /\ InTime(r) /\ Good(r)' /\ InTime(r)'
  BY DEF Good, Filled, LoginGood, RefreshGood, InTime
<1> QED  BY <1>1, <1>2 DEF NoRequest

LEMMA RefuseInv ==
    ASSUME Inv, NEW s \in Slots, Refuse(s)
    PROVE  Inv'
  BY NoRequestGood, QuietInv DEF Refuse, Answer

\* A request comes in, with what its client holds.
LEMMA ArriveInv ==
    ASSUME Inv, NEW s \in Slots, Arrive(s)
    PROVE  Inv'
<1>1. ASSUME NEW r \in Requests, Receive(s, r), Good(r), r.since = now
      PROVE  Inv'
  <2>1. InTime(r)
    BY <1>1, Numbers DEF InTime, Inv, Types
  <2> QED  BY <1>1, <2>1, QuietInv DEF Receive
<1>2. /\ now \in Time /\ held \subseteq Tokens
      /\ Deleted \subseteq Users
      /\ \A t \in held : t.type = "refresh" => Fresh(t)
  BY DEF Inv, Types, Deleted, HeldGood
<1>3. CASE AskLogin(s)
  <2>1. PICK e \in Emails :
          Receive(s, [Arrived("login", "lookup") EXCEPT !.email = e, !.deletedBefore = Deleted])
    BY <1>3 DEF AskLogin
  <2> DEFINE r == [Arrived("login", "lookup") EXCEPT !.email = e, !.deletedBefore = Deleted]
  <2>2. /\ r \in Requests /\ r.op = "login" /\ r.step = "lookup"
        /\ r.deletedBefore = Deleted /\ r.since = now
    BY <1>2 DEF Arrived, NoRequest, Requests, Ops, Steps
  <2>3. Good(r)
    BY <2>2 DEF Good, Filled, LoginGood, RefreshGood
  <2> QED  BY <1>1, <2>1, <2>2, <2>3
<1>4. CASE AskRefresh(s)
  <2>1. PICK t \in held :
          Receive(s, [Arrived("refresh", "validate")
                        EXCEPT !.token = t, !.revokedBefore = t \in Revoked])
    BY <1>4 DEF AskRefresh
  <2> DEFINE R(b) == [Arrived("refresh", "validate")
                        EXCEPT !.token = t, !.revokedBefore = b]
  <2>2. ASSUME NEW b \in BOOLEAN, b => t \in Revoked, Receive(s, R(b))
        PROVE  Inv'
    <3>1. /\ R(b) \in Requests /\ R(b).op = "refresh" /\ R(b).step = "validate"
          /\ R(b).token = t /\ R(b).since = now /\ R(b).revokedBefore = b
      BY <1>2 DEF Arrived, NoRequest, Requests, Ops, Steps
    <3>2. Good(R(b))
      BY <1>2, <2>2, <3>1 DEF Good, Filled, LoginGood, RefreshGood
    <3> QED  BY <1>1, <2>2, <3>1, <3>2
  <2>3. \E b \in BOOLEAN : (b => t \in Revoked) /\ Receive(s, R(b))
    <3>1. (t \in Revoked) \in BOOLEAN
      OBVIOUS
    <3> WITNESS (t \in Revoked) \in BOOLEAN
    <3> QED  BY <2>1
  <2> QED  BY <2>2, <2>3
<1>5. CASE AskLogout(s)
  <2>1. PICK t \in held :
          Receive(s, [Arrived("logout", "validate") EXCEPT !.token = t])
    BY <1>5 DEF AskLogout
  <2> DEFINE r == [Arrived("logout", "validate") EXCEPT !.token = t]
  <2>2. r \in Requests /\ r.op = "logout" /\ r.token = t /\ r.since = now
    BY <1>2 DEF Arrived, NoRequest, Requests, Ops, Steps
  <2>3. Good(r)
    BY <1>2, <2>2 DEF Good, Filled, LoginGood, RefreshGood
  <2> QED  BY <1>1, <2>1, <2>2, <2>3
<1>6. CASE AskRegister(s)
  <2>1. PICK t \in held, e \in Emails :
          Receive(s, [Arrived("register", "authorize") EXCEPT !.token = t, !.email = e])
    BY <1>6 DEF AskRegister
  <2> DEFINE r == [Arrived("register", "authorize") EXCEPT !.token = t, !.email = e]
  <2>2. /\ r \in Requests /\ r.op = "register" /\ r.token = t /\ r.email = e
        /\ r.since = now
    BY <1>2 DEF Arrived, NoRequest, Requests, Ops, Steps
  <2>3. Good(r)
    BY <1>2, <2>2 DEF Good, Filled, LoginGood, RefreshGood
  <2> QED  BY <1>1, <2>1, <2>2, <2>3
<1>7. CASE AskCreate(s)
  <2>1. PICK t \in held, e \in Emails, role \in Roles :
          Receive(s, [Arrived("create", "authorize")
                        EXCEPT !.token = t, !.email = e, !.role = role])
    BY <1>7 DEF AskCreate
  <2> DEFINE r == [Arrived("create", "authorize")
                     EXCEPT !.token = t, !.email = e, !.role = role]
  <2>2. /\ r \in Requests /\ r.op = "create" /\ r.token = t /\ r.email = e
        /\ r.role = role /\ r.since = now
    BY <1>2 DEF Arrived, NoRequest, Requests, Ops, Steps
  <2>3. Good(r)
    BY <1>2, <2>2 DEF Good, Filled, LoginGood, RefreshGood
  <2> QED  BY <1>1, <2>1, <2>2, <2>3
<1>8. CASE AskUpdate(s)
  <2>1. PICK t \in held, u \in Users, e \in Emails \cup {NoEmail}, role \in Roles \cup {NoRole} :
          Receive(s, [Arrived("update", "authorize")
                        EXCEPT !.token = t, !.user = u, !.email = e, !.role = role])
    BY <1>8 DEF AskUpdate
  <2> DEFINE r == [Arrived("update", "authorize")
                     EXCEPT !.token = t, !.user = u, !.email = e, !.role = role]
  <2>2. /\ r \in Requests /\ r.op = "update" /\ r.token = t /\ r.user = u
        /\ r.since = now
    BY <1>2 DEF Arrived, NoRequest, Requests, Ops, Steps
  <2>3. Good(r)
    BY <1>2, <2>2 DEF Good, Filled, LoginGood, RefreshGood
  <2> QED  BY <1>1, <2>1, <2>2, <2>3
<1>9. CASE AskDelete(s)
  <2>1. PICK t \in held, u \in Users :
          Receive(s, [Arrived("delete", "authorize") EXCEPT !.token = t, !.user = u])
    BY <1>9 DEF AskDelete
  <2> DEFINE r == [Arrived("delete", "authorize") EXCEPT !.token = t, !.user = u]
  <2>2. /\ r \in Requests /\ r.op = "delete" /\ r.token = t /\ r.user = u
        /\ r.since = now
    BY <1>2 DEF Arrived, NoRequest, Requests, Ops, Steps
  <2>3. Good(r)
    BY <1>2, <2>2 DEF Good, Filled, LoginGood, RefreshGood
  <2> QED  BY <1>1, <2>1, <2>2, <2>3
<1> QED  BY <1>3, <1>4, <1>5, <1>6, <1>7, <1>8, <1>9 DEF Arrive

\* What the invariant says of the request in a slot.
LEMMA ServedIsGood ==
    ASSUME Inv, NEW s \in Slots
    PROVE  /\ req[s] \in Requests /\ Good(req[s]) /\ InTime(req[s])
           /\ req[s].token \in Tokens =>
                /\ req[s].token.user \in Users /\ req[s].token.role \in Roles
                /\ req[s].token.iat \in Nat
           /\ now \in Nat /\ req[s].since \in Nat
  BY Numbers DEF Inv, Types, Tokens, Requests

LEMMA GotoInv ==
    ASSUME Inv, NEW s \in Slots, Busy(s), NEW step \in Steps, Goto(s, step),
           UNCHANGED <<now, users, rows, held, lastHeld>>,
           Good([req[s] EXCEPT !.step = step])
    PROVE  Inv'
<1> DEFINE r == [req[s] EXCEPT !.step = step]
<1>1. r \in Requests /\ r.since = req[s].since
  BY ServedIsGood DEF Requests
<1>2. InTime(r)
  BY <1>1, ServedIsGood DEF InTime, Busy
<1>3. req' = [req EXCEPT ![s] = r]
  BY DEF Goto
<1> QED  BY <1>1, <1>2, <1>3, QuietInv

\* Login finds a live user: one who had that role just now, and is not deleted.
LEMMA LoginLookupInv ==
    ASSUME Inv, NEW s \in Slots, LoginLookup(s)
    PROVE  Inv'
<1>1. PICK u \in ByEmail(req[s].email) :
        req' = [req EXCEPT ![s].step = "hash", ![s].user = u, ![s].role = users[u].role]
  BY DEF LoginLookup
<1> DEFINE r == [req[s] EXCEPT !.step = "hash", !.user = u, !.role = users[u].role]
<1>2. /\ u \in Users /\ Live(u) /\ users[u].role \in Roles
      /\ lastHeld[u][users[u].role] = now
  BY DEF ByEmail, Inv, Types, UserRows, StampedNow
<1>3. /\ req[s].op = "login" /\ req[s].step = "lookup"
      /\ UNCHANGED <<now, users, rows, held, lastHeld>>
  BY DEF LoginLookup, At
<1>4. /\ r \in Requests /\ r.op = "login" /\ r.step = "hash" /\ r.user = u
      /\ r.role = users[u].role /\ r.since = req[s].since
      /\ r.deletedBefore = req[s].deletedBefore
  BY <1>2, <1>3, ServedIsGood DEF Requests, Steps
<1>5. InTime(r) /\ r.since <= now
  BY <1>3, <1>4, ServedIsGood DEF InTime
<1>6. r.deletedBefore \subseteq Deleted /\ u \notin Deleted
  BY <1>2, <1>3, <1>4, ServedIsGood DEF Good, LoginGood, Deleted, Live
<1>7. HeldSince(r.user, r.role, r.since)
  BY <1>2, <1>4, <1>5, ServedIsGood, Numbers DEF HeldSince, Never
<1>8. Good(r)
  BY <1>2, <1>4, <1>6, <1>7 DEF Good, Filled, LoginGood, RefreshGood
<1>9. req' = [req EXCEPT ![s] = r]
  BY <1>1
<1> QED  BY <1>3, <1>4, <1>5, <1>8, <1>9, QuietInv

\* The refresh token is signed within the time of the request.
LEMMA LoginSignInv ==
    ASSUME Inv, NEW s \in Slots, LoginSign(s)
    PROVE  Inv'
<1> DEFINE t == [user |-> req[s].user, role |-> req[s].role, type |-> "refresh", iat |-> now]
           r == [req[s] EXCEPT !.step = "store", !.token = t]
<1>1. /\ req[s].op = "login" /\ req[s].step = "hash"
      /\ req' = [req EXCEPT ![s] = r]
      /\ UNCHANGED <<now, users, rows, held, lastHeld>>
  BY DEF LoginSign, At
<1>2. /\ req[s].user \in Users /\ req[s].role \in Roles
      /\ HeldSince(req[s].user, req[s].role, req[s].since)
      /\ req[s].user \notin req[s].deletedBefore
      /\ req[s].deletedBefore \subseteq Deleted
      /\ now <= req[s].since + Latency
  BY <1>1, ServedIsGood DEF Good, Filled, LoginGood, InTime
<1>3. t \in Tokens
  BY <1>2 DEF Tokens, Inv, Types
<1>4. /\ r \in Requests /\ r.op = "login" /\ r.step = "store" /\ r.user = req[s].user
      /\ r.role = req[s].role /\ r.since = req[s].since /\ r.token = t
      /\ r.deletedBefore = req[s].deletedBefore
  BY <1>1, <1>3, ServedIsGood DEF Requests, Steps
<1>5. InTime(r)
  BY <1>1, <1>4, ServedIsGood DEF InTime
<1>6. Fresh(t)
  <2>1. lastHeld[req[s].user][req[s].role] \in Int
    BY <1>2, Numbers DEF Inv, Types, Time, Never
  <2> QED  BY <1>2, <2>1, ServedIsGood, Numbers DEF Fresh, HeldSince
<1>7. Good(r)
  BY <1>2, <1>3, <1>4, <1>6 DEF Good, Filled, LoginGood, RefreshGood
<1> QED  BY <1>1, <1>4, <1>5, <1>7, QuietInv

\* A body's token is good and a refresh token, or the request is refused.
LEMMA ValidateInv ==
    ASSUME Inv, NEW s \in Slots, RefreshValidate(s) \/ LogoutValidate(s)
    PROVE  Inv'
<1>1. CASE Refuse(s)
  BY <1>1, RefuseInv
<1>2. CASE /\ RefreshValidate(s)
           /\ Valid(req[s].token) /\ req[s].token.type = "refresh"
           /\ Goto(s, "lookup") /\ UNCHANGED <<now, users, rows, held, lastHeld>>
  <2> DEFINE r == [req[s] EXCEPT !.step = "lookup"]
  <2>1. req[s].op = "refresh" /\ req[s].step = "validate"
    BY <1>2 DEF RefreshValidate, ValidateBody
  <2>2. /\ r.op = "refresh" /\ r.step = "lookup" /\ r.token = req[s].token
        /\ r.since = req[s].since /\ r.revokedBefore = req[s].revokedBefore
    BY <2>1, ServedIsGood DEF Requests
  <2>3. req[s].since < req[s].token.iat + RefreshTTL
    <3>1. req[s].since <= now
      BY <2>1, ServedIsGood DEF InTime
    <3>2. now < req[s].token.iat + RefreshTTL
      BY <1>2 DEF Valid, TTL
    <3>3. req[s].token \in Tokens
      BY <2>1, ServedIsGood DEF Good, Filled
    <3> QED  BY <3>1, <3>2, <3>3, ServedIsGood, Numbers
  <2>4. Good(r)
    BY <1>2, <2>1, <2>2, <2>3, ServedIsGood DEF Good, Filled, LoginGood, RefreshGood
  <2> QED  BY <1>2, <2>1, <2>4, GotoInv DEF Busy, Steps
<1>3. CASE /\ LogoutValidate(s)
           /\ Goto(s, "revoke") /\ UNCHANGED <<now, users, rows, held, lastHeld>>
  <2> DEFINE r == [req[s] EXCEPT !.step = "revoke"]
  <2>1. req[s].op = "logout" /\ req[s].step = "validate"
    BY <1>3 DEF LogoutValidate, ValidateBody
  <2>2. r.op = "logout" /\ r.token = req[s].token
    BY <2>1, ServedIsGood DEF Requests
  <2>3. Good(r)
    BY <2>1, <2>2, ServedIsGood DEF Good, Filled, LoginGood, RefreshGood
  <2> QED  BY <1>3, <2>1, <2>3, GotoInv DEF Busy, Steps
<1> QED  BY <1>1, <1>2, <1>3 DEF RefreshValidate, LogoutValidate, ValidateBody

\* A refresh goes on with a token that is not revoked.
LEMMA RefreshLookupInv ==
    ASSUME Inv, NEW s \in Slots, RefreshLookup(s)
    PROVE  Inv'
<1>1. CASE Refuse(s)
  BY <1>1, RefuseInv
<1>2. CASE /\ Usable(req[s].token)
           /\ Goto(s, "issue") /\ UNCHANGED <<now, users, rows, held, lastHeld>>
  <2> DEFINE r == [req[s] EXCEPT !.step = "issue"]
  <2>1. req[s].op = "refresh" /\ req[s].step = "lookup"
    BY DEF RefreshLookup, At
  <2>2. /\ r.op = "refresh" /\ r.step = "issue" /\ r.token = req[s].token
        /\ r.since = req[s].since /\ r.revokedBefore = req[s].revokedBefore
    BY <2>1, ServedIsGood DEF Requests
  <2>3. ~req[s].revokedBefore
    BY <1>2, <2>1, ServedIsGood DEF Usable, Revoked, Good, RefreshGood
  <2>4. Good(r)
    BY <2>1, <2>2, <2>3, ServedIsGood DEF Good, Filled, LoginGood, RefreshGood
  <2> QED  BY <1>2, <2>1, <2>4, GotoInv DEF Busy, Steps
<1> QED  BY <1>1, <1>2 DEF RefreshLookup

\* The middleware, and Register's look for the email.
LEMMA AuthorizeInv ==
    ASSUME Inv, NEW s \in Slots, Authorize(s) \/ RegisterCheck(s)
    PROVE  Inv'
<1>1. CASE Refuse(s)
  BY <1>1, RefuseInv
<1>2. ASSUME NEW step \in {"check", "run"}, Busy(s), req[s].op # "refresh",
             Goto(s, step), UNCHANGED <<now, users, rows, held, lastHeld>>
      PROVE  Inv'
  <2> DEFINE r == [req[s] EXCEPT !.step = step]
  <2>1. /\ r.op = req[s].op /\ r.step = step /\ r.token = req[s].token
        /\ r.since = req[s].since /\ r.revokedBefore = req[s].revokedBefore
        /\ r.deletedBefore = req[s].deletedBefore /\ r.email = req[s].email
        /\ r.user = req[s].user /\ r.role = req[s].role
    BY ServedIsGood DEF Requests
  <2>2. Good(r)
    BY <1>2, <2>1, ServedIsGood DEF Good, Filled, LoginGood, RefreshGood
  <2> QED  BY <1>2, <2>2, GotoInv DEF Steps
<1>3. Busy(s) /\ req[s].op # "refresh"
  BY ServedIsGood DEF Authorize, RegisterCheck, At, Busy, Good, RefreshGood
<1> QED  BY <1>1, <1>2, <1>3 DEF Authorize, RegisterCheck

-----------------------------------------------------------------------------
\* A step that writes the tokens: the accounts and the clock stay.
LEMMA TokenInv ==
    ASSUME Inv, NEW s \in Slots, Answer(s), Types', HeldGood',
           DOMAIN rows \subseteq DOMAIN rows', Revoked \subseteq Revoked',
           UNCHANGED <<now, users, lastHeld>>
    PROVE  Inv'
<1>1. Grown
  <2>1. \A u \in Users, role \in Roles : lastHeld[u][role] \in Int
    BY Numbers DEF Inv, Types, Time, Never
  <2> QED  BY <2>1 DEF Grown, Deleted
<1>2. \A q \in Slots : Good(req[q])' /\ InTime(req[q])'
  BY <1>1, NoRequestGood, SlotInv DEF Answer
<1>3. StampedNow' /\ LiveEmailsUnique'
  BY DEF Inv, StampedNow, LiveEmailsUnique, Live
<1> QED  BY <1>2, <1>3 DEF Inv

LEMMA AnswerType ==
    ASSUME Inv, NEW s \in Slots, Answer(s)
    PROVE  req' \in [Slots -> Requests]
  BY NoRequestGood DEF Answer, Inv, Types

LEMMA LoginStoreInv ==
    ASSUME Inv, NEW s \in Slots, LoginStore(s)
    PROVE  Inv'
<1> DEFINE t == req[s].token
           a == [t EXCEPT !.type = "access"]
<1>1. /\ rows' = NewRow(t) /\ held' = held \cup {t, a} /\ Answer(s)
      /\ t \notin DOMAIN rows
      /\ UNCHANGED <<now, users, lastHeld>>
  BY DEF LoginStore
<1>2. t \in Tokens /\ t.type = "refresh" /\ Fresh(t)
  BY ServedIsGood DEF LoginStore, At, Good, Filled, LoginGood
<1>3. a \in Tokens /\ a.type = "access" /\ a.user = t.user /\ a.role = t.role /\ a.iat = t.iat
  BY <1>2 DEF Tokens
<1>4. /\ DOMAIN rows' = DOMAIN rows \cup {t}
      /\ rows'[t] = [expires |-> now + RefreshTTL, revoked |-> FALSE]
      /\ \A x \in DOMAIN rows : rows'[x] = rows[x]
      /\ rows' = [x \in DOMAIN rows' |-> rows'[x]]
  BY <1>1 DEF NewRow
<1>5. DOMAIN rows \subseteq DOMAIN rows' /\ Revoked \subseteq Revoked'
  BY <1>4 DEF Revoked
<1>6. Types'
  <2>1. now + RefreshTTL \in Nat
    BY Numbers DEF Inv, Types
  <2>2. \A x \in DOMAIN rows' : rows'[x] \in [expires : Nat, revoked : BOOLEAN]
    <3>1. [expires |-> now + RefreshTTL, revoked |-> FALSE]
            \in [expires : Nat, revoked : BOOLEAN]
      BY <2>1
    <3>2. \A x \in DOMAIN rows : rows[x] \in [expires : Nat, revoked : BOOLEAN]
      BY DEF Inv, Types
    <3> HIDE DEF t
    <3> QED  BY <1>4, <3>1, <3>2, Zenon
  <2>3. rows' \in [DOMAIN rows' -> [expires : Nat, revoked : BOOLEAN]]
    BY <1>4, <2>2
  <2> QED  BY <1>1, <1>2, <1>3, <1>4, <2>3, AnswerType DEF Inv, Types
<1>7. HeldGood'
  <2>1. Fresh(a)
    <3>1. /\ t.user \in Users /\ t.role \in Roles /\ t.iat \in Nat
          /\ lastHeld[t.user][t.role] \in Int
      BY <1>2, ServedIsGood, Numbers DEF Inv, Types, Time, Never
    <3> QED  BY <1>2, <1>3, <3>1, Numbers DEF Fresh, HeldSince
  <2> QED
    BY <1>1, <1>2, <1>3, <1>4, <2>1 DEF Inv, HeldGood, Fresh, HeldSince
<1> QED  BY <1>1, <1>5, <1>6, <1>7, TokenInv

\* The new access token, signed within the time of its request.
LEMMA RefreshIssueInv ==
    ASSUME Inv, NEW s \in Slots, RefreshIssue(s)
    PROVE  Inv'
<1> DEFINE t == req[s].token
           a == [t EXCEPT !.type = "access", !.iat = now]
<1>1. /\ held' = held \cup {a} /\ Answer(s)
      /\ UNCHANGED <<now, users, rows, lastHeld>>
  BY DEF RefreshIssue
<1>2. /\ t \in Tokens /\ t.type = "refresh" /\ Fresh(t)
      /\ req[s].since < t.iat + RefreshTTL
      /\ now <= req[s].since + Latency
  BY ServedIsGood DEF RefreshIssue, At, Good, Filled, RefreshGood, InTime
<1>3. a \in Tokens /\ a.type = "access" /\ a.user = t.user /\ a.role = t.role /\ a.iat = now
  BY <1>2 DEF Tokens, Inv, Types
<1>4. Types'
  BY <1>1, <1>3, AnswerType DEF Inv, Types
<1>5. HeldGood'
  <2>1. Fresh(a)
    <3>1. /\ t.user \in Users /\ t.role \in Roles /\ t.iat \in Nat
          /\ lastHeld[t.user][t.role] \in Int
      BY <1>2, ServedIsGood, Numbers DEF Inv, Types, Time, Never
    <3> QED  BY <1>2, <1>3, <3>1, ServedIsGood, Numbers DEF Fresh, HeldSince
  <2> QED
    BY <1>1, <1>3, <2>1 DEF Inv, HeldGood, Fresh, HeldSince
<1> QED  BY <1>1, <1>4, <1>5, TokenInv DEF Revoked

LEMMA LogoutRevokeInv ==
    ASSUME Inv, NEW s \in Slots, LogoutRevoke(s)
    PROVE  Inv'
<1> DEFINE t == req[s].token
<1>1. /\ t \in DOMAIN rows
      /\ rows' = [rows EXCEPT ![t].revoked = TRUE] /\ Answer(s)
      /\ UNCHANGED <<now, users, held, lastHeld>>
  BY DEF LogoutRevoke
<1>2. /\ DOMAIN rows' = DOMAIN rows
      /\ rows'[t].revoked = TRUE
      /\ \A x \in DOMAIN rows \ {t} : rows'[x] = rows[x]
      /\ rows' \in [DOMAIN rows' -> [expires : Nat, revoked : BOOLEAN]]
  BY <1>1 DEF Inv, Types
<1>3. DOMAIN rows \subseteq DOMAIN rows' /\ Revoked \subseteq Revoked'
  BY <1>1, <1>2 DEF Revoked
<1>4. Types'
  BY <1>1, <1>2, AnswerType DEF Inv, Types
<1>5. HeldGood'
  BY <1>1, <1>2 DEF Inv, HeldGood, Fresh, HeldSince
<1> QED  BY <1>1, <1>3, <1>4, <1>5, TokenInv

-----------------------------------------------------------------------------
\* The history after a write of it.
LEMMA StampedGrows ==
    ASSUME Inv, NEW t \in Time, now <= t, Types', lastHeld' = Stamped(users', t)
    PROVE  /\ \A u \in Users, role \in Roles :
                /\ lastHeld'[u][role] <= t
                /\ lastHeld[u][role] # Never =>
                     lastHeld'[u][role] # Never /\ lastHeld[u][role] <= lastHeld'[u][role]
           /\ \A u \in Users : Live(u)' => lastHeld'[u][users'[u].role] = t
           /\ Stamped(users', t) \in [Users -> [Roles -> Time \cup {Never}]]
<1>1. \A u \in Users, role \in Roles :
        /\ lastHeld[u][role] \in Time \cup {Never} /\ lastHeld[u][role] <= now
        /\ lastHeld'[u][role] = IF users'[u].status = "live" /\ users'[u].role = role
                                  THEN t ELSE lastHeld[u][role]
  BY DEF Inv, Types, StampedNow, Stamped
<1>2. \A u \in Users : users'[u].role \in Roles
  BY DEF Types, UserRows
<1>3. t \in Nat /\ now \in Nat /\ t # Never
  BY Numbers DEF Inv, Types
<1>4. \A u \in Users, role \in Roles :
        /\ lastHeld'[u][role] <= t
        /\ lastHeld[u][role] # Never =>
             lastHeld'[u][role] # Never /\ lastHeld[u][role] <= lastHeld'[u][role]
  <2>1. \A u \in Users, role \in Roles : lastHeld[u][role] \in Int
    BY <1>1, Numbers DEF Time, Never
  <2> SUFFICES ASSUME NEW u \in Users, NEW role \in Roles
               PROVE  /\ lastHeld'[u][role] <= t
                      /\ lastHeld[u][role] # Never =>
                           /\ lastHeld'[u][role] # Never
                           /\ lastHeld[u][role] <= lastHeld'[u][role]
    OBVIOUS
  <2>2. lastHeld[u][role] \in Int /\ lastHeld[u][role] <= now
    BY <1>1, <2>1
  <2>3. lastHeld'[u][role] = t \/ lastHeld'[u][role] = lastHeld[u][role]
    BY <1>1
  <2> QED  BY <1>3, <2>2, <2>3
<1>5. \A u \in Users : Live(u)' => lastHeld'[u][users'[u].role] = t
  BY <1>1, <1>2 DEF Live
<1>6. Stamped(users', t) \in [Users -> [Roles -> Time \cup {Never}]]
  BY DEF Types
<1> QED  BY <1>4, <1>5, <1>6

\* A write of an account: it was not deleted, it is there now, and its email
\* is free if it is live.
LEMMA AccountInv ==
    ASSUME Inv, NEW s \in Slots, NEW u \in Users, NEW row \in UserRows,
           SetUser(u, row), Answer(s), UNCHANGED <<now, rows, held>>,
           users[u].status # "deleted",
           row.status = "live" => EmailIsFree(u, row.email)
    PROVE  Inv'
<1>1. /\ users' \in [Users -> UserRows] /\ users'[u] = row
      /\ \A v \in Users \ {u} : users'[v] = users[v]
      /\ lastHeld' = Stamped(users', now)
  BY DEF SetUser, Inv, Types
<1>2. Types'
  <2>1. \A v \in Users, role \in Roles :
          lastHeld'[v][role] \in Time \cup {Never}
    BY <1>1 DEF Stamped, Inv, Types
  <2>2. lastHeld' \in [Users -> [Roles -> Time \cup {Never}]]
    BY <1>1, <2>1 DEF Stamped
  <2> QED  BY <1>1, <2>2, AnswerType DEF Inv, Types
<1>3. /\ \A v \in Users, role \in Roles :
           /\ lastHeld'[v][role] <= now
           /\ lastHeld[v][role] # Never =>
                lastHeld'[v][role] # Never /\ lastHeld[v][role] <= lastHeld'[v][role]
      /\ \A v \in Users : Live(v)' => lastHeld'[v][users'[v].role] = now
  <2>1. now \in Time /\ now <= now
    BY Numbers DEF Inv, Types
  <2> QED  BY <1>1, <1>2, <2>1, StampedGrows
<1>4. Grown
  BY <1>1, <1>3 DEF Grown, Deleted, Revoked
<1>5. \A q \in Slots : Good(req[q])' /\ InTime(req[q])'
  BY <1>2, <1>4, NoRequestGood, SlotInv DEF Answer
<1>6. StampedNow'
  BY <1>3 DEF StampedNow
<1>7. HeldGood'
  <2>1. \A t \in held : Fresh(t)'
    BY <1>2, <1>4, FreshGrows DEF Inv, Types, HeldGood
  <2> QED  BY <2>1 DEF Inv, HeldGood
<1>8. LiveEmailsUnique'
  BY <1>1 DEF Inv, LiveEmailsUnique, Live, EmailIsFree, ByEmail
<1> QED  BY <1>2, <1>5, <1>6, <1>7, <1>8 DEF Inv

LEMMA InsertInv ==
    ASSUME Inv, NEW s \in Slots, Register(s) \/ CreateUser(s)
    PROVE  Inv'
<1>1. PICK role \in Roles : Insert(s, role)
  BY ServedIsGood, RolesAssumption DEF Register, CreateUser, At, Good, Filled
<1>2. req[s].email \in Emails
  BY ServedIsGood DEF Register, CreateUser, At, Good, Filled
<1>3. PICK u \in Users :
        /\ users[u].status = "absent"
        /\ IF EmailIsFree(u, req[s].email)
             THEN /\ SetUser(u, [status |-> "live", email |-> req[s].email, role |-> role])
                  /\ Answer(s)
                  /\ UNCHANGED <<now, rows, held>>
             ELSE Refuse(s)
  BY <1>1 DEF Insert
<1>4. CASE EmailIsFree(u, req[s].email)
  <2> DEFINE row == [status |-> "live", email |-> req[s].email, role |-> role]
  <2>1. row \in UserRows /\ row.email = req[s].email
    BY <1>2 DEF UserRows
  <2> QED  BY <1>3, <1>4, <2>1, AccountInv
<1> QED  BY <1>3, <1>4, RefuseInv

LEMMA UpdateUserInv ==
    ASSUME Inv, NEW s \in Slots, UpdateUser(s)
    PROVE  Inv'
<1> DEFINE u == req[s].user
           row == Patched(users[u], req[s].email, req[s].role)
<1>1. CASE Refuse(s)
  BY <1>1, RefuseInv
<1>2. CASE /\ Live(u) /\ EmailIsFree(u, row.email) /\ SetUser(u, row)
           /\ Answer(s) /\ UNCHANGED <<now, rows, held>>
  <2>1. u \in Users /\ req[s] \in Requests
    BY ServedIsGood DEF UpdateUser, At, Good, Filled
  <2>2. /\ users[u] \in UserRows
        /\ req[s].email \in Emails \cup {NoEmail} /\ req[s].role \in Roles \cup {NoRole}
    BY <2>1 DEF Inv, Types, Requests
  <2>3. row \in UserRows
    BY <2>2 DEF UserRows, Patched
  <2> QED  BY <1>2, <2>1, <2>3, AccountInv DEF Live
<1> QED  BY <1>1, <1>2 DEF UpdateUser

LEMMA DeleteUserInv ==
    ASSUME Inv, NEW s \in Slots, DeleteUser(s)
    PROVE  Inv'
<1> DEFINE u == req[s].user
           row == [users[u] EXCEPT !.status = "deleted"]
<1>1. CASE Refuse(s)
  BY <1>1, RefuseInv
<1>2. CASE Live(u) /\ SetUser(u, row) /\ Answer(s) /\ UNCHANGED <<now, rows, held>>
  <2>1. u \in Users
    BY ServedIsGood DEF DeleteUser, At, Good, Filled
  <2>2. row \in UserRows /\ row.status = "deleted"
    BY <2>1 DEF Inv, Types, UserRows
  <2> QED  BY <1>2, <2>1, <2>2, AccountInv DEF Live
<1> QED  BY <1>1, <1>2 DEF DeleteUser

\* The clock ticks while every request has time left.
LEMMA TickInv ==
    ASSUME Inv, Tick
    PROVE  Inv'
<1>1. /\ now' = now + 1 /\ now' \in Time /\ now <= now'
      /\ lastHeld' = Stamped(users', now')
      /\ held' \subseteq held
      /\ UNCHANGED <<users, rows, req>>
      /\ \A s \in Slots : Busy(s) => now < req[s].since + Latency
  BY Numbers DEF Tick, Inv, Types, Time
<1>2. Types'
  <2>1. \A v \in Users, role \in Roles :
          lastHeld'[v][role] \in Time \cup {Never}
    BY <1>1 DEF Stamped, Inv, Types
  <2>2. lastHeld' \in [Users -> [Roles -> Time \cup {Never}]]
    BY <1>1, <2>1 DEF Stamped
  <2> QED  BY <1>1, <2>2 DEF Inv, Types
<1>3. /\ \A v \in Users, role \in Roles :
           /\ lastHeld'[v][role] <= now'
           /\ lastHeld[v][role] # Never =>
                lastHeld'[v][role] # Never /\ lastHeld[v][role] <= lastHeld'[v][role]
      /\ \A v \in Users : Live(v)' => lastHeld'[v][users'[v].role] = now'
  BY <1>1, <1>2, StampedGrows
<1>4. Grown
  BY <1>1, <1>3 DEF Grown, Deleted, Revoked
<1>5. \A q \in Slots : Good(req[q])' /\ InTime(req[q])'
  <2> SUFFICES ASSUME NEW q \in Slots PROVE Good(req[q])' /\ InTime(req[q])'
    OBVIOUS
  <2>1. PICK x \in Requests : x = req[q] /\ Good(x) /\ InTime(x)
    BY ServedIsGood
  <2>2. Good(x)'
    BY <1>2, <1>4, <2>1, GoodGrows DEF Inv
  <2>3. InTime(x)'
    BY <1>1, <2>1, ServedIsGood, Numbers DEF InTime, Busy
  <2>4. req'[q] = x
    BY <1>1, <2>1
  <2> QED
    BY <2>2, <2>3, <2>4
    DEF Good, Filled, LoginGood, RefreshGood, InTime, Fresh, HeldSince
<1>6. StampedNow'
  BY <1>3 DEF StampedNow
<1>7. HeldGood'
  <2>1. \A t \in held : Fresh(t)'
    BY <1>2, <1>4, FreshGrows DEF Inv, Types, HeldGood
  <2> QED  BY <1>1, <2>1 DEF Inv, HeldGood
<1>8. LiveEmailsUnique'
  BY <1>1 DEF Inv, LiveEmailsUnique, Live
<1> QED  BY <1>2, <1>5, <1>6, <1>7, <1>8 DEF Inv

-----------------------------------------------------------------------------
LEMMA InitInv ==
    ASSUME Init
    PROVE  Inv
<1>1. PICK u \in Users, e \in Emails :
        users = [x \in Users |->
                   [status |-> IF x = u THEN "live" ELSE "absent",
                    email |-> e, role |-> Admin]]
  BY DEF Init
<1>2. 0 \in Time
  BY Numbers DEF Time
<1>3. Types
  BY <1>1, <1>2, NoRequestGood, RolesAssumption DEF Init, Types, UserRows
<1>4. StampedNow
  BY <1>1, <1>3, RolesAssumption, Numbers DEF Init, StampedNow, Live
<1>5. HeldGood /\ LiveEmailsUnique
  BY <1>1 DEF Init, HeldGood, LiveEmailsUnique, Live
<1>6. \A s \in Slots : Good(req[s]) /\ InTime(req[s])
  BY NoRequestGood DEF Init
<1> QED  BY <1>3, <1>4, <1>5, <1>6 DEF Inv

LEMMA ServeInv ==
    ASSUME Inv, NEW s \in Slots, Serve(s)
    PROVE  Inv'
<1>1. CASE LoginUnknown(s) \/ LoginWrongPassword(s) \/ LoginCollides(s)
           \/ LogoutNoRow(s) \/ DatabaseFails(s)
  BY <1>1, RefuseInv
  DEF LoginUnknown, LoginWrongPassword, LoginCollides, LogoutNoRow, DatabaseFails
<1> QED
  BY <1>1, LoginLookupInv, LoginSignInv, LoginStoreInv, ValidateInv, RefreshLookupInv,
     RefreshIssueInv, LogoutRevokeInv, AuthorizeInv, InsertInv, UpdateUserInv, DeleteUserInv
  DEF Serve

LEMMA NextInv ==
    ASSUME Inv, [Next]_vars
    PROVE  Inv'
<1>1. CASE UNCHANGED vars
  BY <1>1
  DEF vars, Inv, Types, StampedNow, HeldGood, LiveEmailsUnique, Live, Good, Filled,
      LoginGood, RefreshGood, InTime, Fresh, HeldSince, Deleted, Revoked
<1>2. CASE Next
  BY <1>2, TickInv, ArriveInv, ServeInv DEF Next
<1> QED  BY <1>1, <1>2

-----------------------------------------------------------------------------
(***************************************************************************)
(* The inductive invariant of accounts and sessions holds, however the     *)
(* requests interleave and whatever fails.                                 *)
(***************************************************************************)
THEOREM Invariance == Spec => []Inv
<1>1. Init => Inv
  BY InitInv
<1>2. Inv /\ [Next]_vars => Inv'
  BY NextInv
<1> QED  BY <1>1, <1>2, PTL DEF Spec

(***************************************************************************)
(* Every variable stays in its set.                                        *)
(***************************************************************************)
THEOREM TypeCorrect == Spec => []TypeOK
<1>1. Inv => TypeOK
  BY DEF Inv, Types, Requests, TypeOK
<1> QED  BY <1>1, Invariance, PTL

(***************************************************************************)
(* No two live accounts share an email.  The model checker runs this with  *)
(* one email; here there is any number of them.                            *)
(***************************************************************************)
THEOREM OneAccountPerEmail == Spec => []LiveEmailsUnique
<1>1. Inv => LiveEmailsUnique
  BY DEF Inv
<1> QED  BY <1>1, Invariance, PTL

(***************************************************************************)
(* A refresh that comes in after a logout was answered is refused.         *)
(***************************************************************************)
THEOREM LogoutHolds == Spec => []LogoutIsFinal
<1>1. Inv => LogoutIsFinal
  BY DEF Inv, Good, RefreshGood, LogoutIsFinal, At
<1> QED  BY <1>1, Invariance, PTL

(***************************************************************************)
(* Nobody signs in after the deletion of the account.                      *)
(***************************************************************************)
THEOREM DeletionHolds == Spec => []DeletedCannotSignIn
<1>1. Inv => DeletedCannotSignIn
  BY DEF Inv, Good, LoginGood, DeletedCannotSignIn, At
<1> QED  BY <1>1, Invariance, PTL

(***************************************************************************)
(* A token outlives the role of its user by Staleness at most: for every   *)
(* lifetime of the tokens and every latency of the server.                 *)
(***************************************************************************)
THEOREM StalenessBounded == Spec => []AuthorityExpires
<1>1. Inv => AuthorityExpires
  <2> SUFFICES ASSUME Inv, NEW t \in held, Valid(t)
               PROVE  /\ lastHeld[t.user][t.role] # Never
                      /\ now <= lastHeld[t.user][t.role] + Staleness
    BY DEF AuthorityExpires
  <2>1. /\ t.user \in Users /\ t.role \in Roles /\ t.iat \in Nat /\ now \in Nat
        /\ t.type \in {"access", "refresh"}
        /\ lastHeld[t.user][t.role] \in Int
    BY Numbers DEF Inv, Types, Tokens, Time, Never
  <2>2. Fresh(t) /\ now < t.iat + TTL(t)
    BY DEF Inv, HeldGood, Valid
  <2>3. CASE t.type = "refresh"
    BY <2>1, <2>2, <2>3, Numbers DEF Fresh, HeldSince, TTL, Staleness
  <2>4. CASE t.type = "access"
    BY <2>1, <2>2, <2>4, Numbers DEF Fresh, HeldSince, TTL, Staleness
  <2> QED  BY <2>1, <2>3, <2>4
<1> QED  BY <1>1, Invariance, PTL

(***************************************************************************)
(* No step takes a revocation back or a row of refresh_tokens away.        *)
(***************************************************************************)
THEOREM RevocationsKept == Spec => RevocationIsFinal
<1>1. Inv /\ [Next]_vars =>
        [DOMAIN rows \subseteq DOMAIN rows' /\ Revoked \subseteq Revoked']_vars
  <2> SUFFICES ASSUME Inv, Next
               PROVE  DOMAIN rows \subseteq DOMAIN rows' /\ Revoked \subseteq Revoked'
    BY Zenon
  <2>1. CASE UNCHANGED rows
    BY <2>1 DEF Revoked
  <2>2. ASSUME NEW s \in Slots, LoginStore(s)
        PROVE  DOMAIN rows \subseteq DOMAIN rows' /\ Revoked \subseteq Revoked'
    BY <2>2 DEF LoginStore, NewRow, Revoked
  <2>3. ASSUME NEW s \in Slots, LogoutRevoke(s)
        PROVE  DOMAIN rows \subseteq DOMAIN rows' /\ Revoked \subseteq Revoked'
    BY <2>3 DEF LogoutRevoke, Inv, Types, Revoked
  <2>4. \/ UNCHANGED rows
        \/ \E s \in Slots : LoginStore(s) \/ LogoutRevoke(s)
    BY DEF Next, Tick, Arrive, Receive, AskLogin, AskRefresh, AskLogout, AskRegister,
           AskCreate, AskUpdate, AskDelete, Serve, LoginLookup, LoginUnknown,
           LoginWrongPassword, LoginSign, LoginCollides, RefreshValidate, ValidateBody,
           RefreshLookup, RefreshIssue, LogoutValidate, LogoutNoRow, Authorize,
           RegisterCheck, Register, CreateUser, Insert, UpdateUser, DeleteUser,
           DatabaseFails, Refuse
  <2> QED  BY <2>1, <2>2, <2>3, <2>4
<1> QED  BY <1>1, Invariance, PTL DEF Spec, RevocationIsFinal

(***************************************************************************)
(* No login succeeds with a refresh token that a client has already.       *)
(***************************************************************************)
THEOREM SessionsStaySeparate == Spec => SessionsAreSeparate
<1>1. Inv => [\A s \in Slots : LoginStore(s) => req[s].token \notin held]_vars
  BY ServedIsGood DEF LoginStore, At, Good, Filled, Inv, HeldGood
<1> QED  BY <1>1, Invariance, PTL DEF SessionsAreSeparate

-----------------------------------------------------------------------------
(***************************************************************************)
(* The refinement.  Three steps of the handlers change a table or answer   *)
(* a question of the service: LoginStore, LogoutRevoke and RefreshLookup.  *)
(***************************************************************************)
\* A step of one request that the service does not see.
LEMMA UnseenStep ==
    ASSUME Inv, NEW s \in Slots, NEW r, req' = [req EXCEPT ![s] = r],
           Asked(r) = Asked(req[s]), UNCHANGED rows
    PROVE  UNCHANGED Service!vars
<1>1. [q \in Slots |-> Asked(req[q])]' = [q \in Slots |-> Asked(req[q])]
  BY DEF Inv, Types, Asked
<1>2. Revoked' = Revoked
  BY DEF Revoked
<1> QED  BY <1>1, <1>2 DEF Service!vars

\* A request is answered, and its question with it.
LEMMA AnsweredStep ==
    ASSUME Inv, NEW s \in Slots, Answer(s), UNCHANGED rows
    PROVE  Service!Next
<1>1. [q \in Slots |-> Asked(req[q])]' =
        [q \in Slots |-> IF q \in {s} THEN Service!Unasked
                         ELSE [x \in Slots |-> Asked(req[x])][q]]
  BY DEF Inv, Types, Answer, NoRequest, Asked, Service!Unasked
<1>2. Revoked' = Revoked
  BY DEF Revoked
<1>3. Service!Done({s})
  BY <1>1, <1>2 DEF Service!Done
<1> QED  BY <1>3 DEF Service!Next

\* A slot that serves nothing asks nothing.
LEMMA IdleAsksNothing ==
    ASSUME Inv, NEW s \in Slots, req[s].step = "idle"
    PROVE  Asked(req[s]) = [state |-> "none", session |-> NoToken]
  BY ServedIsGood DEF Asked, Good, RefreshGood

\* A refresh asks with a token it has from a login, whose row is there.
LEMMA AskRefreshStep ==
    ASSUME Inv, NEW s \in Slots, AskRefresh(s)
    PROVE  [Service!Next]_Service!vars
<1>1. PICK t \in held :
        Receive(s, [Arrived("refresh", "validate")
                      EXCEPT !.token = t, !.revokedBefore = t \in Revoked])
  BY DEF AskRefresh
<1> DEFINE r == [Arrived("refresh", "validate")
                   EXCEPT !.token = t, !.revokedBefore = t \in Revoked]
<1>2. /\ req' = [req EXCEPT ![s] = r] /\ UNCHANGED rows /\ ~Busy(s)
      /\ r.op = "refresh" /\ r.step = "validate" /\ r.token = t
  BY <1>1 DEF Receive, Arrived, NoRequest
<1> HIDE DEF r
<1>3. Asked(req[s]) = Service!Unasked
  BY <1>2, IdleAsksNothing DEF Service!Unasked, Busy
<1>4. CASE t.type = "refresh"
  <2>1. t \in Tokens /\ t \in DOMAIN rows
    BY <1>4 DEF Inv, Types, HeldGood
  <2>2. Asked(r) = [state |-> "sent", session |-> t]
    BY <1>2, <1>4 DEF Asked
  <2>3. [q \in Slots |-> Asked(req[q])]' =
          [[q \in Slots |-> Asked(req[q])] EXCEPT ![s] = [state |-> "sent", session |-> t]]
    BY <1>2, <2>2 DEF Inv, Types, Asked
  <2>4. Service!Ask(s, t)
    BY <1>2, <1>3, <2>1, <2>3 DEF Service!Ask, Revoked
  <2> QED  BY <2>1, <2>4 DEF Service!Next
<1>5. CASE t.type # "refresh"
  BY <1>2, <1>3, <1>5, UnseenStep DEF Asked, Service!Unasked
<1> QED  BY <1>4, <1>5

\* The lookup decides: only an open session is granted.
LEMMA RefreshLookupStep ==
    ASSUME Inv, NEW s \in Slots, RefreshLookup(s)
    PROVE  Service!Next
<1>1. req[s].op = "refresh" /\ req[s].step = "lookup" /\ req[s].token.type = "refresh"
  BY ServedIsGood DEF RefreshLookup, At, Good, RefreshGood
<1>2. CASE Usable(req[s].token)
  <2> DEFINE t == req[s].token
  <2>1. /\ t \in DOMAIN rows /\ t \notin Revoked
        /\ req' = [req EXCEPT ![s].step = "issue"] /\ UNCHANGED rows
    BY <1>2 DEF RefreshLookup, Goto, Usable, Revoked
  <2>2. Asked(req[s]) = [state |-> "sent", session |-> t]
    BY <1>1 DEF Asked
  <2>3. Asked(req'[s]) = [Asked(req[s]) EXCEPT !.state = "granted"]
    BY <1>1, <2>1, <2>2, ServedIsGood DEF Asked, Inv, Types, Requests
  <2>4. [q \in Slots |-> Asked(req[q])]' =
          [[q \in Slots |-> Asked(req[q])] EXCEPT ![s].state = "granted"]
    BY <2>1, <2>3 DEF Inv, Types, Asked
  <2>5. Service!Grant(s)
    BY <2>1, <2>2, <2>4 DEF Service!Grant, Revoked
  <2> QED  BY <2>5 DEF Service!Next
<1>3. CASE ~Usable(req[s].token)
  BY <1>3, AnsweredStep DEF RefreshLookup, Refuse
<1> QED  BY <1>2, <1>3

\* A login opens a session that was not there.
LEMMA LoginStoreStep ==
    ASSUME Inv, NEW s \in Slots, LoginStore(s)
    PROVE  Service!Next
<1> DEFINE t == req[s].token
<1>1. t \in Tokens /\ t \notin DOMAIN rows /\ req[s].op = "login"
  BY ServedIsGood DEF LoginStore, At, Good, Filled
<1>2. DOMAIN rows' = DOMAIN rows \cup {t} /\ Revoked' = Revoked
  BY <1>1 DEF LoginStore, NewRow, Revoked
<1>3. [q \in Slots |-> Asked(req[q])]' = [q \in Slots |-> Asked(req[q])]
  BY <1>1 DEF LoginStore, Answer, NoRequest, Inv, Types, Asked
<1>4. Service!Open(t)
  BY <1>1, <1>2, <1>3 DEF Service!Open
<1> QED  BY <1>1, <1>4 DEF Service!Next

\* A logout closes one.
LEMMA LogoutRevokeStep ==
    ASSUME Inv, NEW s \in Slots, LogoutRevoke(s)
    PROVE  Service!Next
<1> DEFINE t == req[s].token
<1>1. t \in Tokens /\ t \in DOMAIN rows /\ req[s].op = "logout"
  BY DEF LogoutRevoke, At, Inv, Types
<1>2. rows' = [rows EXCEPT ![t].revoked = TRUE] /\ rows[t] \in [expires : Nat, revoked : BOOLEAN]
  BY <1>1 DEF LogoutRevoke, Inv, Types
<1>3. DOMAIN rows' = DOMAIN rows /\ Revoked' = Revoked \cup {t}
  BY <1>1, <1>2 DEF Revoked
<1>4. [q \in Slots |-> Asked(req[q])]' = [q \in Slots |-> Asked(req[q])]
  BY <1>1 DEF LogoutRevoke, Answer, NoRequest, Inv, Types, Asked
<1>5. Service!Close(t)
  BY <1>1, <1>3, <1>4 DEF Service!Close
<1> QED  BY <1>1, <1>5 DEF Service!Next

LEMMA ArriveStep ==
    ASSUME Inv, NEW s \in Slots, Arrive(s)
    PROVE  [Service!Next]_Service!vars
<1>1. CASE AskRefresh(s)
  BY <1>1, AskRefreshStep
<1>2. CASE ~AskRefresh(s)
  <2>1. PICK r : Receive(s, r)
    BY <1>2
    DEF Arrive, AskLogin, AskLogout, AskRegister, AskCreate, AskUpdate, AskDelete
  <2>2. r.op # "refresh"
    <3>1. req'[s] = r /\ \A x : Receive(s, x) => req'[s] = x
      BY <2>1 DEF Receive, Inv, Types
    <3>2. CASE AskLogin(s)
      BY <3>1, <3>2 DEF AskLogin, Arrived, NoRequest
    <3>3. CASE AskLogout(s)
      BY <3>1, <3>3 DEF AskLogout, Arrived, NoRequest
    <3>4. CASE AskRegister(s)
      BY <3>1, <3>4 DEF AskRegister, Arrived, NoRequest
    <3>5. CASE AskCreate(s)
      BY <3>1, <3>5 DEF AskCreate, Arrived, NoRequest
    <3>6. CASE AskUpdate(s)
      BY <3>1, <3>6 DEF AskUpdate, Arrived, NoRequest
    <3>7. CASE AskDelete(s)
      BY <3>1, <3>7 DEF AskDelete, Arrived, NoRequest
    <3> QED  BY <1>2, <3>2, <3>3, <3>4, <3>5, <3>6, <3>7 DEF Arrive
  <2>3. Asked(r) = Asked(req[s])
    BY <2>1, <2>2, IdleAsksNothing DEF Asked, Receive, Busy
  <2> QED  BY <2>1, <2>3, UnseenStep DEF Receive
<1> QED  BY <1>1, <1>2

LEMMA ServeStep ==
    ASSUME Inv, NEW s \in Slots, Serve(s)
    PROVE  [Service!Next]_Service!vars
<1>1. CASE Answer(s) /\ UNCHANGED rows
  BY <1>1, AnsweredStep
<1>2. CASE /\ req[s].op # "refresh" /\ UNCHANGED rows
           /\ \E r : req' = [req EXCEPT ![s] = r] /\ r.op = req[s].op
  BY <1>2, UnseenStep DEF Asked
<1>3. CASE /\ At(s, "refresh", "validate") /\ Goto(s, "lookup") /\ UNCHANGED rows
  <2> DEFINE r == [req[s] EXCEPT !.step = "lookup"]
  <2>1. /\ req' = [req EXCEPT ![s] = r]
        /\ r.op = "refresh" /\ r.step = "lookup" /\ r.token = req[s].token
    BY <1>3, ServedIsGood DEF Goto, At, Requests
  <2>2. Asked(r) = Asked(req[s])
    BY <1>3, <2>1 DEF Asked, At
  <2> QED  BY <1>3, <2>1, <2>2, UnseenStep
<1>4. CASE LoginStore(s) \/ LogoutRevoke(s) \/ RefreshLookup(s)
  BY <1>4, LoginStoreStep, LogoutRevokeStep, RefreshLookupStep
<1>5. ASSUME NEW step, Goto(s, step)
      PROVE  \E r : req' = [req EXCEPT ![s] = r] /\ r.op = req[s].op
  <2>1. /\ req' = [req EXCEPT ![s] = [req[s] EXCEPT !.step = step]]
        /\ [req[s] EXCEPT !.step = step].op = req[s].op
    BY <1>5, ServedIsGood DEF Goto, Requests
  <2> QED  BY <2>1
<1>6. CASE LoginUnknown(s) \/ LoginWrongPassword(s) \/ LoginCollides(s) \/ RefreshIssue(s)
           \/ LogoutNoRow(s) \/ DatabaseFails(s) \/ Register(s) \/ CreateUser(s)
           \/ UpdateUser(s) \/ DeleteUser(s)
  <2>1. Answer(s) /\ UNCHANGED rows
    BY <1>6
    DEF LoginUnknown, LoginWrongPassword, LoginCollides, RefreshIssue, LogoutNoRow,
        DatabaseFails, Register, CreateUser, Insert, UpdateUser, DeleteUser, Refuse
  <2> QED  BY <1>1, <2>1
<1>7. CASE RefreshValidate(s)
  BY <1>1, <1>3, <1>7 DEF RefreshValidate, ValidateBody, Refuse, At
<1>8. CASE LogoutValidate(s)
  BY <1>1, <1>2, <1>5, <1>8 DEF LogoutValidate, ValidateBody, Refuse
<1>9. CASE Authorize(s)
  <2>1. req[s].op # "refresh"
    BY <1>9, ServedIsGood DEF Authorize, Good, RefreshGood
  <2> QED  BY <1>1, <1>2, <1>5, <1>9, <2>1 DEF Authorize, Refuse
<1>10. CASE RegisterCheck(s)
  BY <1>1, <1>2, <1>5, <1>10 DEF RegisterCheck, Refuse, At
<1>11. CASE LoginLookup(s)
  <2>1. \E u : req' = [req EXCEPT ![s] = [req[s] EXCEPT !.step = "hash", !.user = u,
                                                        !.role = users[u].role]]
    BY <1>11 DEF LoginLookup
  <2>2. \A u : [req[s] EXCEPT !.step = "hash", !.user = u, !.role = users[u].role].op = req[s].op
    BY ServedIsGood DEF Requests
  <2> QED  BY <1>2, <1>11, <2>1, <2>2 DEF LoginLookup, At
<1>12. CASE LoginSign(s)
  <2> DEFINE t == [user |-> req[s].user, role |-> req[s].role, type |-> "refresh", iat |-> now]
  <2>1. /\ req' = [req EXCEPT ![s] = [req[s] EXCEPT !.step = "store", !.token = t]]
        /\ [req[s] EXCEPT !.step = "store", !.token = t].op = req[s].op
    BY <1>12, ServedIsGood DEF LoginSign, Requests
  <2> QED  BY <1>2, <1>12, <2>1 DEF LoginSign, At
<1> QED
  BY <1>4, <1>6, <1>7, <1>8, <1>9, <1>10, <1>11, <1>12 DEF Serve

(***************************************************************************)
(* The handlers implement the one-step service of sessions, of any number  *)
(* of requests at a time: every step opens or closes a session, decides a  *)
(* refresh, or changes nothing that a client could tell.                   *)
(***************************************************************************)
THEOREM ServiceImplemented == Spec => ImplementsService
<1>1. Init => Service!Init
  BY DEF Init, Service!Init, Service!Unasked, Revoked, Asked, NoRequest
<1>2. Inv /\ [Next]_vars => [Service!Next]_Service!vars
  <2> SUFFICES ASSUME Inv, [Next]_vars PROVE [Service!Next]_Service!vars
    OBVIOUS
  <2>1. CASE UNCHANGED <<rows, req>>
    BY <2>1 DEF Service!vars, Revoked, Asked
  <2>2. ASSUME NEW s \in Slots, Arrive(s) \/ Serve(s)
        PROVE  [Service!Next]_Service!vars
    BY <2>2, ArriveStep, ServeStep
  <2> QED  BY <2>1, <2>2 DEF Next, Tick, vars
<1> QED  BY <1>1, <1>2, Invariance, PTL DEF Spec, ImplementsService, Service!Spec

=============================================================================
