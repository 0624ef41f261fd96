--------------------------------- MODULE Lists ---------------------------------
(***************************************************************************)
(* The lists of users and of salary codes in the web client: the queries   *)
(* and mutations of hooks.ts over the cache of the QueryClient of          *)
(* main.tsx, and the pages that observe them (the dashboard, users, salary *)
(* codes, and the form of the employees page).                             *)
(*                                                                         *)
(* A list is the revision of its table that the server answered from.  The *)
(* cache is TanStack Query's: a key is loaded once for all that observe    *)
(* it; a mutation's success invalidates the keys of its table: those that  *)
(* are observed are loaded again, what is under way for one with data is   *)
(* dropped, what is under way for one without is waited for.  The cache    *)
(* outlives a logout.                                                      *)
(***************************************************************************)
EXTENDS Integers, FiniteSetsExt

CONSTANTS
    AllUsers, EmployeeUsers,        \* keys ['users', {}], ['users', {role: 'employee'}]
    UserFilters,                    \* keys the selects of the users page give
    AllCodes, FiftyCodes,           \* keys ['salary-codes', {}], [..., {limit: 50}]
    CodeFilters,                    \* keys the input of the salary codes page gives
    Mutations,                      \* mutations under way at a time
    MaxRevision                     \* changes of each table (bound of the model)

UserKeys == {AllUsers, EmployeeUsers} \cup UserFilters
CodeKeys == {AllCodes, FiftyCodes} \cup CodeFilters
Keys == UserKeys \cup CodeKeys
Tables == {"users", "salary-codes"}

ASSUME ListsAssumption ==
    /\ UserKeys \cap CodeKeys = {}
    /\ AllUsers \in UserFilters /\ AllCodes \in CodeFilters
    /\ MaxRevision \in [Tables -> Nat]

VARIABLES
    user,       \* the role of the user of the tab, or "none"
    page,       \* the page that is shown
    filter,     \* the key its filters give
    dialog,     \* the employee form is open
    cache,      \* the entry of every key
    mutation,   \* the mutations under way
    revision,   \* the server's tables
    acked       \* history: the last revision that a mutation's success told of

screen == <<user, page, filter, dialog>>
vars == <<screen, cache, mutation, revision, acked>>

-----------------------------------------------------------------------------
(***************************************************************************)
(* What the pages ask for, and what they show of it.                       *)
(***************************************************************************)
Table(k) == IF k \in UserKeys THEN "users" ELSE "salary-codes"

Pages == {"/", "/employees", "/users", "/salary-codes", "/login"}

MayShow(u) ==
    IF u = "none" THEN {"/login"}
    ELSE {"/", "/employees"} \cup (IF u = "admin" THEN {"/users", "/salary-codes"} ELSE {})

FormKeys(u, open) ==
    {IF u = "admin" /\ open THEN EmployeeUsers ELSE AllUsers,
     IF open THEN FiftyCodes ELSE AllCodes}

Observes(u, p, f, open) ==
    CASE p = "/" -> {AllUsers}
      [] p \in {"/users", "/salary-codes"} -> {f}
      [] p = "/employees" -> FormKeys(u, open)
      [] p = "/login" -> {}

Observed == Observes(user, page, filter, dialog)

\* The counts of the dashboard, the tables of the two pages, and the selects
\* of the open form: users are listed to an administrator only.
FormShowsAll == FormKeys(user, TRUE)    \* mutant: the form's users need no admin

FormShows == IF user = "admin" THEN FormKeys(user, TRUE) ELSE {FiftyCodes}

DashboardShows == IF user = "admin" THEN {AllUsers} ELSE {}

Shows ==
    CASE page = "/" -> DashboardShows
      [] page \in {"/users", "/salary-codes"} -> {filter}
      [] page = "/employees" -> IF dialog THEN FormShows ELSE {}
      [] page = "/login" -> {}

\* isError comes before the table: an error hides the data there is.
InTable(k) == k \in Shows /\ cache[k].status = "success"

-----------------------------------------------------------------------------
(***************************************************************************)
(* The entry of a key.                                                     *)
(***************************************************************************)
NoData == -1
Revisions == 0 .. Max({MaxRevision[t] : t \in Tables})

Entries ==
    [data : Revisions \cup {NoData}, status : {"pending", "success", "error"},
     stale : BOOLEAN, fetch : {"idle", "sent", "read"},
     seen : Revisions, retried : BOOLEAN,
     overtaken : BOOLEAN]           \* history: a success came after the read

Empty == [data |-> NoData, status |-> "pending", stale |-> TRUE,
          fetch |-> "idle", seen |-> 0, retried |-> FALSE, overtaken |-> FALSE]

Fetching(e) ==
    [e EXCEPT !.fetch = "sent", !.retried = FALSE, !.seen = 0, !.overtaken = FALSE,
              !.status = IF e.data = NoData THEN "pending" ELSE @]

\* An observer comes: staleTime has passed, or the entry is invalid or empty.
Joined(e) == IF e.fetch = "idle" /\ e.stale THEN Fetching(e) ELSE e

\* Its table has changed: see the top of the module.
InvalidatedLazily(k, e, at) ==  \* mutant: what is observed is not loaded again
    [e EXCEPT !.stale = TRUE]

Waits(k, e) == k \notin Observed \/ (e.data = NoData /\ e.fetch # "idle")

Invalidated(k, e, at) ==
    IF Waits(k, e)
      THEN [e EXCEPT !.stale = TRUE,
                     !.overtaken = @ \/ (e.fetch = "read" /\ e.seen < at)]
      ELSE Fetching([e EXCEPT !.stale = TRUE])

\* A mutation under way: its table, and once it is applied, the revision.
Idle == [state |-> "idle", table |-> "users", at |-> 0]

Started(t) == [state |-> "sent", table |-> t, at |-> 0]

Applied(t, r) == [state |-> "applied", table |-> t, at |-> r]

Init ==
    /\ user = "none" /\ page = "/login"
    /\ filter = AllUsers /\ dialog = FALSE
    /\ cache = [k \in Keys |-> Empty]
    /\ mutation = [m \in Mutations |-> Idle]
    /\ revision = [t \in Tables |-> 0]
    /\ acked = [t \in Tables |-> 0]

-----------------------------------------------------------------------------
(***************************************************************************)
(* The screen: what it observes anew is loaded when it is stale.  Another  *)
(* page brings observers of its own, another filter one for its key.       *)
(***************************************************************************)
View(u, p, f, open, new) ==
    /\ user' = u /\ page' = p /\ filter' = f /\ dialog' = open
    /\ cache' = [k \in Keys |-> IF k \in new THEN Joined(cache[k]) ELSE cache[k]]
    /\ UNCHANGED <<mutation, revision, acked>>

FirstFilter(p) == IF p = "/salary-codes" THEN AllCodes ELSE AllUsers

Open(u, p) == View(u, p, FirstFilter(p), FALSE, Observes(u, p, FirstFilter(p), FALSE))

Navigate(p) ==
    /\ p \in MayShow(user) /\ p # page
    /\ Open(user, p)

Login(u) ==
    /\ user = "none"
    /\ Open(u, "/")

\* Logging out, or a refresh that fails: the entries stay.
LeaveShowing ==                 \* mutant: the page stays for the next user
    /\ user # "none"
    /\ \E u \in {"admin", "employee"} : View(u, page, filter, dialog, {})

Leave ==
    /\ user # "none"
    /\ Open("none", "/login")

SetFilter(f) ==
    /\ \/ page = "/users" /\ f \in UserFilters
       \/ page = "/salary-codes" /\ f \in CodeFilters
    /\ f # filter
    /\ View(user, page, f, dialog, {f})

SetDialog(open) ==
    /\ page = "/employees" /\ open # dialog
    /\ View(user, page, filter, open, FormKeys(user, open) \ FormKeys(user, dialog))

\* The error's button: refetch().
TryAgain ==
    /\ page \in {"/users", "/salary-codes"}
    /\ cache[filter].status = "error"
    /\ cache' = [cache EXCEPT ![filter] = Fetching(@)]
    /\ UNCHANGED <<screen, mutation, revision, acked>>

-----------------------------------------------------------------------------
(***************************************************************************)
(* Loading a key: the server reads the table, and the answer comes or is   *)
(* lost.  A failure is tried once more while somebody observes the key.    *)
(***************************************************************************)
Set(k, e) ==
    /\ cache' = [cache EXCEPT ![k] = e]
    /\ UNCHANGED <<screen, mutation, revision, acked>>

Reads(k) ==
    /\ cache[k].fetch = "sent"
    /\ Set(k, [cache[k] EXCEPT !.fetch = "read", !.seen = revision[Table(k)]])

Loaded(k) ==
    /\ cache[k].fetch = "read"
    /\ Set(k, [cache[k] EXCEPT !.data = cache[k].seen, !.status = "success",
                               !.stale = FALSE, !.fetch = "idle", !.seen = 0,
                               !.retried = FALSE])

Retries(k) ==
    /\ cache[k].fetch # "idle"
    /\ ~cache[k].retried /\ k \in Observed
    /\ Set(k, [cache[k] EXCEPT !.fetch = "sent", !.retried = TRUE, !.seen = 0,
                               !.overtaken = FALSE])

LoadFails(k) ==
    /\ cache[k].fetch # "idle"
    /\ cache[k].retried \/ k \notin Observed
    /\ Set(k, [cache[k] EXCEPT !.status = "error", !.stale = TRUE,
                               !.fetch = "idle", !.seen = 0, !.retried = FALSE,
                               !.overtaken = FALSE])

\* 30 s pass, or 5 minutes without an observer.
Ages(k) ==
    /\ cache[k].data # NoData /\ ~cache[k].stale
    /\ Set(k, [cache[k] EXCEPT !.stale = TRUE])

Collected(k) ==
    /\ k \notin Observed /\ cache[k].fetch = "idle" /\ cache[k] # Empty
    /\ Set(k, Empty)

-----------------------------------------------------------------------------
(***************************************************************************)
(* Mutations: create, update and delete of a page's table.  They outlive   *)
(* the page and the session that started them.                             *)
(***************************************************************************)
Mutates(m) ==
    /\ mutation[m] = Idle
    /\ page \in {"/users", "/salary-codes"}
    /\ mutation' = [mutation EXCEPT ![m] = Started(Table(filter))]
    /\ UNCHANGED <<screen, cache, revision, acked>>

\* The server changes the table: for a mutation of this tab, whose answer
\* may come much later, or for somebody else.
Changes(t) ==
    /\ revision[t] < MaxRevision[t]
    /\ revision' = [revision EXCEPT ![t] = @ + 1]

Applies(m) ==
    /\ mutation[m].state = "sent"
    /\ LET t == mutation[m].table IN
         /\ Changes(t)
         /\ mutation' = [mutation EXCEPT ![m] = Applied(t, revision[t] + 1)]
    /\ UNCHANGED <<screen, cache, acked>>

SomebodyElse(t) ==
    /\ Changes(t)
    /\ UNCHANGED <<screen, cache, mutation, acked>>

\* onSuccess: invalidateQueries, for the keys that begin with the table's name.
Succeeds(m) ==
    /\ mutation[m].state = "applied"
    /\ LET t == mutation[m].table
           at == mutation[m].at
       IN  /\ acked' = [acked EXCEPT ![t] = IF at > @ THEN at ELSE @]
           /\ cache' = [k \in Keys |->
                           IF Table(k) = t THEN Invalidated(k, cache[k], at) ELSE cache[k]]
    /\ mutation' = [mutation EXCEPT ![m] = Idle]
    /\ UNCHANGED <<screen, revision>>

\* onError: a toast, whether the server has changed the table or not.
Fails(m) ==
    /\ mutation[m] # Idle
    /\ mutation' = [mutation EXCEPT ![m] = Idle]
    /\ UNCHANGED <<screen, cache, revision, acked>>

-----------------------------------------------------------------------------
Settles(k) == Reads(k) \/ Loaded(k) \/ Retries(k) \/ LoadFails(k)

Next ==
    \/ \E p \in Pages : Navigate(p)
    \/ \E u \in {"admin", "employee"} : Login(u)
    \/ \E f \in Keys : SetFilter(f)
    \/ \E open \in BOOLEAN : SetDialog(open)
    \/ Leave \/ TryAgain
    \/ \E k \in Keys : Settles(k) \/ Ages(k) \/ Collected(k)
    \/ \E m \in Mutations : Mutates(m) \/ Applies(m) \/ Succeeds(m) \/ Fails(m)
    \/ \E t \in Tables : SomebodyElse(t)

Spec == Init /\ [][Next]_vars

-----------------------------------------------------------------------------
(***************************************************************************)
(* Every variable stays in its set.                                        *)
(***************************************************************************)
TypeOK ==
    /\ user \in {"none", "admin", "employee"}
    /\ page \in MayShow(user)
    /\ filter \in Keys /\ dialog \in BOOLEAN
    /\ cache \in [Keys -> Entries]
    /\ mutation \in [Mutations -> [state : {"idle", "sent", "applied"},
                                    table : Tables, at : Revisions]]
    /\ revision \in [Tables -> Revisions] /\ acked \in [Tables -> Revisions]

(***************************************************************************)
(* A table on the screen, with nothing loading, shows at least the last    *)
(* change whose success was reported ("User created"): also when the       *)
(* success came while its key was not observed, while another load was     *)
(* under way, or in another session.  The exception is a load that had     *)
(* read the table before the change and that the success does not drop:    *)
(* the first of its key, or one that nobody observed.                      *)
(***************************************************************************)
ListsCatchUp ==
    \A k \in Keys :
      InTable(k) /\ cache[k].fetch = "idle" /\ ~cache[k].overtaken
        => cache[k].data >= acked[Table(k)]

(***************************************************************************)
(* Users are listed to administrators only, although the cache still holds *)
(* the lists of the administrator who used the tab before ("Only admins    *)
(* can list users", employee-form-dialog.tsx).                             *)
(***************************************************************************)
UsersListedToAdmins == Shows \cap UserKeys # {} => user = "admin"

=============================================================================
