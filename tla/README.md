# TLA+ models of piple

piple is an internal payroll system: a Go backend (gin, pgx, PostgreSQL,
Paystack) and a React client. This directory holds TLA+ modules translated from
that code, the TLC runs that check them on small instances, and proofs that
TLAPS checks for every instance. `PROJECT.json` lists every component, run,
mutant, hazard and theorem, and for every definition the source lines it stands
for.

    tlc -workers 2 -config Employees.cfg MCEmployees       # a run
    tlapm EmployeesProofs.tla                              # proofs

## The system

| part | code | state | operations | hard behaviour |
|---|---|---|---|---|
| Wallet ledger | `payment_service.go`, `store.go`, `payment.sql` | tables `wallets`, `transactions`; the pool | `CreditWallet`, `DebitWallet` in `ExecTx` | row locks, statements that fail half way, COMMITs whose answer is lost, crashes, a full pool |
| Authentication | `auth_handler.go`, `auth_service.go`, `auth.go` | tables `users`, `refresh_tokens`; tokens clients hold | `Login`, `Refresh`, `Logout`, `Register`, middleware | check and act far apart (bcrypt), claims older than the account |
| Users | `users_handler.go` | table `users`; the package variable `parsedID` | create, update, soft delete, get, list | a data race between requests; emails used again |
| Employees | `employee_handler.go`, `employees.tsx` | table `employees`; the page's rows | create, update, delete | check then insert; rows that are kept from answers and never loaded |
| Salary codes | `salary_code_handler.go` | table `salary_codes` | create (5 attempts), list, get, update, delete | count then delete, collisions |
| Web session | `api.ts`, `auth-context.tsx` | `localStorage`, `refreshing`, `user` | every call, login, logout, reload | several 401s at once, answers out of order |
| Web routes | `App.tsx`, `protected-route.tsx`, `app-layout.tsx`, `login.tsx` | the location, the user's role | links, redirects, login, logout | the user changes under a page; redirects that must end |
| Payment screens | `payment-requests.tsx`, `payouts.tsx`, `wallet.tsx`, `mock-data.ts` | mock rows of a mounted page, timers | create and review requests, batch and retry of payouts, top-ups | dialogs open over changes, timers crossing |
| Lists and forms | `hooks.ts`, `users.tsx`, `salary-codes.tsx`, the form dialogs | the query cache, dialogs | load, invalidate, filter, create, edit, delete | loads that cross a change, a cache that outlives a session |
| Payment workflows | `payment_service.go` | - | all return `ErrNotImplemented` | - |
| Payment records | `payment.sql` | `payouts`, `payment_requests`, `wallet_topups` | single queries without a caller | - |
| Paystack client | `paystack_service.go`, `http.go` | at Paystack | recipient, transfer, charge, verify | lost answers; no caller |

The backend keeps nothing between requests but its tables, the pool and
`parsedID`; handlers of different requests meet in the database. The web client
talks to the backend over HTTP and keeps the two tokens and a query cache; its
payment screens talk to nobody and work on mock data. The wallet has no caller
yet: the workflows that will use it are stubs, so its model lets any credits and
debits run at the same time.

What makes each part correct: a wallet never goes negative and is at every
moment explained by its ledger, and its callers are told the truth; live
accounts have different emails, logout and deletion are final, a lost role is
worth nothing after a known time; a request is answered for the user it is
about; one employee record per user, and its salary code exists; a 401 leads to
one refresh, each call settles, and after logout no refresh token of the session
is left; every page shown is one its user may see, and no redirect goes round
for ever; a review is final and explained; what a list or a page shows is what
the server has, and what was typed is not lost.

## Modules

| module | models |
|---|---|
| `WalletData` | one call's entry and what the two UPDATEs do with a balance |
| `WalletLedger` | abstract: one step posts an entry and moves the balance |
| `WalletTx` | the same in two statements, a transaction and a COMMIT; `Ledger == INSTANCE WalletLedger` |
| `AuthSessions` | accounts, sessions, tokens, the clock; one step per database access of a handler |
| `UserLookup` | the two handlers that share `parsedID` |
| `Directory` | employees and salary codes; one step per statement of a handler |
| `RecordForm` | the dialog that creates or edits a record, and the one that deletes it |
| `Employees` | the employees page: `RecordForm` (INSTANCE) over `Directory` (EXTENDS), with other clients and lost answers |
| `Lists` | the query cache over users and salary codes, and the pages that observe it |
| `WebSession` | one browser tab: tokens, calls, the shared refresh, login, logout, reload |
| `SessionService` | abstract: what the backend promises the tab about sessions, one step each; `AuthSessions` implements it, `WebSession` relies on it |
| `Routing` | which page is shown: route table, gate, links, redirects |
| `PaymentRequestsPage`, `PayoutsPage`, `WalletPage` | one payment screen each, from its mount |
| `Screens` | the three screens (INSTANCE) mounted and taken down by `Routing` (EXTENDS) |
| `Totals` | the running total of a sequence of amounts, of the ledger and of the wallet page |
| `*Proofs` | the theorems; `TotalsProofs` holds lemmas on totals only |
| `MC*` | values of constants, symmetry, and a constraint for `AuthExpiry` |

**WalletTx.** `pc[c]` follows one call through `ExecTx`: `begin` (pool.Begin),
`update` (the UPDATE), `insert` (`recordTx`), `commit`, `committing` (COMMIT is
sent, its answer open), `rollback` (the deferred `tx.Rollback`), `done`; `dead`
after a crash. `txStatus`, `txBalance` and `txRow` are the server's view: state
of the transaction, the version of the wallet row it wrote (and so the lock it
holds) and its ledger row. PostgreSQL is external: an UPDATE waits for the row
lock and then reads the committed version; an UPDATE whose WHERE fails returns
no row, without waiting; a failed statement leaves a transaction good for a
rollback only; the server may abort a transaction at any time and notices
clients that are gone. `StatementFails`, `BeginFails`, `CommitFails`,
`RollbackLost`, `ServerAbort` and `Crash` are the failures. The server may
commit after `CommitFails` or `Crash`.

**AuthSessions.** `req[s]` is the request a slot serves and the step it has
reached; steps are database accesses, the bcrypt comparison and the signing.
A token is the record of its claims (user, role, type, second of issue): an
HS256 JWT is a function of them, so two logins of one user in one second make
one refresh token and one hash. A refresh signs from the old claims and does
not read `users`; the middleware reads the role from the claims and accepts
both token types, as the code does. `lastHeld`, `deletedBefore` and
`revokedBefore` are history. Passwords are nondeterministic (a login may fail);
`Register` and `CreateUser` differ in the check before the INSERT. Time is in
UTC seconds, `Latency` bounds how long a request is served. Clients drop expired
tokens at `Tick`, which nothing can observe.

**UserLookup.** `parsedID` is 16 bytes without synchronisation: a write and a
read are two steps, one per half. `rivals[r]` is the history of requests in
service together with `r`.

**Directory.** `req[s]` is the request a slot handles: `start` (the check or
the count, or the only statement), `write` (the statement after it), `ok` or
`refused` (the answer, with the row as the statement's RETURNING has it). The
constraints of migration 1 (`UNIQUE (user_id)`, `UNIQUE (code)`, the foreign
key) are the guards of the writing statements: `Insertable`, `Taken`,
`Deletable`. Every statement may fail. `GenerateSalaryCode` is a choice from
`Names`, so that collisions happen. Level, amount and the other columns are
written in the same statements and left out.

**RecordForm and Employees.** The form is filled when it opens, checked by its
schema against all of its fields, and closed by Cancel or by the success of a
save, whichever record it shows by then; the submit button alone waits. The
page keeps the rows that answers bring. `from[s]` says whether it waits for the
answer to slot `s`: `Lost` and `Leave` make an answer nobody's while the handler
goes on. `foreign` is history: the employees that somebody else, a lost answer,
or a save and a deletion at the same time have changed. An answer carries the row as
it was written, so a record that is saved and deleted at once may stay on the
page; that is why it counts as `foreign`.

**Lists.** A list is the revision of its table. `cache[k]` is TanStack Query's
entry of a key (external, version 5): data, status, `stale`, the fetch under way
and what it has read. `Invalidated` is `invalidateQueries` with its
`cancelRefetch`: an observed key with data is loaded again and what is under way
is dropped, one without data goes on with the load it has, one that nobody
observes is marked. `Observes` says which keys a page's hooks use, `Shows` which
of them are on the screen: the dashboard and the employee form ask for the
users whoever the user is, and show them to an administrator only. An answer is
not tied to the session that asked for it.

**Routing and Screens.** `Shown` is the page that `App.tsx` and
`ProtectedRoute` render for a path and a user; `Redirect` is a `Navigate`,
`Follow` a link, `Back` the browser's buttons, `Load` a (re)load. The session is
abstract here (a user of some role, `loading`, a stored token). In `Screens` a
page that is no longer shown is unmounted: it starts from mock data when it
comes back, and its timers have no effect any more. Timers of one delay fire in
the order they were set. Amounts of top-ups are in tenths of a kobo, so that
`Math.round(naira * 100)` has something to round.

**WebSession.** A step is a task of the tab, from an event to the next await of
something unsettled. `flight[c]` is the refresh call `c` started, `refreshing`
the one that is shared. The continuations of all calls that wait for one
refresh run in the same turn of microtasks, and are one step. Tokens are named
by the login they belong to. A form is disabled while its login is under way, but
the login page has no gate: it is mounted for whoever opens it, signed in or not,
and anew with another form, so that `login` counts the logins that are sent, up to
the bound `MaxLogins`. The server is an environment that may grant or deny, but
never grants once the token is revoked: no more than `SessionService` promises
(`RespectsService`).

**SessionService.** `opened`, `closed` and `asked` are the sessions that a login
has stored, those that a logout has revoked, and the refresh each client waits
for. It joins the two sides of the HTTP connection without a product of their
states. In `AuthSessions` (`ImplementsService`) a session is a refresh token, it
is opened by `LoginStore`, closed by `LogoutRevoke`, and a refresh is granted
where `RefreshLookup` has found its row usable, before it signs and answers. In
`WebSession` (`RespectsService`) a client is a call of the tab and `asked` is
`flight`. An access token lives on after its session is closed on either side:
`AuthorityExpires` says for how long.

## Runs

| run | checks | instance |
|---|---|---|
| `Wallet` | `NoOverdraft`, `LedgerExplainsBalance`, `ResultIsTrue`, `PostedOnce`, `NoStandstill`, `BalanceMovesWithLedger`, refinement of `WalletLedger`, `EveryCallEnds`, `LocksAreReleased` | 3 calls, 1 wallet and an id of none, amount 1, balances to 2, 2 connections |
| `AuthExpiry` | `AuthorityExpires` | 2 slots, 1 account, 2 roles, lifetimes 1 and 2, latency 1, clock to 4 |
| `AuthSafety` | `LogoutIsFinal`, `DeletedCannotSignIn`, `LiveEmailsUnique`, `RevocationIsFinal`, `SessionsAreSeparate`, refinement of `SessionService` | 2 slots, 2 accounts, 1 email, 2 sessions, two seconds |
| `LookupShared` | `AnswerIsOwnOrRivals` | 3 requests, 2 users, 1 id of nobody |
| `LookupMe` | violation of `MeIsMe` | 2 requests |
| `Employees` | types, `OneEmployeePerUser`, `CodeOfEmployeeExists`, `CodesAreUnique`, `RowsAreTheServers`, `DraftSurvivesFailure` | 2 slots, 1 user, 2 employee ids, 2 salary codes, 2 attempts |
| `UserEdits` | violation of `EditIsSaved` | 1 user, email and password |
| `Lists` | types, `ListsCatchUp`, `UsersListedToAdmins` | 2 keys of users, 1 of codes, 1 mutation at a time, 2 changes |
| `WebCalls` | `SingleFlight`, `RefreshTokenStaysOut`, `CallsMoveForward`, `EveryCallSettles` | 3 calls, 2 logins, 1 sent at a time |
| `WebLogoutOut` | violation of `LoggedOutStaysOut` | 2 calls, 2 logins, both sent at a time |
| `Screens` | types, `LinksLand`, `ReviewEndsWithAccess`, `RejectedSaysWhy`, `OneTimerEach`, `NothingLost`, `ReviewIsFinal`, `PayoutsMoveForward`, `SomePageIsShown`, `EveryRunEnds` | every path and role; 3 requests, 3 payouts, 2 amounts |
| `ScreensReview` | violation of `ReviewedByCeo` | that of `Screens` |

Bounds, and why they are enough:

- `Wallet`: two calls race for a row, the third is queued behind the pool,
  committed before, or orphaned with the lock. Balances reach both ends: two
  debits fit a balance of 1 but not together, and a third credit does not fit. One
  wallet is where calls meet; calls of other wallets share the pool only. The run
  checks safety and liveness in one, and so has no symmetry; its safety properties
  are proved for any calls, wallets, amounts and pool.
- `AuthExpiry`: the clock runs one second past the last moment at which a token
  made from a lost role can be good (`Staleness` is 3 here, and TLC refutes the
  bound less one). Lifetimes differ, so that the two cannot be swapped in the
  sum. There is one account and no other to create, and constraint `OneAccount`
  leaves out the requests that could then only be refused. `MaxSessions` counts
  stored refresh tokens; two logins may still be in service at once.
- `AuthSafety`: the second account takes the email of the first once that is
  deleted, and two INSERTs of the email race; two sessions let two logins
  collide within one second, and a deleted administrator try to sign in again.
  Expiry is `AuthExpiry`'s.
- `LookupShared`: a third request can come and go between the halves of the
  other two.
- `Employees`: one slot can be the page's and the other somebody else's, or both
  the page's (a save and a deletion), or both others' (two creations for the one
  user, a count and an insertion). A second employee id lets a record be made
  after a deletion; with two codes and two names a collision is tried again and
  may then be refused.
- `Lists`: two keys of one table, one observed and one not; the second change
  comes while the success of the first is under way. The codes' table does not
  change here: its keys are loaded by the same code, and are there for the pages
  that observe them. `FiftyCodes` is given the key `AllCodes`.
- `WebCalls`: one call starts the refresh, one joins it, one is sent after it.
  Two logins tell the tokens of an old session from those of a new one. One of them
  is sent at a time, by a tab with or without a user: a second one in flight
  shares nothing with the first before its answer, which is a step of its own.
  The safety properties are proved for any `MaxLogins`, and `WebLogoutOut` has 2.
- `Screens`: one row of every kind the pages treat differently (pending,
  rejected and new; processing, failed and short of funds, in two periods); of
  the two amounts one rounds to nothing.

All of the safety properties above are proved without these bounds, and so are
the types of the modules whose runs do not list them (see Proofs).

`CHECK_DEADLOCK FALSE` stands in the two `Auth` runs only: there the bounded
clock and `MaxSessions` stop the model, not the code. Wallet and lookup models end
in `Finished`, which stutters once everything has ended.

Every property is checked to be breakable by a plausible bug: the operators
marked `mutant` are such bugs (a lost guard, a missing constraint, a statement
outside its transaction, a retry that is not counted, a page that is hidden and
stays mounted, an invalidation that loads nothing), and `PROJECT.json` pairs each with the
property it violates.

### What the violations show

- `LookupMe`: two requests at the same time share `parsedID`; one of them, here
  `/me`, reads the id the other has written, and answers with that user.
- `WebLogoutOut`: logout clears the store "regardless", but the answer of a
  refresh that was under way puts an access token of the session back.
- `UserEdits`: the form that edits a user is checked by the schema of the form
  that creates one, which asks for a password of 8 characters. An edit sets the
  password to the empty string and shows no field for it: a complete edit is
  refused by a field that nobody sees, and nothing is sent.
- `ScreensReview`: `endpoints.md` (44, 48, 49) has procurement create payment
  requests and the CEO alone approve or reject them, the page's form says
  "Procurement raises a request for CEO review", and migration 1 calls
  `reviewed_by` the "CEO who approved/rejected". The route admits administrators,
  the CEO and procurement alike, and the page shows the buttons of a review to all
  of them: procurement approves a request, and the row says 'You (CEO)'. The rows are mock
  data, and the backend has no endpoint yet that would refuse. What does hold is
  `ReviewEndsWithAccess`: nobody reviews whom the route does not admit, and no
  dialog stays open behind the gate.

### What the models show and no property states

- `DebitWallet` reports an id that names no wallet as short of funds.
- A `me()` that was answered before a refresh failed, and is taken after it,
  sets the user again over an empty store; a refresh of an old session that
  fails after the next login clears the new session's tokens (`WebSession`).
- The success of a save closes the dialog although another record is open in it
  by then; a record that is saved and deleted at once may stay on the page
  (`Employees`).
- A load that had read the table before a change is not dropped when it is the
  first of its key, or when nobody observes the key: the change is not shown
  until the entry ages (`overtaken` in `Lists`).
- A retried payout that the batch's timer has completed is completed once more by
  its own timer (`PayoutsPage`); `OneTimerEach` and `PayoutsMoveForward` say that
  neither sweeps a failed row along nor takes a row back. The rows are mock data:
  nothing is paid.
- A reason typed in a reject dialog that is cancelled stays, and can be confirmed
  for the next request (`PaymentRequestsPage`); `RejectedSaysWhy` says that there
  is a reason, not whose it is.
- A typed amount of less than half a kobo becomes a pending top-up of 0
  (`WalletPage`).
- `UsersListedToAdmins` is about what is displayed: `main.go:54` serves `GET /users`
  to any user that is signed in, though `endpoints.md:9` says admin only, and the
  dashboard and the employee form load the list for every role (`Observes`).

## Fairness

Only liveness properties use it.

- `WalletTx!FairSpec`: a call that can take its next step takes it (goroutines
  are scheduled, statements are answered or fail), a call whose transaction the
  server has ended learns of it, and the server finishes the COMMITs it has and
  the transactions of clients that are gone (a closed connection ends its
  backend). No failure is ever forced. Fairness is weak, and yet enough for the
  lock and for the pool: calls are finitely many, so nobody can be overtaken for
  ever.
- `WebSession!FairSpec`: every request is answered at last, with an error if
  nothing else (the browser's own limit; the client sets no timeout), and the
  tab runs its tasks. `EveryCallSettles` excepts a tab that is reloaded for ever.
- `Screens!AppFairness`: React renders a `Navigate`, `loadUser` ends (as above),
  and a timer of a mounted page fires. Nobody has to click. `SomePageIsShown`
  excepts a tab that is loaded again and again.

## Assumptions on what is not in the repository

PostgreSQL: a statement is atomic and checks its constraints at its end; row
locks as described under `WalletTx`. TanStack Query 5: fetch, retry, staleness
and invalidation as described under `Lists`. React 19: a button that a click has
disabled is rendered disabled before the next click; the state of an unmounted
page is gone. react-router 7: `Navigate` is rendered once for each match. The
browser: timers of one delay fire in order; dialogs of the component library are
modal and close on Escape.

## Proofs

Every theorem holds for all values of the constants that the named assumptions
of the modules admit (amounts are positive, ids and markers differ, lifetimes
are positive, and the like).

| module | theorems |
|---|---|
| `WalletTxProofs` | `[]Inv`; types; `NoOverdraft`; `LedgerExplainsBalance`; `ResultIsTrue /\ PostedOnce`; `BalanceMovesWithLedger`; `WalletTx` implements `WalletLedger`; `NoStandstill`; `CallsMoveForward` |
| `AuthSessionsProofs` | `[]Inv`; types; `LiveEmailsUnique`; `LogoutIsFinal`; `DeletedCannotSignIn`; `AuthorityExpires`; `RevocationIsFinal`; `SessionsAreSeparate`; `AuthSessions` implements `SessionService` |
| `UserLookupProofs` | `[]Inv`; types; `AnswerIsOwnOrRivals` |
| `WebSessionProofs` | `[]Inv`; types; `SingleFlight`; `RefreshTokenStaysOut`; `CallsMoveForward`; `WebSession` keeps to `SessionService` |
| `EmployeesProofs` | for `Directory`: `[]Inv`; types; `OneEmployeePerUser`; `CodeOfEmployeeExists`; `CodesAreUnique`; `IdentitiesAreKept`; `RequestsMoveForward`. For `Employees`: `[]EInv`; `EmployeesSpec => Spec` of `Directory`, and by it `Directory`'s constraints and `RequestsMoveForward`; types; `RowsAreTheServers`; `DraftSurvivesFailure` |
| `ListsProofs` | `[]LInv`; types; `ListsCatchUp`; `UsersListedToAdmins` |
| `ScreensProofs` | `[]AppInv`; types; `AppSpec => Spec` of `Routing`; `ReviewEndsWithAccess`; `RejectedSaysWhy`; `OneTimerEach`; `NothingLost`; `LinksLand`; `ReviewIsFinal`; `PayoutsMoveForward`; `RunsAreTimed`; `TimersMoveUp`; `SomewhereToGo /\ RedirectsLand` |
| `TotalsProofs` | lemmas: a running total has one value, and what appending to it or putting in front of it does |

Each rests on an inductive invariant, because what the property says of a state
is decided steps before it:

- **WalletTx.** `ServerCommit` overwrites a balance with a version computed
  steps ago. `Inv` says why that version is still right: one holder per row
  (`RowsAreLocked`), what a holder wrote is the committed balance moved by its
  amount and in range (`VersionIsCurrent`), a COMMIT is only sent with both
  writes (`BothWritesOrNone`), where the call is and what the server can have
  made of it (`ClientAndServerAgree`), and what was posted (`VerdictIsPosted`).
  The refinement maps the variables to themselves: `ServerCommit` is `Post`,
  `CommitAck` is `Confirm`, `UpdateNoRow` is `Refuse`, errors are `Fail`.
  `LedgerExplainsBalance` follows from the step behind `BalanceMovesWithLedger`
  (`PostsOneRow`) and a lemma on the total of a ledger with one row more.
  `NoStandstill` needs `ConnIsHeld`, that a call has its connection from
  `pool.Begin` until it returns: the holder of a row lock never waits for the
  pool, it is in the middle of its transaction or the server's to finish.
  `NoWayBack` is the other half of termination: the stage of a call only falls,
  and a verdict of the server stands.
- **AuthSessions.** A handler acts on what it has read before. `Good(r)` says
  what stays true of that: deletions and revocations are final, and the last
  time a user had a role only grows. `Fresh` follows the role from the lookup
  of a login over the refresh token to the access token, adding up the latencies.
  For the refinement, a refresh token that a client holds is one that a login has
  stored (`HeldGood`), so that `AskRefresh` is `Ask`, and `RefreshGood` names the
  steps a refresh can be at. A step of a handler that is not a lookup, a store
  or a revocation is a stutter, or takes an answer (`Done`).
- **UserLookup.** Follows one half of the id: a request writes it before it reads
  it, and whoever overwrites it in between is in service at the same time
  (`RivalsMeet`, `HighIsAsked`); the query finds a user only by halves that agree.
- **WebSession.** A refresh under way is the one `refreshing` stands for, and
  whoever waits, waits for one under way (`FlightIsShared`); a session in the
  store or in a logout was opened, and what was logged out is not stored
  (`SessionsAreOpened`). `EveryAnswerIsTaken` says that nothing more is assumed of
  the server than the service promises: its grants and denials can be taken in
  every state, and no others can.
- **Directory.** Types and the three constraints are inductive together: they
  hold whatever the handlers have checked, which is the point. `Remaining` counts
  down over the statements and the attempts that a request has left.
- **Employees.** `EInv` adds that the page waits for one request of either kind
  (`Waits`), that what it knows exists or is gone and what is being created is
  none of it (`KnownExist`), that an answer under way is the row the server has
  (`AnswerIsRow`), and that a row is the server's unless such an answer or
  somebody else says otherwise (`RowsGood`).
- **Lists.** What is shown depends on entries nobody shows: an entry that is fresh
  or observed has the reported changes, and a load that has read too early is
  marked (`Good`); no success tells of a revision that is not there (`Told`);
  the filter belongs to the page (`FilterFits`).
- **Screens.** The reject dialog is open only for a pending request of the page
  that is mounted, and a payout that can be retried has no timer; a remount
  starts both again. `NothingLost` is the total of a list with a top-up in front.
- **Totals.** `Total` is a fold of the community modules. The library's induction
  theorems take an operator and cannot be instantiated here, so `SetInduction`
  states induction for a set of naturals and gets it from the well-order of the
  naturals, which the library has in first-order form. `IndexFold` shows that
  the function the fold is defined by exists, `RunningUnique` that the running
  totals are unique, and `TotalAppend` and `TotalCons` what one amount more does.

Model-checked only: the liveness properties (`EveryCallEnds`,
`LocksAreReleased`, `EveryCallSettles`, `SomePageIsShown`, `EveryRunEnds`), since
fairness and ENABLED are outside the prover's reach. Most of what they rest on is
safety, and is proved: somebody can always go on and nobody goes back
(`NoStandstill` and `CallsMoveForward` of `WalletTx`), a call moves forward between
two of its starts (`CallsMoveForward` of `WebSession`), requests count down
(`RequestsMoveForward`), what runs has a timer and timers move up
(`RunsAreTimed`, `TimersMoveUp`), and where no page is shown there is somewhere to
go, in one redirect (`SomewhereToGo`, `RedirectsLand`). What is left to TLC is that
a step which stays possible is taken.

## Not modelled

- Payment workflows: `ErrNotImplemented`. Queries on payouts, payment requests
  and top-ups, and `UpdateUserPassword`: no caller, so no code says in which
  order they are used.
- The Paystack client: stateless calls to a service the repository does not
  describe. A retry of `CreditWallet` after an ambiguous error: no caller, and
  `LedgerEntry` has no key that would make it safe.
- Offsets, totals and page counts of the two list handlers (a count and a read,
  which change nothing); the web client asks for the first page only.
- The transactions and profile pages, which change nothing; rendering, wording,
  configuration.
- The wallet's currency and timestamps; names and other payload of accounts and
  employees; an update of email and role in one request (the two are
  independent).
- In `Routing`: a second submission of the login form, from a login page mounted
  anew while the first is under way (`WebSession` has it, without the page it
  goes to).
- A second click on logout while one is under way; a login while another tab's
  user is signed in; several tabs sharing `localStorage`.
- In `Lists`: a reload of the tab (the cache starts empty, which `Init` has), and
  liveness, whose state space with fairness is too large for TLC.
- `seed_test_user.sql`, whose `ON CONFLICT (email)` predates migration 3.

## Plan

What is left, in this order:

1. `Routing` over `WebSession`, in place of its abstract session: the user shown
   with an empty store would then reach the pages.
2. `PaymentRecords` and `PaystackTransfer`, once the workflows exist that give
   their steps an order.
3. Pagination with int32 offsets against a reference definition.
