-------------------------------- MODULE Screens --------------------------------
(***************************************************************************)
(* The payment screens behind the routes: Routing decides which page is    *)
(* mounted and for whom, and the mounted page takes the clicks.  A page    *)
(* that is left loses its state, and its timers have no effect any more:   *)
(* the payment screens work on mock data of their own and tell no server.  *)
(***************************************************************************)
EXTENDS Routing, Naturals, Sequences

CONSTANTS Requests, MockPending, MockApproved, MockRejected,
          Payouts, Periods, MockStatus, PeriodOf, Batch,
          Typed, MockTopups, MaxTopups

VARIABLES
    rows, status, create, rejecting, reason,    \* /payment-requests
    payouts, period, running, timers,           \* /payouts
    topups, open, amount, asked,                \* /wallet
    reviewedBy                                  \* history: who reviewed a row

RequestsPage == INSTANCE PaymentRequestsPage WITH Nothing <- None
Payroll == INSTANCE PayoutsPage
Wallet == INSTANCE WalletPage

ASSUME ScreensAssumption ==
    /\ RequestsPage!RequestsAssumption
    /\ Payroll!PayoutsAssumption
    /\ Wallet!WalletPageAssumption

routes == <<user, loading, token, path, from, login, leaving>>
requestsVars == <<rows, status, create, rejecting, reason, reviewedBy>>
payoutsVars == <<payouts, period, running, timers>>
walletVars == <<topups, open, amount, asked>>
appVars == <<routes, requestsVars, payoutsVars, walletVars>>

NoReview == [r \in Requests |-> None]

AppInit ==
    /\ Init
    /\ RequestsPage!Init /\ reviewedBy = NoReview
    /\ Payroll!Init
    /\ Wallet!Init

\* The route table and the user decide anew: a page stays mounted only while
\* it is shown, and a load takes it down in any case.
StaysHidden(p) ==               \* mutant: the gate hides a page and keeps it mounted
    path = p /\ path' = p

Stays(p) == Shown = p /\ Shown' = p

Rerender ==
    /\ IF Stays("/payment-requests")
         THEN UNCHANGED requestsVars
         ELSE RequestsPage!Remount /\ reviewedBy' = NoReview
    /\ IF Stays("/payouts") THEN UNCHANGED payoutsVars ELSE Payroll!Remount
    /\ IF Stays("/wallet") THEN UNCHANGED walletVars ELSE Wallet!Remount

Route == Next /\ Rerender

OnRequests ==
    /\ Shown = "/payment-requests"
    /\ RequestsPage!Next
    /\ reviewedBy' = [r \in Requests |->
                        IF rows[r].status = "pending" /\ rows'[r].status # "pending"
                          THEN user ELSE reviewedBy[r]]
    /\ UNCHANGED <<routes, payoutsVars, walletVars>>

OnPayouts ==
    /\ Shown = "/payouts"
    /\ Payroll!Next
    /\ UNCHANGED <<routes, requestsVars, walletVars>>

TimerFires ==
    /\ Shown = "/payouts"
    /\ Payroll!TimerFires
    /\ UNCHANGED <<routes, requestsVars, walletVars>>

OnWallet ==
    /\ Shown = "/wallet"
    /\ Wallet!Next
    /\ UNCHANGED <<routes, requestsVars, payoutsVars>>

AppNext == Route \/ OnRequests \/ OnPayouts \/ OnWallet

(***************************************************************************)
(* A timer of the mounted page fires when its time has come, redirects are *)
(* rendered, and loadUser ends.                                            *)
(***************************************************************************)
AppFairness ==
    /\ WF_appVars(Redirect /\ Rerender)
    /\ WF_appVars(LoadUserEnds /\ Rerender)
    /\ WF_appVars(TimerFires)

AppSpec == AppInit /\ [][AppNext]_appVars /\ AppFairness

-----------------------------------------------------------------------------
(***************************************************************************)
(* Every variable stays in its set.                                        *)
(***************************************************************************)
AppTypeOK ==
    /\ TypeOK
    /\ RequestsPage!TypeOK /\ reviewedBy \in [Requests -> Maybe(Roles)]
    /\ Payroll!TypeOK
    /\ topups \in Seq(Wallet!Topups) /\ open \in BOOLEAN
    /\ amount \in Typed \cup {0} /\ asked \in Nat

(***************************************************************************)
(* A review on the screen is by somebody whom the route admits, and a      *)
(* dialog of the page is open only while such a user is shown it: a change *)
(* of the user, or of the user's role, takes the page down with its        *)
(* dialogs.  Whom the route should admit is ReviewedByCeo's.               *)
(***************************************************************************)
ReviewEndsWithAccess ==
    /\ \A r \in Requests : reviewedBy[r] \in Maybe(RouteRoles["/payment-requests"])
    /\ RequestsPage!Modal => Shown = "/payment-requests"

(***************************************************************************)
(* "PATCH /payment-requests/:id/approve -- CEO only", and reject likewise  *)
(* (endpoints.md); "Procurement raises a request for CEO review" (the      *)
(* page's own form): nobody else reviews a request.                        *)
(***************************************************************************)
ReviewedByCeo == \A r \in Requests : reviewedBy[r] \in {None, "ceo"}

(***************************************************************************)
(* While the page is shown, a reviewed request keeps its status and its    *)
(* reason: the dialog that is open for it closes with the page, and a      *)
(* change of the user does not undo a review.                              *)
(***************************************************************************)
ReviewIsFinal ==
    [][Stays("/payment-requests") /\ loading' = loading =>
         \A r \in Requests :
           rows[r].status \in {"approved", "rejected"} => rows'[r] = rows[r]]_appVars

(***************************************************************************)
(* A request is rejected with a reason, and with a reason only rejected    *)
(* (endpoints.md: a rejection "should require a reason").                  *)
(***************************************************************************)
RejectedSaysWhy == RequestsPage!RejectedSaysWhy

(***************************************************************************)
(* While the page is shown, a payout goes from a failure over its own      *)
(* retry to completion, whatever the batch does meanwhile.                 *)
(***************************************************************************)
PayoutsMoveForward ==
    [][Stays("/payouts") /\ loading' = loading =>
         \A p \in Payouts : Payroll!Forward(payouts[p], payouts'[p])]_appVars

(***************************************************************************)
(* The button is disabled exactly while the batch runs, and no payout has  *)
(* two retries under way.                                                  *)
(***************************************************************************)
OneTimerEach == Payroll!OneTimerEach

(***************************************************************************)
(* Whatever runs on the page that is shown has a timer to end it, and no   *)
(* timer is overtaken by one that was set later.                           *)
(***************************************************************************)
RunsAreTimed == Payroll!RunsAreTimed

TimersMoveUp ==
    [][Stays("/payouts") /\ loading' = loading => Payroll!MovesUp]_appVars

(***************************************************************************)
(* Every batch and every retry ends: the button comes back and the payout  *)
(* is completed, or the page is left.                                      *)
(***************************************************************************)
EveryRunEnds ==
    /\ running ~> ~running
    /\ \A p \in Payouts :
         (payouts[p] = "processing" /\ MockStatus[p] # "processing")
           ~> (payouts[p] = "completed" \/ Shown # "/payouts" \/ loading)

(***************************************************************************)
(* No top-up that was asked for is missing from the pending ones.          *)
(***************************************************************************)
NothingLost == Wallet!NothingLost

=============================================================================
