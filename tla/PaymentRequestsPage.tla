-------------------------- MODULE PaymentRequestsPage --------------------------
(***************************************************************************)
(* The payment requests of payment-requests.tsx, from the moment the page  *)
(* is mounted: rows of mock-data.ts, a form for a new one, and the review  *)
(* of a pending one by approving it or by rejecting it with a reason.      *)
(*                                                                         *)
(* Texts and amounts are there or not.  A reason stands for the request it *)
(* was typed for.  Both dialogs are modal: with one of them open, nothing  *)
(* behind it can be clicked.                                               *)
(***************************************************************************)
CONSTANTS
    Requests,       \* the requests a mount of the page can show (a bound)
    MockPending,    \* mock-data.ts: those of them that are there and pending
    MockApproved,
    MockRejected,
    Nothing         \* no request, no reason

Mock == MockPending \cup MockApproved \cup MockRejected

\* What the constants have to be.
RequestsAssumption ==
    /\ Nothing \notin Requests
    /\ Mock \subseteq Requests
    /\ MockPending \cap (MockApproved \cup MockRejected) = {}
    /\ MockApproved \cap MockRejected = {}

VARIABLES
    rows,       \* the rows, and Absent for a request that is not there (yet)
    status,     \* the filter
    create,     \* the create form: open, and whether it would be taken
    rejecting,  \* the request the reject dialog is open for
    reason      \* the text of the reject dialog

vars == <<rows, status, create, rejecting, reason>>

Absent == [status |-> "absent", reason |-> Nothing]
Pending == [status |-> "pending", reason |-> Nothing]
Statuses == {"pending", "approved", "rejected"}

InitRows ==
    [r \in Requests |->
        IF r \in MockPending THEN Pending
        ELSE IF r \in MockApproved THEN [status |-> "approved", reason |-> Nothing]
        ELSE IF r \in MockRejected THEN [status |-> "rejected", reason |-> r]
        ELSE Absent]

Blank == [open |-> FALSE, good |-> FALSE]

Init ==
    /\ rows = InitRows
    /\ status = "all"
    /\ create = Blank
    /\ rejecting = Nothing
    /\ reason = Nothing

\* The page is left, or comes back: its state starts from mock-data.ts again.
Remount ==
    /\ rows' = InitRows
    /\ status' = "all"
    /\ create' = Blank
    /\ rejecting' = Nothing
    /\ reason' = Nothing

-----------------------------------------------------------------------------
Modal == create.open \/ rejecting # Nothing

\* The rows in the table, and those of them with the buttons of a review.
Filtered == {r \in Requests : rows[r].status \in Statuses
                               /\ status \in {"all", rows[r].status}}
ReviewableAny == Filtered       \* mutant: the buttons stand in every row
Reviewable == {r \in Filtered : rows[r].status = "pending"}

SetStatus(s) ==
    /\ ~Modal
    /\ status' = s
    /\ UNCHANGED <<rows, create, rejecting, reason>>

OpenCreate ==
    /\ ~Modal
    /\ create' = [create EXCEPT !.open = TRUE]
    /\ UNCHANGED <<rows, status, rejecting, reason>>

\* good: a positive amount and a description.
TypeCreate(good) ==
    /\ create.open
    /\ create' = [create EXCEPT !.good = good]
    /\ UNCHANGED <<rows, status, rejecting, reason>>

\* The texts of a form that is cancelled stay for the next time.
CancelCreate ==
    /\ create.open
    /\ create' = [create EXCEPT !.open = FALSE]
    /\ UNCHANGED <<rows, status, rejecting, reason>>

SubmitCreate(r) ==
    /\ create.open /\ create.good
    /\ rows[r] = Absent
    /\ rows' = [rows EXCEPT ![r] = Pending]
    /\ create' = Blank
    /\ UNCHANGED <<status, rejecting, reason>>

-----------------------------------------------------------------------------
Approve(r) ==
    /\ ~Modal
    /\ r \in Reviewable
    /\ rows' = [rows EXCEPT ![r].status = "approved"]
    /\ UNCHANGED <<status, create, rejecting, reason>>

OpenReject(r) ==
    /\ ~Modal
    /\ r \in Reviewable
    /\ rejecting' = r
    /\ UNCHANGED <<rows, status, create, reason>>

TypeReason ==
    /\ rejecting # Nothing
    /\ reason' \in {rejecting, Nothing}
    /\ UNCHANGED <<rows, status, create, rejecting>>

\* The reason of a dialog that is cancelled stays for the next one, too.
CancelReject ==
    /\ rejecting # Nothing
    /\ rejecting' = Nothing
    /\ UNCHANGED <<rows, status, create, reason>>

RejectUnexplained ==            \* mutant: the reason is not looked at
    /\ rejecting # Nothing
    /\ rows' = [rows EXCEPT ![rejecting] = [status |-> "rejected", reason |-> reason]]
    /\ rejecting' = Nothing
    /\ reason' = Nothing
    /\ UNCHANGED <<status, create>>

ConfirmReject ==
    /\ rejecting # Nothing
    /\ reason # Nothing
    /\ rows' = [rows EXCEPT ![rejecting] = [status |-> "rejected", reason |-> reason]]
    /\ rejecting' = Nothing
    /\ reason' = Nothing
    /\ UNCHANGED <<status, create>>

-----------------------------------------------------------------------------
Next ==
    \/ \E s \in Statuses \cup {"all"} : SetStatus(s)
    \/ OpenCreate \/ CancelCreate \/ TypeReason \/ CancelReject
    \/ ConfirmReject
    \/ \E good \in BOOLEAN : TypeCreate(good)
    \/ \E r \in Requests : SubmitCreate(r) \/ OpenReject(r) \/ Approve(r)

Spec == Init /\ [][Next]_vars

-----------------------------------------------------------------------------
(***************************************************************************)
(* Every variable stays in its set.                                        *)
(***************************************************************************)
TypeOK ==
    /\ rows \in [Requests -> [status : Statuses \cup {"absent"},
                              reason : Requests \cup {Nothing}]]
    /\ status \in Statuses \cup {"all"}
    /\ create \in [open : BOOLEAN, good : BOOLEAN]
    /\ rejecting \in Requests \cup {Nothing}
    /\ reason \in Requests \cup {Nothing}

(***************************************************************************)
(* A request is rejected with a reason, and with a reason only rejected.   *)
(***************************************************************************)
RejectedSaysWhy ==
    \A r \in Requests : rows[r].status = "rejected" <=> rows[r].reason # Nothing

=============================================================================
