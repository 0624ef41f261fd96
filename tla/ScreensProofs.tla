----------------------------- MODULE ScreensProofs -----------------------------
(***************************************************************************)
(* Proofs about Screens, for any rows of mock-data.ts and any number of    *)
(* requests, payouts and periods: who reviews a request may see it, a      *)
(* review is final, every payout moves forward, and no link sends its user *)
(* away.                                                                   *)
(*                                                                         *)
(* Each page has an invariant of its own, which its clicks and timers keep *)
(* and which a remount starts again; the routes decide which of the two    *)
(* happens.  That the dialog to reject is open for a pending request only, *)
(* and that a timer is set for no payout that can be retried, is what the  *)
(* pages' own invariants lack to be inductive.                             *)
(***************************************************************************)
EXTENDS Screens, TotalsProofs

RequestsInv ==
    /\ RequestsPage!TypeOK
    /\ RequestsPage!RejectedSaysWhy
    /\ rejecting # None => rows[rejecting].status = "pending"

PayoutsInv ==
    /\ Payroll!TypeOK
    /\ Payroll!OneTimerEach
    /\ \A p \in Payouts : Payroll!IsSet(p) => payouts[p] \notin Payroll!NeedAttention

WalletInv ==
    /\ topups \in Seq(Wallet!Topups) /\ open \in BOOLEAN
    /\ amount \in Typed \cup {0} /\ asked \in Nat

Reviewers == {None, "admin", "ceo", "procurement"}

AppInv ==
    /\ TypeOK /\ RequestsInv /\ PayoutsInv /\ WalletInv
    /\ reviewedBy \in [Requests -> Reviewers]

-----------------------------------------------------------------------------
\* What a mount of the page starts from.
LEMMA MockRows ==
    /\ RequestsPage!InitRows \in [Requests -> [status : RequestsPage!Statuses \cup {"absent"},
                                               reason : Requests \cup {None}]]
    /\ \A r \in Requests : RequestsPage!InitRows[r].status = "rejected"
                             <=> RequestsPage!InitRows[r].reason # None
BY ScreensAssumption
DEF RequestsPage!RequestsAssumption, RequestsPage!Mock, RequestsPage!InitRows,
    RequestsPage!Statuses, RequestsPage!Absent, RequestsPage!Pending

LEMMA RequestsInit ==
    ASSUME RequestsPage!Init
    PROVE  RequestsInv
BY MockRows
DEF RequestsPage!Init, RequestsInv, RequestsPage!TypeOK, RequestsPage!RejectedSaysWhy,
    RequestsPage!Blank

LEMMA RequestsRemount ==
    ASSUME RequestsPage!Remount
    PROVE  RequestsInv'
<1>1. rows' = RequestsPage!InitRows /\ status' = "all" /\ create' = RequestsPage!Blank
      /\ rejecting' = None /\ reason' = None
  BY DEF RequestsPage!Remount
<1> QED
  BY <1>1, MockRows
  DEF RequestsInv, RequestsPage!TypeOK, RequestsPage!RejectedSaysWhy, RequestsPage!Blank

\* A reviewed row is as it was.
Kept == \A r \in Requests : rows[r].status \in {"approved", "rejected"} => rows'[r] = rows[r]

LEMMA RequestsNext ==
    ASSUME RequestsInv, RequestsPage!Next
    PROVE  RequestsInv' /\ Kept
<1> USE DEF RequestsPage!Statuses
<1> DEFINE Rows == [status : {"pending", "approved", "rejected"} \cup {"absent"},
                    reason : Requests \cup {None}]
<1>1. /\ rows \in [Requests -> Rows]
      /\ status \in {"pending", "approved", "rejected"} \cup {"all"}
      /\ create \in [open : BOOLEAN, good : BOOLEAN]
      /\ rejecting \in Requests \cup {None} /\ reason \in Requests \cup {None}
      /\ \A r \in Requests : rows[r].status = "rejected" <=> rows[r].reason # None
      /\ rejecting # None => rows[rejecting].status = "pending"
  BY DEF RequestsInv, RequestsPage!TypeOK, RequestsPage!RejectedSaysWhy
<1>2. CASE UNCHANGED rows /\ rejecting' \in {rejecting, None}
           /\ create' \in [open : BOOLEAN, good : BOOLEAN]
           /\ status' \in {"pending", "approved", "rejected"} \cup {"all"}
           /\ reason' \in Requests \cup {None}
  BY <1>1, <1>2 DEF RequestsInv, RequestsPage!TypeOK, RequestsPage!RejectedSaysWhy, Kept
<1>3. ASSUME NEW r \in Requests, RequestsPage!OpenReject(r) PROVE RequestsInv' /\ Kept
  <2>1. /\ rows[r].status = "pending" /\ rejecting' = r
        /\ UNCHANGED <<rows, status, create, reason>>
    BY <1>3 DEF RequestsPage!OpenReject, RequestsPage!Reviewable
  <2> QED
    BY <1>1, <2>1 DEF RequestsInv, RequestsPage!TypeOK, RequestsPage!RejectedSaysWhy, Kept
<1>4. ASSUME NEW r \in Requests, NEW x \in Rows, rows' = [rows EXCEPT ![r] = x],
             rows[r].status \in {"absent", "pending"},
             x.status = "rejected" <=> x.reason # None,
             r # rejecting \/ rejecting' = None, rejecting' \in {rejecting, None},
             create' \in [open : BOOLEAN, good : BOOLEAN],
             status' = status, reason' \in Requests \cup {None}
      PROVE  RequestsInv' /\ Kept
  <2>1. /\ rows' \in [Requests -> Rows] /\ rows'[r] = x
        /\ \A q \in Requests \ {r} : rows'[q] = rows[q]
    BY <1>1, <1>4
  <2>2. rejecting' # None => rows'[rejecting'].status = "pending"
    BY <1>1, <1>4, <2>1
  <2>3. \A q \in Requests : rows'[q].status = "rejected" <=> rows'[q].reason # None
    BY <1>1, <1>4, <2>1
  <2>4. Kept
    BY <1>1, <1>4, <2>1 DEF Kept
  <2> QED
    BY <1>1, <1>4, <2>1, <2>2, <2>3, <2>4
    DEF RequestsInv, RequestsPage!TypeOK, RequestsPage!RejectedSaysWhy
<1>5. ASSUME NEW r \in Requests, RequestsPage!Approve(r) PROVE RequestsInv' /\ Kept
  <2>1. /\ rows[r].status = "pending" /\ rejecting = None
        /\ rows' = [rows EXCEPT ![r].status = "approved"]
        /\ UNCHANGED <<status, create, rejecting, reason>>
    BY <1>5 DEF RequestsPage!Approve, RequestsPage!Reviewable, RequestsPage!Modal
  <2>2. rows[r].reason = None
    BY <1>1, <2>1
  <2>3. PICK x \in Rows : x = [status |-> "approved", reason |-> None]
    OBVIOUS
  <2>4. rows' = [rows EXCEPT ![r] = x]
    <3>1. rows[r] \in Rows
      BY <1>1
    <3>2. [rows[r] EXCEPT !.status = "approved"] = x
      BY <2>2, <2>3, <3>1
    <3> HIDE DEF Rows
    <3> QED  BY <2>1, <3>2
  <2>5. x.status = "approved" /\ x.reason = None
    BY <2>3
  <2> QED  BY <1>1, <1>4, <2>1, <2>4, <2>5
<1>6. ASSUME NEW r \in Requests, RequestsPage!SubmitCreate(r) PROVE RequestsInv' /\ Kept
  <2>1. /\ rows[r] = RequestsPage!Absent
        /\ rows' = [rows EXCEPT ![r] = RequestsPage!Pending]
        /\ create' = RequestsPage!Blank
        /\ UNCHANGED <<status, rejecting, reason>>
    BY <1>6 DEF RequestsPage!SubmitCreate
  <2>2. PICK x \in Rows : x = [status |-> "pending", reason |-> None]
    OBVIOUS
  <2>3. /\ rows[r].status = "absent" /\ r # rejecting
        /\ rows' = [rows EXCEPT ![r] = x] /\ x.status = "pending" /\ x.reason = None
    <3>1. rows[r].status = "absent"
      BY <2>1 DEF RequestsPage!Absent
    <3>2. r # rejecting
      BY <1>1, <3>1, ScreensAssumption DEF RequestsPage!RequestsAssumption
    <3>3. rows' = [rows EXCEPT ![r] = x] /\ x.status = "pending" /\ x.reason = None
      BY <2>1, <2>2 DEF RequestsPage!Pending
    <3> QED  BY <3>1, <3>2, <3>3
  <2>4. create' \in [open : BOOLEAN, good : BOOLEAN]
    BY <2>1 DEF RequestsPage!Blank
  <2> QED  BY <1>1, <1>4, <2>1, <2>3, <2>4
<1>7. CASE RequestsPage!ConfirmReject
  <2>1. /\ rejecting # None /\ reason # None
        /\ rows' = [rows EXCEPT ![rejecting] = [status |-> "rejected", reason |-> reason]]
        /\ rejecting' = None /\ reason' = None /\ UNCHANGED <<status, create>>
    BY <1>7 DEF RequestsPage!ConfirmReject
  <2>2. PICK x \in Rows : x = [status |-> "rejected", reason |-> reason]
    BY <1>1
  <2>3. PICK r \in Requests : r = rejecting
    BY <1>1, <2>1
  <2>4. /\ rows[r].status = "pending" /\ rows' = [rows EXCEPT ![r] = x]
        /\ x.status = "rejected" /\ x.reason # None
    BY <1>1, <2>1, <2>2, <2>3
  <2> QED  BY <1>1, <1>4, <2>1, <2>3, <2>4
<1>8. ASSUME NEW s \in RequestsPage!Statuses \cup {"all"}, RequestsPage!SetStatus(s)
      PROVE  RequestsInv' /\ Kept
  BY <1>1, <1>2, <1>8 DEF RequestsPage!SetStatus
<1>9. CASE RequestsPage!OpenCreate \/ RequestsPage!CancelCreate
           \/ \E good \in BOOLEAN : RequestsPage!TypeCreate(good)
  <2>1. create' \in [open : BOOLEAN, good : BOOLEAN]
    BY <1>1, <1>9
    DEF RequestsPage!OpenCreate, RequestsPage!CancelCreate, RequestsPage!TypeCreate
  <2> QED
    BY <1>1, <1>2, <1>9, <2>1
    DEF RequestsPage!OpenCreate, RequestsPage!CancelCreate, RequestsPage!TypeCreate
<1>10. CASE RequestsPage!TypeReason \/ RequestsPage!CancelReject
  BY <1>1, <1>2, <1>10 DEF RequestsPage!TypeReason, RequestsPage!CancelReject
<1> QED
  BY <1>3, <1>5, <1>6, <1>7, <1>8, <1>9, <1>10 DEF RequestsPage!Next
-----------------------------------------------------------------------------
LEMMA PayoutsInit ==
    ASSUME Payroll!Init
    PROVE  PayoutsInv
<1>1. /\ payouts \in [Payouts -> Payroll!Statuses] /\ period = "all" /\ running = FALSE
      /\ timers = <<>>
  BY ScreensAssumption DEF Payroll!Init, Payroll!PayoutsAssumption
<1>2. timers \in Seq(Payouts \cup {Batch}) /\ DOMAIN timers = {}
  BY <1>1
<1> QED
  BY <1>1, <1>2 DEF PayoutsInv, Payroll!TypeOK, Payroll!OneTimerEach, Payroll!IsSet

LEMMA PayoutsRemount ==
    ASSUME Payroll!Remount
    PROVE  PayoutsInv'
<1>1. /\ payouts' \in [Payouts -> Payroll!Statuses] /\ period' = "all" /\ running' = FALSE
      /\ timers' = <<>>
  BY ScreensAssumption DEF Payroll!Remount, Payroll!PayoutsAssumption
<1>2. timers' \in Seq(Payouts \cup {Batch}) /\ DOMAIN timers' = {}
  BY <1>1
<1> QED
  BY <1>1, <1>2 DEF PayoutsInv, Payroll!TypeOK, Payroll!OneTimerEach, Payroll!IsSet

Forwards == \A p \in Payouts : Payroll!Forward(payouts[p], payouts'[p])

\* A timer more at the end, or the first one less: which are set, and once each.
LEMMA SetsTimer ==
    ASSUME NEW S, NEW q \in Seq(S), NEW t \in S, NEW r, r = Append(q, t),
           \A i \in DOMAIN q : q[i] # t,
           \A i, j \in DOMAIN q : q[i] = q[j] => i = j
    PROVE  /\ r \in Seq(S)
           /\ \A u : (\E i \in DOMAIN r : r[i] = u) <=> u = t \/ \E i \in DOMAIN q : q[i] = u
           /\ \A i, j \in DOMAIN r : r[i] = r[j] => i = j
<1>1. /\ r \in Seq(S) /\ Len(q) \in Nat /\ DOMAIN q = 1 .. Len(q)
      /\ DOMAIN r = 1 .. (Len(q) + 1)
      /\ \A i \in 1 .. Len(q) : r[i] = q[i]
      /\ r[Len(q) + 1] = t
  OBVIOUS
<1>2. \A i \in DOMAIN r : i \in DOMAIN q \/ i = Len(q) + 1
  BY <1>1
<1>3. \A i \in DOMAIN q : i \in DOMAIN r /\ r[i] = q[i]
  BY <1>1
<1>4. Len(q) + 1 \in DOMAIN r /\ Len(q) + 1 \notin DOMAIN q
  BY <1>1
<1> QED  BY <1>1, <1>2, <1>3, <1>4

LEMMA EndsTimer ==
    ASSUME NEW S, NEW q \in Seq(S), q # <<>>,
           \A i, j \in DOMAIN q : q[i] = q[j] => i = j
    PROVE  LET r == Tail(q) IN
             /\ r \in Seq(S) /\ Head(q) \in S
             /\ \A u : (\E i \in DOMAIN r : r[i] = u)
                         <=> u # Head(q) /\ \E i \in DOMAIN q : q[i] = u
             /\ \A i, j \in DOMAIN r : r[i] = r[j] => i = j
             /\ \E i \in DOMAIN q : q[i] = Head(q)
<1> DEFINE r == Tail(q)
<1>1. /\ r \in Seq(S) /\ Len(q) \in Nat \ {0} /\ DOMAIN q = 1 .. Len(q)
      /\ Len(r) = Len(q) - 1 /\ DOMAIN r = 1 .. (Len(q) - 1)
      /\ \A i \in 1 .. (Len(q) - 1) : r[i] = q[i + 1]
      /\ Head(q) = q[1] /\ q[1] \in S
  <2>1. Len(q) \in Nat \ {0} /\ DOMAIN q = 1 .. Len(q) /\ q[1] \in S
    BY EmptySeq
  <2> QED  BY <2>1, HeadTailProperties
<1> HIDE DEF r
<1>2. ASSUME NEW i \in DOMAIN r PROVE i + 1 \in DOMAIN q /\ r[i] = q[i + 1] /\ i + 1 # 1
  BY <1>1
<1>3. ASSUME NEW i \in DOMAIN q PROVE i = 1 \/ (i - 1 \in DOMAIN r /\ r[i - 1] = q[i])
  BY <1>1
<1>4. 1 \in DOMAIN q
  BY <1>1
<1>5. \A i \in DOMAIN r : r[i] # q[1]
  BY <1>2, <1>4
<1>6. \A u : u # q[1] /\ (\E i \in DOMAIN q : q[i] = u) => \E i \in DOMAIN r : r[i] = u
  BY <1>3
<1>7. \A u : (\E i \in DOMAIN r : r[i] = u) => u # q[1] /\ \E i \in DOMAIN q : q[i] = u
  BY <1>2, <1>5
<1>8. \A i, j \in DOMAIN r : r[i] = r[j] => i = j
  <2> SUFFICES ASSUME NEW i \in DOMAIN r, NEW j \in DOMAIN r, r[i] = r[j] PROVE i = j
    OBVIOUS
  <2>1. i + 1 = j + 1
    BY <1>2
  <2> QED  BY <1>1, <2>1
<1> QED  BY <1>1, <1>4, <1>6, <1>7, <1>8 DEF r

LEMMA PayoutsNext ==
    ASSUME PayoutsInv, Payroll!Next
    PROVE  PayoutsInv' /\ Forwards
<1> USE DEF Payroll!Statuses, Payroll!NeedAttention, Payroll!IsSet
<1>1. /\ payouts \in [Payouts -> {"processing", "completed", "failed", "insufficient_funds"}]
      /\ period \in Periods \cup {"all"} /\ running \in BOOLEAN
      /\ timers \in Seq(Payouts \cup {Batch})
      /\ running <=> Payroll!IsSet(Batch)
      /\ \A i, j \in DOMAIN timers : timers[i] = timers[j] => i = j
      /\ \A p \in Payouts : Payroll!IsSet(p) => payouts[p] \in {"processing", "completed"}
  BY DEF PayoutsInv, Payroll!TypeOK, Payroll!OneTimerEach
<1>2. Batch \notin Payouts
  BY ScreensAssumption DEF Payroll!PayoutsAssumption
<1>3. ASSUME NEW p \in Periods \cup {"all"}, Payroll!SetPeriod(p)
      PROVE  PayoutsInv' /\ Forwards
  BY <1>1, <1>3
  DEF Payroll!SetPeriod, PayoutsInv, Payroll!TypeOK, Payroll!OneTimerEach, Forwards,
      Payroll!Forward
<1>4. CASE Payroll!RunBatch
  <2>1. /\ ~running /\ running' = TRUE /\ timers' = Append(timers, Batch)
        /\ UNCHANGED <<payouts, period>>
    BY <1>4 DEF Payroll!RunBatch
  <2>2. /\ timers' \in Seq(Payouts \cup {Batch})
        /\ \A u : Payroll!IsSet(u)' <=> u = Batch \/ Payroll!IsSet(u)
        /\ \A i, j \in DOMAIN timers' : timers'[i] = timers'[j] => i = j
    BY <1>1, <2>1, SetsTimer
  <2> QED
    BY <1>1, <1>2, <2>1, <2>2
    DEF PayoutsInv, Payroll!TypeOK, Payroll!OneTimerEach, Forwards, Payroll!Forward
<1>5. ASSUME NEW p \in Payouts, Payroll!Retry(p) PROVE PayoutsInv' /\ Forwards
  <2>1. /\ payouts[p] \in {"failed", "insufficient_funds"}
        /\ payouts' = [payouts EXCEPT ![p] = "processing"]
        /\ timers' = Append(timers, p) /\ UNCHANGED <<period, running>>
    BY <1>5 DEF Payroll!Retry
  <2>2. /\ timers' \in Seq(Payouts \cup {Batch})
        /\ \A u : Payroll!IsSet(u)' <=> u = p \/ Payroll!IsSet(u)
        /\ \A i, j \in DOMAIN timers' : timers'[i] = timers'[j] => i = j
    BY <1>1, <2>1, SetsTimer
  <2>3. /\ payouts' \in [Payouts -> {"processing", "completed", "failed", "insufficient_funds"}]
        /\ payouts'[p] = "processing" /\ \A q \in Payouts \ {p} : payouts'[q] = payouts[q]
    BY <1>1, <2>1
  <2>4. PayoutsInv'
    BY <1>1, <1>2, <2>1, <2>2, <2>3 DEF PayoutsInv, Payroll!TypeOK, Payroll!OneTimerEach
  <2>5. Forwards
    BY <2>1, <2>3 DEF Forwards, Payroll!Forward
  <2> QED  BY <2>4, <2>5
<1>6. ASSUME timers # <<>>, timers' = Tail(timers)
      PROVE  /\ timers' \in Seq(Payouts \cup {Batch})
             /\ \A u : Payroll!IsSet(u)' <=> u # Head(timers) /\ Payroll!IsSet(u)
             /\ \A i, j \in DOMAIN timers' : timers'[i] = timers'[j] => i = j
             /\ Payroll!IsSet(Head(timers))
  <2>1. PICK q \in Seq(Payouts \cup {Batch}) : q = timers /\ q # <<>>
    BY <1>1, <1>6
  <2>2. \A i, j \in DOMAIN q : q[i] = q[j] => i = j
    BY <1>1, <2>1
  <2>3. LET r == Tail(q) IN
          /\ r \in Seq(Payouts \cup {Batch})
          /\ \A u : (\E i \in DOMAIN r : r[i] = u)
                      <=> u # Head(q) /\ \E i \in DOMAIN q : q[i] = u
          /\ \A i, j \in DOMAIN r : r[i] = r[j] => i = j
          /\ \E i \in DOMAIN q : q[i] = Head(q)
    BY <2>1, <2>2, EndsTimer
  <2> QED  BY <1>6, <2>1, <2>3
<1>7. CASE Payroll!BatchEnds
  <2>1. /\ timers # <<>> /\ Head(timers) = Batch /\ timers' = Tail(timers)
        /\ payouts' = [p \in Payouts |-> IF payouts[p] = "processing" THEN "completed"
                                         ELSE payouts[p]]
        /\ running' = FALSE /\ period' = period
    BY <1>7 DEF Payroll!BatchEnds, Payroll!BatchTakes
  <2>2. \A p \in Payouts : payouts'[p] = IF payouts[p] = "processing" THEN "completed"
                                         ELSE payouts[p]
    BY <2>1
  <2>3. payouts' \in [Payouts -> {"processing", "completed", "failed", "insufficient_funds"}]
    BY <1>1, <2>1
  <2>4. PayoutsInv'
    BY <1>1, <1>2, <1>6, <2>1, <2>2, <2>3
    DEF PayoutsInv, Payroll!TypeOK, Payroll!OneTimerEach
  <2>5. Forwards
    BY <2>2 DEF Forwards, Payroll!Forward
  <2> QED  BY <2>4, <2>5
<1>8. ASSUME NEW p \in Payouts, Payroll!RetryEnds(p) PROVE PayoutsInv' /\ Forwards
  <2>1. /\ timers # <<>> /\ Head(timers) = p /\ timers' = Tail(timers)
        /\ payouts' = [payouts EXCEPT ![p] = "completed"]
        /\ UNCHANGED <<period, running>>
    BY <1>8 DEF Payroll!RetryEnds
  <2>2. payouts[p] \in {"processing", "completed"}
    BY <1>1, <1>6, <2>1
  <2>3. /\ payouts' \in [Payouts -> {"processing", "completed", "failed", "insufficient_funds"}]
        /\ payouts'[p] = "completed" /\ \A q \in Payouts \ {p} : payouts'[q] = payouts[q]
    BY <1>1, <2>1
  <2>4. PayoutsInv'
    BY <1>1, <1>2, <1>6, <2>1, <2>3 DEF PayoutsInv, Payroll!TypeOK, Payroll!OneTimerEach
  <2>5. Forwards
    BY <2>2, <2>3 DEF Forwards, Payroll!Forward
  <2> QED  BY <2>4, <2>5
<1> QED
  BY <1>3, <1>4, <1>5, <1>7, <1>8 DEF Payroll!Next, Payroll!TimerFires

\* A retry sets its timer, the batch takes every payout that is processing,
\* and the timers that do not fire move up by one.
LEMMA RunsKept ==
    ASSUME PayoutsInv, Payroll!RunsAreTimed, Payroll!Next
    PROVE  Payroll!RunsAreTimed' /\ Payroll!MovesUp
<1> USE DEF Payroll!IsSet
<1>1. /\ payouts \in [Payouts -> Payroll!Statuses]
      /\ timers \in Seq(Payouts \cup {Batch})
      /\ Len(timers) \in Nat /\ DOMAIN timers = 1 .. Len(timers)
  BY DEF PayoutsInv, Payroll!TypeOK
<1>2. running' => Payroll!IsSet(Batch)'
  BY PayoutsNext DEF PayoutsInv, Payroll!OneTimerEach
<1>3. ASSUME NEW t \in Payouts \cup {Batch}, timers' = Append(timers, t)
      PROVE  /\ Payroll!MovesUp /\ Payroll!IsSet(t)'
             /\ \A u : Payroll!IsSet(u) => Payroll!IsSet(u)'
  <2>1. /\ DOMAIN timers' = 1 .. (Len(timers) + 1) /\ timers'[Len(timers) + 1] = t
        /\ \A i \in DOMAIN timers : timers'[i] = timers[i]
    BY <1>1, <1>3
  <2>2. /\ Len(timers) + 1 \in DOMAIN timers'
        /\ \A i \in DOMAIN timers : i \in DOMAIN timers'
    BY <1>1, <2>1
  <2> QED  BY <2>1, <2>2 DEF Payroll!MovesUp
<1>4. ASSUME timers # <<>>, timers' = Tail(timers)
      PROVE  /\ Payroll!MovesUp
             /\ \A u : u # Head(timers) /\ Payroll!IsSet(u) => Payroll!IsSet(u)'
  <2>1. /\ Len(timers') = Len(timers) - 1 /\ DOMAIN timers' = 1 .. (Len(timers) - 1)
        /\ \A i \in 1 .. (Len(timers) - 1) : timers'[i] = timers[i + 1]
        /\ Head(timers) = timers[1]
    BY <1>1, <1>4, HeadTailProperties
  <2>2. ASSUME NEW i \in DOMAIN timers, i # 1
        PROVE  i - 1 \in DOMAIN timers' /\ timers'[i - 1] = timers[i]
    <3>1. i \in Nat /\ i - 1 \in 1 .. (Len(timers) - 1) /\ (i - 1) + 1 = i
      BY <1>1, <2>2
    <3> QED  BY <2>1, <3>1
  <2> QED  BY <2>1, <2>2 DEF Payroll!MovesUp
<1>5. ASSUME NEW p \in Periods \cup {"all"}, Payroll!SetPeriod(p)
      PROVE  Payroll!RunsAreTimed' /\ Payroll!MovesUp
  BY <1>5 DEF Payroll!SetPeriod, Payroll!RunsAreTimed, Payroll!MovesUp
<1>6. CASE Payroll!RunBatch
  BY <1>2, <1>3, <1>6 DEF Payroll!RunBatch, Payroll!RunsAreTimed
<1>7. ASSUME NEW p \in Payouts, Payroll!Retry(p)
      PROVE  Payroll!RunsAreTimed' /\ Payroll!MovesUp
  <2>1. \A q \in Payouts \ {p} : payouts'[q] = payouts[q]
    BY <1>1, <1>7 DEF Payroll!Retry
  <2> QED  BY <1>2, <1>3, <1>7, <2>1 DEF Payroll!Retry, Payroll!RunsAreTimed
<1>8. CASE Payroll!BatchEnds
  <2>1. \A p \in Payouts : payouts'[p] # "processing"
    BY <1>8 DEF Payroll!BatchEnds, Payroll!BatchTakes
  <2> QED  BY <1>2, <1>4, <1>8, <2>1 DEF Payroll!BatchEnds, Payroll!RunsAreTimed
<1>9. ASSUME NEW p \in Payouts, Payroll!RetryEnds(p)
      PROVE  Payroll!RunsAreTimed' /\ Payroll!MovesUp
  <2>1. payouts'[p] = "completed" /\ \A q \in Payouts \ {p} : payouts'[q] = payouts[q]
    BY <1>1, <1>9 DEF Payroll!RetryEnds
  <2> QED  BY <1>2, <1>4, <1>9, <2>1 DEF Payroll!RetryEnds, Payroll!RunsAreTimed
<1> QED
  BY <1>5, <1>6, <1>7, <1>8, <1>9 DEF Payroll!Next, Payroll!TimerFires

-----------------------------------------------------------------------------
LEMMA WalletNext ==
    ASSUME WalletInv, Wallet!Next
    PROVE  WalletInv'
<1> USE DEF Wallet!Topups
<1>1. Typed \subseteq Nat
  BY ScreensAssumption DEF Wallet!WalletPageAssumption
<1>2. CASE \/ \E o \in BOOLEAN : Wallet!SetOpen(o)
           \/ \E a \in Typed : Wallet!Type(a)
  BY <1>2 DEF WalletInv, Wallet!SetOpen, Wallet!Type
<1>3. CASE Wallet!Initiate
  <2>1. Wallet!Kobo(amount) \in Nat
    BY <1>1 DEF WalletInv, Wallet!Kobo
  <2>2. PICK t \in Wallet!Topups : t = [amount |-> Wallet!Kobo(amount), status |-> "pending"]
    BY <2>1
  <2>3. /\ topups' = <<t>> \o topups /\ asked' = asked + Wallet!Kobo(amount)
        /\ open' = FALSE /\ amount' = 0
    BY <1>3, <2>2 DEF Wallet!Initiate
  <2>4. topups' \in Seq(Wallet!Topups)
    BY <2>3 DEF WalletInv
  <2>5. asked' \in Nat
    BY <2>1, <2>3 DEF WalletInv
  <2> HIDE DEF Wallet!Topups
  <2> QED  BY <2>3, <2>4, <2>5 DEF WalletInv
<1> QED  BY <1>2, <1>3 DEF Wallet!Next

LEMMA WalletStarts ==
    /\ Wallet!Init => WalletInv
    /\ Wallet!Remount => WalletInv'
<1>1. MockTopups \in Seq(Wallet!Topups)
  BY ScreensAssumption DEF Wallet!WalletPageAssumption
<1>2. ASSUME Wallet!Init PROVE WalletInv
  BY <1>1, <1>2 DEF Wallet!Init, WalletInv
<1>3. ASSUME Wallet!Remount PROVE WalletInv'
  BY <1>1, <1>3 DEF Wallet!Remount, WalletInv
<1> QED  BY <1>2, <1>3

\* What each top-up adds to the pending total.
Pends(list) == [i \in DOMAIN list |-> IF list[i].status = "pending" THEN list[i].amount ELSE 0]

LEMMA PendingIsTotal ==
    ASSUME NEW list
    PROVE  Wallet!PendingTotal(list) = Total(Pends(list))
BY DEF Wallet!PendingTotal, Wallet!Total, Total, Pends, Wallet!FoldLeft, FoldLeft,
       Wallet!MapThenFoldSet, MapThenFoldSet, Wallet!Max, Max

LEMMA PendsAreInts ==
    ASSUME NEW list \in Seq(Wallet!Topups)
    PROVE  Pends(list) \in Seq(Int) /\ Len(Pends(list)) = Len(list)
<1>1. ASSUME NEW i \in DOMAIN list PROVE Pends(list)[i] \in Int
  <2>1. list[i] \in Wallet!Topups
    OBVIOUS
  <2> QED  BY <2>1 DEF Wallet!Topups, Pends
<1>2. DOMAIN list = 1 .. Len(list) /\ Len(list) \in Nat
  OBVIOUS
<1>3. Pends(list) \in [1 .. Len(list) -> Int]
  BY <1>1, <1>2 DEF Pends
<1> QED  BY <1>2, <1>3

\* A top-up in front of the list adds its amount, if it is pending.
LEMMA PendingOfCons ==
    ASSUME NEW list \in Seq(Wallet!Topups), NEW t \in Wallet!Topups, t.status = "pending"
    PROVE  Wallet!PendingTotal(<<t>> \o list) = t.amount + Wallet!PendingTotal(list)
<1> DEFINE n == Len(list)
           more == <<t>> \o list
<1>1. /\ n \in Nat /\ DOMAIN more = 1 .. n + 1 /\ DOMAIN list = 1 .. n
      /\ more[1] = t /\ \A i \in 1 .. n : more[i + 1] = list[i]
      /\ more \in Seq(Wallet!Topups)
  OBVIOUS
<1>2. t.amount \in Int
  BY DEF Wallet!Topups
<1> HIDE DEF more
<1> DEFINE cons == <<t.amount>> \o Pends(list)
<1>3. /\ cons \in Seq(Int) /\ Len(cons) = n + 1
      /\ cons[1] = t.amount /\ \A i \in 1 .. n : cons[i + 1] = Pends(list)[i]
  BY <1>2, PendsAreInts
<1>4. Pends(more) \in Seq(Int) /\ Len(Pends(more)) = n + 1
  BY <1>1, PendsAreInts
<1>5. ASSUME NEW i \in 1 .. n + 1 PROVE Pends(more)[i] = cons[i]
  <2> HIDE DEF cons
  <2>1. CASE i = 1
    BY <1>1, <1>3, <2>1 DEF Pends
  <2>2. CASE i # 1
    <3>1. PICK k \in 1 .. n : i = k + 1
      <4>1. i - 1 \in 1 .. n /\ i = (i - 1) + 1
        BY <1>1, <2>2
      <4> QED  BY <4>1
    <3>2. Pends(more)[k + 1] = Pends(list)[k]
      BY <1>1 DEF Pends
    <3> QED  BY <1>3, <3>1, <3>2
  <2> QED  BY <2>1, <2>2
<1>6. Pends(more) = cons
  <2> HIDE DEF cons
  <2> QED  BY <1>3, <1>4, <1>5, SeqEqual
<1>7. Total(cons) = t.amount + Total(Pends(list))
  BY <1>2, PendsAreInts, TotalCons
<1> QED  BY <1>6, <1>7, PendingIsTotal DEF more

LEMMA TopupsKept ==
    ASSUME WalletInv, NothingLost, Wallet!Next
    PROVE  NothingLost'
<1>1. CASE UNCHANGED <<topups, asked>>
  BY <1>1 DEF NothingLost, Wallet!NothingLost, Wallet!PendingTotal
<1>2. CASE Wallet!Initiate
  <2> DEFINE kobo == Wallet!Kobo(amount)
  <2>1. kobo \in Nat
    BY ScreensAssumption DEF WalletInv, Wallet!Kobo, Wallet!WalletPageAssumption
  <2>2. PICK t \in Wallet!Topups : t = [amount |-> kobo, status |-> "pending"]
    BY <2>1 DEF Wallet!Topups
  <2>3. topups' = <<t>> \o topups /\ asked' = asked + kobo /\ t.amount = kobo
    BY <1>2, <2>2 DEF Wallet!Initiate
  <2>4. Wallet!PendingTotal(topups') = kobo + Wallet!PendingTotal(topups)
    BY <2>2, <2>3, PendingOfCons DEF WalletInv
  <2>5. Wallet!PendingTotal(MockTopups) \in Int
    BY ScreensAssumption, PendingIsTotal, PendsAreInts, TotalIsInt
    DEF Wallet!WalletPageAssumption
  <2> HIDE DEF kobo
  <2>6. kobo + (Wallet!PendingTotal(MockTopups) + asked)
          = Wallet!PendingTotal(MockTopups) + (asked + kobo)
    BY <2>1, <2>5 DEF WalletInv
  <2> QED  BY <2>3, <2>4, <2>6 DEF NothingLost, Wallet!NothingLost
<1> QED
  BY <1>1, <1>2 DEF Wallet!Next, Wallet!SetOpen, Wallet!Type

LEMMA TopupsStart ==
    /\ Wallet!Init => NothingLost
    /\ Wallet!Remount => NothingLost'
<1>1. Wallet!PendingTotal(MockTopups) \in Int
  BY ScreensAssumption, PendingIsTotal, PendsAreInts, TotalIsInt
  DEF Wallet!WalletPageAssumption
<1> QED
  BY <1>1 DEF Wallet!Init, Wallet!Remount, NothingLost, Wallet!NothingLost

-----------------------------------------------------------------------------
(***************************************************************************)
(* The routes, and the pages behind them.                                  *)
(***************************************************************************)
LEMMA RoutesNext ==
    ASSUME TypeOK, Next
    PROVE  TypeOK'
<1> USE DEF TypeOK, Maybe, session, place
<1>1. /\ Protected \subseteq Paths /\ {"/login", "/404"} \subseteq Paths
      /\ "/" \in Protected /\ "/" \in Paths
  BY DEF Paths, Protected, Public, OpenRoutes
<1>2. Shown \in Paths \cup {None} /\ Links \subseteq Paths
  <2>1. \A r \in Roles : NavLinks(r) \subseteq Protected /\ DashboardLinks(r) \subseteq Protected
    BY DEF NavLinks, DashboardLinks, Protected, AdminRoutes, FinanceRoutes, OpenRoutes
  <2>2. Shown \in Protected => user \in Roles
    <3>1. {"/login", "/404"} \cap Protected = {} /\ None \notin Protected
      BY NoneAssumption DEF Paths, Protected, AdminRoutes, FinanceRoutes, OpenRoutes
    <3> QED  BY <3>1 DEF Shown, Public
  <2>3. Shown \in Paths \cup {None}
    BY DEF Shown
  <2>4. Shown \in Protected \cup {"/login", "/404", None}
    BY <2>3 DEF Shown, Paths, Public
  <2> QED  BY <1>1, <2>1, <2>2, <2>3, <2>4 DEF Links
<1>3. CASE Redirect
  <2>1. Target \in Paths /\ (Target = "/login" => path \in Protected)
    BY <1>1, <1>3 DEF Redirect, Redirecting, Target
  <2> QED  BY <1>3, <2>1 DEF Redirect
<1>4. CASE LoadUserEnds
  BY <1>4 DEF LoadUserEnds, LoadUser
<1>5. CASE Submit
  <2>1. login' = [state |-> "sent", to |-> IF from = None THEN "/" ELSE from]
    BY <1>5 DEF Submit
  <2>2. (IF from = None THEN "/" ELSE from) \in Protected
    BY <1>1
  <2> QED  BY <1>5, <2>1, <2>2 DEF Submit
<1>6. CASE LoginFails \/ Dropped \/ Logout
  BY <1>1, <1>6 DEF LoginFails, Dropped, Logout
<1>7. CASE LogoutEnds
  BY <1>1, <1>7 DEF LogoutEnds
<1>8. ASSUME NEW p \in Paths, Follow(p) \/ Load(p) \/ Back(p) PROVE TypeOK'
  BY <1>1, <1>8 DEF Follow, Load, Back
<1>9. ASSUME NEW r \in Roles, LoginSucceeds(r) PROVE TypeOK'
  <2>1. login.to \in Protected
    BY <1>9 DEF LoginSucceeds
  <2> QED  BY <1>1, <1>9, <2>1 DEF LoginSucceeds
<1> QED  BY <1>3, <1>4, <1>5, <1>6, <1>7, <1>8, <1>9 DEF Next
LEMMA RoutesInit ==
    ASSUME Init
    PROVE  TypeOK
BY DEF Init, TypeOK, Maybe

\* A page that stays keeps its state, and one that does not starts again.
LEMMA RerenderInv ==
    ASSUME AppInv, Rerender
    PROVE  /\ RequestsInv' /\ PayoutsInv' /\ WalletInv'
           /\ reviewedBy' \in [Requests -> Reviewers]
<1>1. RequestsInv' /\ reviewedBy' \in [Requests -> Reviewers]
  <2>1. CASE UNCHANGED requestsVars
    BY <2>1
    DEF AppInv, requestsVars, RequestsInv, RequestsPage!TypeOK, RequestsPage!RejectedSaysWhy
  <2>2. CASE RequestsPage!Remount /\ reviewedBy' = NoReview
    BY <2>2, RequestsRemount DEF NoReview, Reviewers
  <2> QED  BY <2>1, <2>2 DEF Rerender
<1>2. PayoutsInv'
  <2>1. CASE UNCHANGED payoutsVars
    BY <2>1
    DEF AppInv, payoutsVars, PayoutsInv, Payroll!TypeOK, Payroll!OneTimerEach, Payroll!IsSet
  <2> QED  BY <2>1, PayoutsRemount DEF Rerender
<1>3. WalletInv'
  <2>1. CASE UNCHANGED walletVars
    BY <2>1 DEF AppInv, walletVars, WalletInv
  <2> QED  BY <2>1, WalletStarts DEF Rerender
<1> QED  BY <1>1, <1>2, <1>3

\* Whoever sees the page has one of its roles.
LEMMA SeesRequests ==
    ASSUME Shown = "/payment-requests"
    PROVE  user \in {"admin", "ceo", "procurement"}
<1>1. path = "/payment-requests" /\ user # None /\ ~Barred
  BY NoneAssumption DEF Shown, Paths, Public, Protected
<1>2. RouteRoles["/payment-requests"] = {"admin", "ceo", "procurement"}
  BY DEF RouteRoles, Protected, AdminRoutes, FinanceRoutes, OpenRoutes
<1> QED  BY <1>1, <1>2 DEF Barred

LEMMA AppInvNext ==
    ASSUME AppInv, [AppNext]_appVars
    PROVE  AppInv'
<1>1. CASE UNCHANGED appVars
  BY <1>1
  DEF AppInv, appVars, routes, requestsVars, payoutsVars, walletVars, TypeOK,
      RequestsInv, RequestsPage!TypeOK, RequestsPage!RejectedSaysWhy,
      PayoutsInv, Payroll!TypeOK, Payroll!OneTimerEach, Payroll!IsSet, WalletInv
<1>2. CASE Route
  BY <1>2, RoutesNext, RerenderInv DEF Route, AppInv
<1>3. CASE OnRequests
  <2>1. UNCHANGED <<routes, payoutsVars, walletVars>>
    BY <1>3 DEF OnRequests
  <2>2. RequestsInv'
    BY <1>3, RequestsNext DEF OnRequests, AppInv
  <2>3. user \in Reviewers
    BY <1>3, SeesRequests DEF OnRequests, Reviewers
  <2>4. reviewedBy' \in [Requests -> Reviewers]
    BY <1>3, <2>3 DEF OnRequests, AppInv
  <2>5. TypeOK' /\ PayoutsInv' /\ WalletInv'
    BY <2>1
    DEF AppInv, routes, payoutsVars, walletVars, TypeOK,
        PayoutsInv, Payroll!TypeOK, Payroll!OneTimerEach, Payroll!IsSet, WalletInv
  <2> QED  BY <2>2, <2>4, <2>5 DEF AppInv
<1>4. CASE OnPayouts
  <2>1. UNCHANGED <<routes, requestsVars, walletVars>> /\ PayoutsInv'
    BY <1>4, PayoutsNext DEF OnPayouts, AppInv
  <2>2. TypeOK' /\ RequestsInv' /\ WalletInv' /\ reviewedBy' \in [Requests -> Reviewers]
    BY <2>1
    DEF AppInv, routes, requestsVars, walletVars, TypeOK,
        RequestsInv, RequestsPage!TypeOK, RequestsPage!RejectedSaysWhy, WalletInv
  <2> QED  BY <2>1, <2>2 DEF AppInv
<1>5. CASE OnWallet
  <2>1. UNCHANGED <<routes, requestsVars, payoutsVars>> /\ WalletInv'
    BY <1>5, WalletNext DEF OnWallet, AppInv
  <2>2. TypeOK' /\ RequestsInv' /\ PayoutsInv' /\ reviewedBy' \in [Requests -> Reviewers]
    BY <2>1
    DEF AppInv, routes, requestsVars, payoutsVars, TypeOK,
        RequestsInv, RequestsPage!TypeOK, RequestsPage!RejectedSaysWhy,
        PayoutsInv, Payroll!TypeOK, Payroll!OneTimerEach, Payroll!IsSet
  <2> QED  BY <2>1, <2>2 DEF AppInv
<1> QED  BY <1>1, <1>2, <1>3, <1>4, <1>5 DEF AppNext

(***************************************************************************)
(* The invariant of the routes and of the pages behind them.               *)
(***************************************************************************)
THEOREM AppInvariance == AppSpec => []AppInv
<1>1. AppInit => AppInv
  BY RoutesInit, RequestsInit, PayoutsInit, WalletStarts
  DEF AppInit, AppInv, NoReview, Reviewers
<1>2. AppInv /\ [AppNext]_appVars => AppInv'
  BY AppInvNext
<1> QED  BY <1>1, <1>2, PTL DEF AppSpec

(***************************************************************************)
(* Every variable of the screens stays in its set.                         *)
(***************************************************************************)
THEOREM AppTypeCorrect == AppSpec => []AppTypeOK
<1>1. AppInv => AppTypeOK
  <2>1. Reviewers \subseteq Maybe(Roles)
    BY DEF Reviewers, Maybe, Roles
  <2> QED
    BY <2>1 DEF AppInv, AppTypeOK, RequestsInv, PayoutsInv, WalletInv
<1> QED  BY <1>1, AppInvariance, PTL

(***************************************************************************)
(* A request is reviewed by somebody whom the route admits, whoever signs  *)
(* in or out under the page, and the dialogs go with the page.             *)
(***************************************************************************)
THEOREM AccessEndsReviews == AppSpec => []ReviewEndsWithAccess
<1> DEFINE Dialogs == RequestsPage!Modal => Shown = "/payment-requests"
<1>1. AppInit => Dialogs
  BY DEF AppInit, RequestsPage!Init, RequestsPage!Blank, RequestsPage!Modal
<1>2. ASSUME Dialogs, [AppNext]_appVars PROVE Dialogs'
  <2>1. CASE UNCHANGED <<routes, requestsVars>>
    BY <1>2, <2>1 DEF routes, requestsVars, RequestsPage!Modal, Shown, Barred
  <2>2. CASE Rerender
    <3>1. CASE UNCHANGED requestsVars /\ Stays("/payment-requests")
      BY <3>1 DEF Stays
    <3>2. CASE RequestsPage!Remount
      BY <3>2 DEF RequestsPage!Remount, RequestsPage!Blank, RequestsPage!Modal
    <3> QED  BY <2>2, <3>1, <3>2 DEF Rerender
  <2>3. CASE OnRequests
    BY <2>3 DEF OnRequests, routes, Shown, Barred
  <2> QED
    BY <1>2, <2>1, <2>2, <2>3
    DEF AppNext, Route, OnPayouts, OnWallet, appVars
<1>3. AppInv /\ Dialogs => ReviewEndsWithAccess
  <2>1. Reviewers = Maybe(RouteRoles["/payment-requests"])
    BY DEF Reviewers, Maybe, RouteRoles, Protected, AdminRoutes, FinanceRoutes, OpenRoutes
  <2> QED  BY <2>1 DEF AppInv, ReviewEndsWithAccess
<1> QED  BY <1>1, <1>2, <1>3, AppInvariance, PTL DEF AppSpec

(***************************************************************************)
(* A rejection has a reason, also after a dialog was cancelled.            *)
(***************************************************************************)
THEOREM RejectionsAreExplained == AppSpec => []RejectedSaysWhy
<1>1. AppInv => RejectedSaysWhy
  BY DEF AppInv, RequestsInv, RejectedSaysWhy
<1> QED  BY <1>1, AppInvariance, PTL

(***************************************************************************)
(* One timer for the batch while its button is disabled, and one for every *)
(* payout that is retried.                                                 *)
(***************************************************************************)
THEOREM TimersAreSingle == AppSpec => []OneTimerEach
<1>1. AppInv => OneTimerEach
  BY DEF AppInv, PayoutsInv, OneTimerEach
<1> QED  BY <1>1, AppInvariance, PTL

(***************************************************************************)
(* No link sends its user away.                                            *)
(***************************************************************************)
THEOREM LinksAreOpen == AppSpec => []LinksLand
<1>1. ASSUME AppInv PROVE LinksLand
  <2> SUFFICES ASSUME Shown \in Protected, NEW p \in Links PROVE user \in RouteRoles[p]
    BY DEF LinksLand
  <2>1. Shown # None /\ Shown \notin Public
    BY NoneAssumption DEF Paths, Public, Protected, AdminRoutes, FinanceRoutes, OpenRoutes
  <2>2. user \in Roles
    BY <1>1, <2>1 DEF AppInv, TypeOK, Maybe, Shown
  <2>3. p \in NavLinks(user) \cup DashboardLinks(user)
    BY <2>1 DEF Links, Public
  <2>4. ASSUME NEW r \in Roles, NEW q \in NavLinks(r) \cup DashboardLinks(r)
        PROVE  r \in RouteRoles[q]
    BY <2>4
    DEF Roles, NavLinks, DashboardLinks, RouteRoles, Protected, AdminRoutes, FinanceRoutes,
        OpenRoutes
  <2> QED  BY <2>2, <2>3, <2>4
<1> QED  BY <1>1, AppInvariance, PTL

(***************************************************************************)
(* No click, timer, navigation or change of the user takes a review back   *)
(* while the page is shown.                                                *)
(***************************************************************************)
THEOREM ReviewsStand == AppSpec => ReviewIsFinal
<1> DEFINE Stands == Stays("/payment-requests") /\ loading' = loading => Kept
<1>1. ASSUME AppInv, [AppNext]_appVars PROVE Stands
  <2>1. CASE Route
    BY <2>1 DEF Route, Rerender, requestsVars, Kept
  <2>2. CASE OnRequests
    BY <1>1, <2>2, RequestsNext DEF OnRequests, AppInv
  <2>3. CASE OnPayouts \/ OnWallet \/ UNCHANGED appVars
    BY <2>3 DEF OnPayouts, OnWallet, appVars, requestsVars, Kept
  <2> QED  BY <1>1, <2>1, <2>2, <2>3 DEF AppNext
<1>2. AppInv /\ [AppNext]_appVars => [Stands]_appVars
  BY <1>1
<1> QED  BY <1>2, AppInvariance, PTL DEF AppSpec, ReviewIsFinal, Kept

(***************************************************************************)
(* While the page is shown, no payout is taken back, and none is completed *)
(* that failed and was not retried.                                        *)
(***************************************************************************)
THEOREM PayoutsAdvance == AppSpec => PayoutsMoveForward
<1> DEFINE Advances == Stays("/payouts") /\ loading' = loading => Forwards
<1>1. ASSUME AppInv, [AppNext]_appVars PROVE Advances
  <2>1. CASE UNCHANGED payouts
    BY <2>1 DEF Forwards, Payroll!Forward
  <2>2. CASE Route
    BY <2>1, <2>2 DEF Route, Rerender, payoutsVars
  <2>3. CASE OnPayouts
    BY <1>1, <2>3, PayoutsNext DEF OnPayouts, AppInv
  <2>4. CASE OnRequests \/ OnWallet \/ UNCHANGED appVars
    BY <2>1, <2>4 DEF OnRequests, OnWallet, appVars, payoutsVars
  <2> QED  BY <1>1, <2>2, <2>3, <2>4 DEF AppNext
<1>2. AppInv /\ [AppNext]_appVars => [Advances]_appVars
  BY <1>1
<1> QED  BY <1>2, AppInvariance, PTL DEF AppSpec, PayoutsMoveForward, Forwards

(***************************************************************************)
(* "Pending top-ups" is the total of the pending ones, and holds every     *)
(* kobo that was asked for since the page was mounted, of any number of    *)
(* top-ups: each is put in front of the list that the one before has left. *)
(***************************************************************************)
THEOREM NoTopupIsLost == AppSpec => []NothingLost
<1>1. AppInit => NothingLost
  BY TopupsStart DEF AppInit
<1>2. ASSUME AppInv, NothingLost, [AppNext]_appVars PROVE NothingLost'
  <2>1. CASE UNCHANGED walletVars
    BY <1>2, <2>1 DEF walletVars, NothingLost, Wallet!NothingLost, Wallet!PendingTotal
  <2>2. CASE Route
    BY <2>1, <2>2, TopupsStart DEF Route, Rerender
  <2>3. CASE OnWallet
    BY <1>2, <2>3, TopupsKept DEF OnWallet, AppInv
  <2> QED
    BY <1>2, <2>1, <2>2, <2>3 DEF AppNext, OnRequests, OnPayouts, appVars, walletVars
<1> QED  BY <1>1, <1>2, AppInvariance, PTL DEF AppSpec

(***************************************************************************)
(* Every batch and every retry that has begun has a timer to end it.  With *)
(* the next theorem, this is what EveryRunEnds needs of the code, beside   *)
(* timers that fire.                                                       *)
(***************************************************************************)
THEOREM RunsHaveTimers == AppSpec => []RunsAreTimed
<1>1. AppInit => RunsAreTimed
  BY DEF AppInit, Payroll!Init, RunsAreTimed, Payroll!RunsAreTimed
<1>2. ASSUME AppInv, RunsAreTimed, [AppNext]_appVars PROVE RunsAreTimed'
  <2>1. CASE UNCHANGED payoutsVars
    BY <1>2, <2>1
    DEF payoutsVars, RunsAreTimed, Payroll!RunsAreTimed, Payroll!IsSet
  <2>2. CASE Route
    BY <2>1, <2>2
    DEF Route, Rerender, Payroll!Remount, RunsAreTimed, Payroll!RunsAreTimed
  <2>3. CASE OnPayouts
    BY <1>2, <2>3, RunsKept DEF OnPayouts, AppInv, RunsAreTimed
  <2> QED
    BY <1>2, <2>1, <2>2, <2>3 DEF AppNext, OnRequests, OnWallet, appVars
<1> QED  BY <1>1, <1>2, AppInvariance, PTL DEF AppSpec

(***************************************************************************)
(* No timer of the page is dropped or overtaken while the page is shown.   *)
(***************************************************************************)
THEOREM TimersComeUp == AppSpec => TimersMoveUp
<1> DEFINE Moves == Stays("/payouts") /\ loading' = loading => Payroll!MovesUp
<1>1. ASSUME AppInv, RunsAreTimed, [AppNext]_appVars PROVE Moves
  <2>1. CASE UNCHANGED timers
    BY <2>1 DEF Payroll!MovesUp
  <2>2. CASE Route
    BY <2>1, <2>2 DEF Route, Rerender, payoutsVars
  <2>3. CASE OnPayouts
    BY <1>1, <2>3, RunsKept DEF OnPayouts, AppInv, RunsAreTimed
  <2>4. CASE OnRequests \/ OnWallet \/ UNCHANGED appVars
    BY <2>1, <2>4 DEF OnRequests, OnWallet, appVars, payoutsVars
  <2> QED  BY <1>1, <2>2, <2>3, <2>4 DEF AppNext
<1>2. AppInv /\ RunsAreTimed /\ [AppNext]_appVars => [Moves]_appVars
  BY <1>1
<1> QED  BY <1>2, AppInvariance, RunsHaveTimers, PTL DEF AppSpec, TimersMoveUp

(***************************************************************************)
(* The screens move between pages as Routing says, and in no other way:    *)
(* what the pages do is a stutter of the routes.                           *)
(***************************************************************************)
THEOREM RoutesAreKept == AppSpec => Spec
<1>1. AppInit => Init
  BY DEF AppInit
<1>2. [AppNext]_appVars => [Next]_vars
  BY DEF AppNext, Route, OnRequests, OnPayouts, OnWallet, appVars, routes, vars
<1> QED  BY <1>1, <1>2, PTL DEF AppSpec, Spec

(***************************************************************************)
(* Types of the routes alone.                                              *)
(***************************************************************************)
THEOREM RoutesTyped == Spec => []TypeOK
<1>1. TypeOK /\ [Next]_vars => TypeOK'
  <2>1. TypeOK /\ UNCHANGED vars => TypeOK'
    BY DEF TypeOK, vars
  <2> QED  BY <2>1, RoutesNext
<1> QED  BY <1>1, RoutesInit, PTL DEF Spec

(***************************************************************************)
(* Whoever is shown no page waits for loadUser or is sent to a page by one *)
(* redirect, whatever role the user has: SomePageIsShown then needs only   *)
(* that loadUser ends and that redirects are rendered.                     *)
(***************************************************************************)
THEOREM RedirectsEnd == AppSpec => []SomewhereToGo /\ RedirectsLand
<1>1. TypeOK => SomewhereToGo
  BY NoneAssumption DEF TypeOK, SomewhereToGo, Shown, Redirecting, Paths
<1>2. ASSUME TypeOK, Redirect PROVE Shown' = Target
  <2>1. /\ path' = Target /\ user' = user /\ loading' = loading
        /\ Redirecting
    BY <1>2 DEF Redirect, session
  <2>2. CASE Target \in {"/404", "/login"}
    BY <2>1, <2>2 DEF Shown, Public
  <2>3. CASE Target = "/"
    <3>1. path # "*" /\ path \in Protected /\ ~loading /\ user # None /\ user \in Roles
      BY <1>2, <2>1, <2>3 DEF Redirecting, Target, TypeOK, Maybe
    <3>2. RouteRoles["/"] = Roles /\ "/" \notin Public
      BY DEF RouteRoles, Public, Protected, AdminRoutes, FinanceRoutes, OpenRoutes
    <3> QED  BY <2>1, <2>3, <3>1, <3>2 DEF Shown, Barred
  <2> QED  BY <2>2, <2>3 DEF Target
<1>3. TypeOK /\ [Next]_vars => [Redirect => Shown' = Target]_vars
  BY <1>2
<1> QED  BY <1>1, <1>3, RoutesAreKept, RoutesTyped, PTL DEF Spec, RedirectsLand

=============================================================================
