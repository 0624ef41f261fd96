------------------------------ MODULE PayoutsPage ------------------------------
(***************************************************************************)
(* The payouts of payouts.tsx, from the moment the page is mounted: a run  *)
(* of the batch and the retries of single payouts end in timers of one     *)
(* delay, which fire in the order they were set.                           *)
(***************************************************************************)
EXTENDS Naturals, Sequences

CONSTANTS
    Payouts,    \* the rows of mock-data.ts
    Periods,    \* the pay periods of the rows
    MockStatus, \* mock-data.ts: the status of a row
    PeriodOf,   \* mock-data.ts: its period
    Batch       \* the timer of the batch, among those of the rows

Statuses == {"processing", "completed", "failed", "insufficient_funds"}
NeedAttention == {"failed", "insufficient_funds"}

\* What the constants have to be.
PayoutsAssumption ==
    /\ Batch \notin Payouts
    /\ MockStatus \in [Payouts -> Statuses]
    /\ PeriodOf \in [Payouts -> Periods]

VARIABLES
    payouts,    \* the status of every row
    period,     \* the filter
    running,    \* the button is disabled
    timers      \* the timers that are set, first to fire first

vars == <<payouts, period, running, timers>>

Init ==
    /\ payouts = MockStatus
    /\ period = "all"
    /\ running = FALSE
    /\ timers = <<>>

Remount ==
    /\ payouts' = MockStatus
    /\ period' = "all"
    /\ running' = FALSE
    /\ timers' = <<>>

SetPeriod(p) ==
    /\ period' = p
    /\ UNCHANGED <<payouts, running, timers>>

RunBatch ==
    /\ ~running
    /\ running' = TRUE
    /\ timers' = Append(timers, Batch)
    /\ UNCHANGED <<payouts, period>>

RetryLost(p) ==                 \* mutant: the timer is not set
    /\ payouts[p] \in NeedAttention
    /\ period \in {"all", PeriodOf[p]}
    /\ payouts' = [payouts EXCEPT ![p] = "processing"]
    /\ UNCHANGED <<period, running, timers>>

Retry(p) ==
    /\ payouts[p] \in NeedAttention
    /\ period \in {"all", PeriodOf[p]}
    /\ payouts' = [payouts EXCEPT ![p] = "processing"]
    /\ timers' = Append(timers, p)
    /\ UNCHANGED <<period, running>>

BatchTakesAll(st) == "completed"    \* mutant: failed payouts are completed unpaid

BatchTakes(st) == IF st = "processing" THEN "completed" ELSE st

BatchEndsRunning ==             \* mutant: the button is left disabled
    /\ timers # <<>> /\ Head(timers) = Batch
    /\ payouts' = [p \in Payouts |-> BatchTakes(payouts[p])]
    /\ timers' = Tail(timers)
    /\ UNCHANGED <<period, running>>

BatchEnds ==
    /\ timers # <<>> /\ Head(timers) = Batch
    /\ payouts' = [p \in Payouts |-> BatchTakes(payouts[p])]
    /\ running' = FALSE
    /\ timers' = Tail(timers)
    /\ UNCHANGED period

RetryEnds(p) ==
    /\ timers # <<>> /\ Head(timers) = p
    /\ payouts' = [payouts EXCEPT ![p] = "completed"]
    /\ timers' = Tail(timers)
    /\ UNCHANGED <<period, running>>

TimerFires == BatchEnds \/ \E p \in Payouts : RetryEnds(p)

Next ==
    \/ RunBatch \/ TimerFires
    \/ \E p \in Payouts : Retry(p)
    \/ \E p \in Periods \cup {"all"} : SetPeriod(p)

Spec == Init /\ [][Next]_vars

-----------------------------------------------------------------------------
(***************************************************************************)
(* Every variable stays in its set.                                        *)
(***************************************************************************)
TypeOK ==
    /\ payouts \in [Payouts -> Statuses]
    /\ period \in Periods \cup {"all"}
    /\ running \in BOOLEAN
    /\ timers \in Seq(Payouts \cup {Batch})

(***************************************************************************)
(* The button is disabled exactly while the batch runs, one batch at a     *)
(* time, and no row has two retries under way.                             *)
(***************************************************************************)
IsSet(t) == \E i \in DOMAIN timers : timers[i] = t

OneTimerEach ==
    /\ running <=> IsSet(Batch)
    /\ \A i, j \in DOMAIN timers : timers[i] = timers[j] => i = j

(***************************************************************************)
(* Whatever has begun has a timer to end it, and every timer moves up in   *)
(* the queue as the ones before it fire.                                   *)
(***************************************************************************)
RunsAreTimed ==
    /\ running => IsSet(Batch)
    /\ \A p \in Payouts :
         payouts[p] = "processing" /\ MockStatus[p] # "processing" => IsSet(p)

MovesUp ==
    \/ \A i \in DOMAIN timers : i \in DOMAIN timers' /\ timers'[i] = timers[i]
    \/ \A i \in DOMAIN timers \ {1} :
         i - 1 \in DOMAIN timers' /\ timers'[i - 1] = timers[i]

(***************************************************************************)
(* A payout goes from a failure over its own retry to completion: the      *)
(* batch does not complete what has failed, and nothing is taken back.     *)
(***************************************************************************)
Forward(s, t) ==
    \/ s = t
    \/ s \in NeedAttention /\ t = "processing"
    \/ s = "processing" /\ t = "completed"

=============================================================================
