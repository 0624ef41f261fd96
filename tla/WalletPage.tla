------------------------------- MODULE WalletPage -------------------------------
(***************************************************************************)
(* The wallet of wallet.tsx, from the moment the page is mounted: a list   *)
(* of top-ups, and the dialog that adds a pending one.  Typed amounts are  *)
(* in tenths of a kobo, 0 stands for no number; stored ones are in kobo.   *)
(***************************************************************************)
EXTENDS Totals

CONSTANTS
    Typed,          \* the amounts that are typed
    MockTopups,     \* mock-data.ts: the top-ups that are there
    MaxTopups       \* how many a mount of the page adds (a bound)

Topups == [amount : Nat, status : {"pending", "success", "failed"}]

\* What the constants have to be.
WalletPageAssumption ==
    /\ Typed \subseteq Nat
    /\ MockTopups \in Seq(Topups)
    /\ MaxTopups \in Nat

VARIABLES
    topups,     \* the rows, newest first
    open,       \* the dialog
    amount,     \* its text
    asked       \* history: the kobo that this mount has asked for

vars == <<topups, open, amount, asked>>

Init == topups = MockTopups /\ open = FALSE /\ amount = 0 /\ asked = 0

Remount == topups' = MockTopups /\ open' = FALSE /\ amount' = 0 /\ asked' = 0

\* Math.round(naira * 100)
Kobo(typed) == (typed + 5) \div 10

SetOpen(o) ==
    /\ open' = o
    /\ UNCHANGED <<topups, amount, asked>>

Type(a) ==
    /\ open
    /\ amount' = a
    /\ UNCHANGED <<topups, open, asked>>

InitiateFromMock ==             \* mutant: the rows of the first render are taken
    /\ open /\ amount > 0
    /\ Len(topups) < Len(MockTopups) + MaxTopups
    /\ topups' = <<[amount |-> Kobo(amount), status |-> "pending"]>> \o MockTopups
    /\ asked' = asked + Kobo(amount)
    /\ open' = FALSE /\ amount' = 0

Initiate ==
    /\ open /\ amount > 0
    /\ Len(topups) < Len(MockTopups) + MaxTopups
    /\ topups' = <<[amount |-> Kobo(amount), status |-> "pending"]>> \o topups
    /\ asked' = asked + Kobo(amount)
    /\ open' = FALSE /\ amount' = 0

Next ==
    \/ \E o \in BOOLEAN : SetOpen(o)
    \/ \E a \in Typed : Type(a)
    \/ Initiate

Spec == Init /\ [][Next]_vars

-----------------------------------------------------------------------------
PendingTotal(rows) ==
    Total([i \in DOMAIN rows |-> IF rows[i].status = "pending"
                                    THEN rows[i].amount
                                    ELSE 0])

(***************************************************************************)
(* "Pending top-ups" is what was pending at first and every kobo that has  *)
(* been asked for since: no top-up gets lost behind a later one.           *)
(***************************************************************************)
NothingLost == PendingTotal(topups) = PendingTotal(MockTopups) + asked

=============================================================================
