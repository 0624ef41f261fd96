------------------------------- MODULE MCScreens -------------------------------
(***************************************************************************)
(* An instance of Screens for TLC: of mock-data.ts one row of each kind    *)
(* that the pages treat alike, and one new request.                        *)
(***************************************************************************)
EXTENDS Screens, TLC

CONSTANTS pr1, pr4, new, po3, po4, po5, june, july

Rows == {pr1, pr4, new}
Sheet == {po3, po4, po5}

StatusOf == po3 :> "processing" @@ po4 :> "failed" @@ po5 :> "insufficient_funds"
Months == po3 :> june @@ po4 :> july @@ po5 :> july

Listed == << [amount |-> 3, status |-> "pending"], [amount |-> 2, status |-> "success"] >>

=============================================================================
