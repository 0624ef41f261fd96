-------------------------------- MODULE MCLists --------------------------------
(***************************************************************************)
(* Lists for TLC: both selects of the users page give "all" or the role    *)
(* that the employee form asks for; the codes have one key.                *)
(***************************************************************************)
EXTENDS Lists, TLC

CONSTANTS U, UE, C, m1

MCUserFilters == {U, UE}
MCCodeFilters == {C}
MCMutations == {m1}

\* The codes are loaded by the same code: their table does not change here.
MCMaxRevision == "users" :> 2 @@ "salary-codes" :> 0

=============================================================================
