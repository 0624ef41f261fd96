-------------------------------- MODULE Totals --------------------------------
(***************************************************************************)
(* A sequence of amounts added up from the first to the last, as in        *)
(* wallet.tsx: amounts.reduce((sum, amount) => sum + amount, 0).           *)
(***************************************************************************)
EXTENDS Integers, Sequences, SequencesExt

Total(amounts) == FoldLeft(+, 0, amounts)

=============================================================================
