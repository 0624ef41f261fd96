------------------------------ MODULE MCEmployees ------------------------------
(***************************************************************************)
(* An instance of Employees for TLC.                                       *)
(***************************************************************************)
EXTENDS Employees, TLC

MCSymmetry == Permutations(Slots) \cup Permutations(EmpIds)
                 \cup Permutations(CodeIds) \cup Permutations(Names)

=============================================================================
