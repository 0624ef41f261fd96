---------------------------- MODULE MCUserLookup ----------------------------
(***************************************************************************)
(* Instances of UserLookup for TLC.                                        *)
(***************************************************************************)
EXTENDS UserLookup, TLC

Symmetry == Permutations(Requests) \cup Permutations(Live)

=============================================================================
