----------------------------- MODULE MCRunLock -----------------------------
(***************************************************************************)
(* Instances of RunLock for TLC.                                           *)
(***************************************************************************)
EXTENDS RunLock, TLC

CONSTANTS p1, p2, p3

Symmetry == Permutations(Lockers)

=============================================================================
