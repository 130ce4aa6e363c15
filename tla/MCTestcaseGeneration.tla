------------------------ MODULE MCTestcaseGeneration ------------------------
(***************************************************************************)
(* An instance of TestcaseGeneration for TLC.                              *)
(***************************************************************************)
EXTENDS TestcaseGeneration, TLC

CONSTANTS p1, p2, r1, r2

Symmetry == Permutations(Requests)

=============================================================================
