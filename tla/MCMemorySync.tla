---------------------------- MODULE MCMemorySync ----------------------------
(***************************************************************************)
(* An instance of MemorySync for TLC.                                      *)
(***************************************************************************)
EXTENDS MemorySync, TLC

CONSTANTS f1, s1, s2, p1, p2, p3

Symmetry == Permutations(Syncs) \cup Permutations(Passes)

=============================================================================
