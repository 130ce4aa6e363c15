---------------------------- MODULE MCBrowseTabs ----------------------------
(***************************************************************************)
(* An instance of BrowseTabs for TLC.                                      *)
(***************************************************************************)
EXTENDS BrowseTabs, TLC

CONSTANTS r1, r2, a1

Symmetry == Permutations(Requests)

=============================================================================
