--------------------------- MODULE MCDomainSkills ---------------------------
(***************************************************************************)
(* Instances of DomainSkills for TLC.                                      *)
(***************************************************************************)
EXTENDS DomainSkills, TLC

CONSTANTS a1, a2, p1, b1, b2

FileBound == [f \in Files |-> IF f = Global THEN 2 ELSE 4]

Symmetry == Permutations(Agents) \cup Permutations(Bodies)

=============================================================================
