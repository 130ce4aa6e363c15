----------------------- MODULE MCRequirementAnalysis -----------------------
(***************************************************************************)
(* Instances of RequirementAnalysis for TLC.                               *)
(***************************************************************************)
EXTENDS RequirementAnalysis, TLC

CONSTANTS s1, s2, s3, t1, r1, r2, r3, r4

(* A restart gets a fresh process id ... *)
OwnPid == [p \in Procs |-> p]

(* ... unless the server is process 1 of a container after every restart.
   Here one restart is in the same container and one is not. *)
ContainerPid == [p \in Procs |-> IF p \in {s1, s2} THEN 1 ELSE 2]

(* Runs are interchangeable, and so are servers of the same id. *)
RunSymmetry == Permutations(Runs)
ContainerSymmetry == Permutations(Runs) \cup Permutations({s1, s2})

=============================================================================
