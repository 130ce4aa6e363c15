------------------------- MODULE MCExecutionBridge -------------------------
(***************************************************************************)
(* Instances of ExecutionBridge for TLC.  Runs share nothing but their     *)
(* numbering and the phone: one run, with two kills of the server, shows   *)
(* what a run goes through, two runs show that they meet on the phone.     *)
(***************************************************************************)
EXTENDS ExecutionBridge, TLC

OneRun == 1..1
TwoRuns == 1..2
=============================================================================
