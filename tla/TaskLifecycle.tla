--------------------------- MODULE TaskLifecycle ---------------------------
(***************************************************************************)
(* What RequirementAnalysisService promises of one analysis task to anyone *)
(* who looks at it from outside, over crashes and restarts: the life of    *)
(* the durable task, from the table STATUS_TRANSITIONS and the             *)
(* retry of a failed task, without coroutines, processes, files or locks.  *)
(* RequirementAnalysis is shown to implement it.                           *)
(***************************************************************************)
EXTENDS Naturals

CONSTANTS MaxRecovery   \* automatic recoveries a task may ever get

VARIABLES
  phase,      \* absent, working, awaiting, approved, rejected, failed, lost
  recoveries  \* automatic recoveries so far

lifecycle == <<phase, recoveries>>

Init == phase = "absent" /\ recoveries = 0

Move(from, to) ==
  /\ phase \in from
  /\ phase' = to
  /\ UNCHANGED recoveries

Create  == Move({"absent"}, "working")
Review  == Move({"working"}, "awaiting")
Fail    == Move({"working", "awaiting"}, "failed")
Approve == Move({"awaiting"}, "approved")
Reject  == Move({"awaiting"}, "rejected")
Retry   == Move({"rejected", "failed"}, "working")

(* A restart finds the task at work and takes it up again. *)
Recover ==
  /\ phase = "working"
  /\ recoveries < MaxRecovery
  /\ recoveries' = recoveries + 1
  /\ UNCHANGED phase

(* The state file is cut short by a crash: the task is gone for good. *)
Lose ==
  /\ phase # "lost"
  /\ phase' = "lost"
  /\ recoveries' = 0

Next == Create \/ Review \/ Fail \/ Approve \/ Reject \/ Retry \/ Recover \/ Lose

Spec == Init /\ [][Next]_lifecycle

=============================================================================
