-------------------------- MODULE ExecutionBridge --------------------------
(***************************************************************************)
(* The service of the execution runs (execution_runtime_service.py) with   *)
(* the process it starts for each of them (main_async of runner.py).       *)
(*                                                                         *)
(* A run has a task in the memory of the server, a copy of it on the disk, *)
(* a coroutine that reads what the process prints, and the process, which  *)
(* reports to a log of its own.  Polls read memory, disk and log together. *)
(* The server may be killed anywhere: its coroutines are gone then and     *)
(* nobody takes the runs up again, while the processes find out when they  *)
(* next print.                                                             *)
(*                                                                         *)
(* What happens to the cases inside a process is CaseSession; here it is   *)
(* the number of results and of passed ones among them.                    *)
(***************************************************************************)
EXTENDS Naturals, FiniteSets, FiniteSetsExt

CONSTANTS
  Runs,           \* the numbers of the runs, EXE-1 and so on
  MaxResults,     \* the cases of a run
  MaxCrashes,     \* how often the server is killed
  MaxConcurrency, \* max_concurrency of the settings
  None,           \* no task, no file, no row
  Torn            \* a task_state.json cut off in the middle

ASSUME RunAssumption ==
  /\ IsFiniteSet(Runs)
  /\ Runs = 1..Cardinality(Runs)
  /\ MaxResults \in Nat
  /\ MaxCrashes \in Nat

(***************************************************************************)
(* The stages of the process, and the progress that the service reads off  *)
(* the event each one logs (_EVENT_PROGRESS).                              *)
(***************************************************************************)
Stages == <<"task_loaded", "precheck_done", "cases_accepted", "compile_start",
            "compile_done", "pytest_start", "pytest_done", "allure_generated",
            "run_completed">>
EventProgress == <<5, 12, 15, 22, 38, 48, 88, 95, 100>>
LastStage == 9

(* After these stages the process may end with run_aborted: the precheck
   fails, no case is approved, or none compiles. *)
AbortAfter == {2, 4}

Results == {[total |-> t, passed |-> p] : t \in 0..MaxResults, p \in 0..MaxResults}
Summary == {s \in Results : s.passed <= s.total}

Status == {"queued", "running", "completed", "failed"}
Settled == {"completed", "failed"}
Task == [status : Status, progress : 0..100, complaint : BOOLEAN, imported : BOOLEAN]

(***************************************************************************)
(* None and Torn stand for what is missing or unreadable: neither is a     *)
(* task, a summary, the status of a row or an answer.                      *)
(***************************************************************************)
Answer == [status : Status, progress : 0..100]

ASSUME NullAssumption ==
  /\ None # Torn
  /\ None \notin Task /\ Torn \notin Task
  /\ None \notin Summary
  /\ None \notin Settled
  /\ None \notin Answer

(***************************************************************************)
(* Where the coroutine _run_pipeline of a run is:                          *)
(*   created    create_task, not begun                                     *)
(*   fetching   in _fetch_cases                                            *)
(*   spawning   in create_subprocess_exec                                  *)
(*   reading    in readline, or in wait                                    *)
(*   importing  in _import_defects_to_db                                   *)
(*   committed  in the same, after the commit                              *)
(*   none       not made, at its end, or gone with its server              *)
(***************************************************************************)
VARIABLES
  up,       \* the server runs
  crashes,
  memory,   \* _task_store
  disk,     \* task_state.json
  pipeline, \* _run_pipeline
  stage,    \* the last stage the process has logged, 0 before the first
  process,  \* the process: running, or how it has ended
  unread,   \* it has printed what the coroutine has not read
  log,      \* the largest progress in run.log
  summary,  \* summary.json
  rows,     \* the status of the run's Execution row
  shown     \* history: what the last poll of a run that knew it answered

vars == <<up, crashes, memory, disk, pipeline, stage, process, unread, log, summary,
          rows, shown>>

TypeOK ==
  /\ up \in BOOLEAN
  /\ crashes \in 0..MaxCrashes
  /\ memory \in [Runs -> Task \cup {None}]
  /\ disk \in [Runs -> Task \cup {None, Torn}]
  /\ pipeline \in [Runs -> {"none", "created", "fetching", "spawning", "reading",
                            "importing", "committed"}]
  /\ stage \in [Runs -> 0..LastStage]
  /\ process \in [Runs -> {"none", "running", "ok", "error"}]
  /\ unread \in [Runs -> BOOLEAN]
  /\ log \in [Runs -> 0..100]
  /\ summary \in [Runs -> Summary \cup {None}]
  /\ rows \in [Runs -> Settled \cup {None}]
  /\ shown \in [Runs -> Answer \cup {None}]

Init ==
  /\ up = TRUE
  /\ crashes = 0
  /\ memory = [r \in Runs |-> None]
  /\ disk = [r \in Runs |-> None]
  /\ pipeline = [r \in Runs |-> "none"]
  /\ stage = [r \in Runs |-> 0]
  /\ process = [r \in Runs |-> "none"]
  /\ unread = [r \in Runs |-> FALSE]
  /\ log = [r \in Runs |-> 0]
  /\ summary = [r \in Runs |-> None]
  /\ rows = [r \in Runs |-> None]
  /\ shown = [r \in Runs |-> None]

Larger(a, b) == IF a >= b THEN a ELSE b

(* The task in memory becomes this one, and is saved. *)
SaveTaskState(r, task) ==
  /\ memory' = [memory EXCEPT ![r] = task]
  /\ disk' = [disk EXCEPT ![r] = task]

At(r, where) == up /\ pipeline[r] = where
Goto(r, where) == pipeline' = [pipeline EXCEPT ![r] = where]

ProcessUnchanged == UNCHANGED <<stage, process, unread, log, summary>>

-----------------------------------------------------------------------------
(***************************************************************************)
(* start_run: the next number after those on the disk and in memory.       *)
(***************************************************************************)
Taken == {r \in Runs : memory[r] # None \/ disk[r] # None}
NextRunId == Max(Taken \cup {0}) + 1

StartRun ==
  /\ up
  /\ NextRunId \in Runs
  /\ SaveTaskState(NextRunId, [status |-> "queued", progress |-> 0,
                               complaint |-> FALSE, imported |-> FALSE])
  /\ Goto(NextRunId, "created")
  /\ ProcessUnchanged
  /\ UNCHANGED <<up, crashes, rows, shown>>

(***************************************************************************)
(* The coroutine: _run_pipeline.                                           *)
(***************************************************************************)
Begin(r) ==
  /\ At(r, "created")
  /\ SaveTaskState(r, [memory[r] EXCEPT !.status = "running", !.progress = 2])
  /\ Goto(r, "fetching")
  /\ ProcessUnchanged
  /\ UNCHANGED <<up, crashes, rows, shown>>

ExportTask(r) ==
  /\ At(r, "fetching")
  /\ SaveTaskState(r, [memory[r] EXCEPT !.progress = 4])
  /\ Goto(r, "spawning")
  /\ ProcessUnchanged
  /\ UNCHANGED <<up, crashes, rows, shown>>

Spawn(r) ==
  /\ At(r, "spawning")
  /\ Goto(r, "reading")
  /\ process' = [process EXCEPT ![r] = "running"]
  /\ UNCHANGED <<up, crashes, memory, disk, stage, unread, log, summary, rows, shown>>

(* No case that is approved, no database, no process. *)
PipelineFails(r) ==
  /\ At(r, "fetching") \/ At(r, "spawning")
  /\ SaveTaskState(r, [memory[r] EXCEPT !.status = "failed", !.progress = 100,
                                        !.complaint = TRUE])
  /\ Goto(r, "none")
  /\ ProcessUnchanged
  /\ UNCHANGED <<up, crashes, rows, shown>>

ReadLine(r) ==
  /\ At(r, "reading")
  /\ unread[r]
  /\ SaveTaskState(r, [memory[r] EXCEPT !.progress = Larger(@, log[r])])
  /\ unread' = [unread EXCEPT ![r] = FALSE]
  /\ UNCHANGED <<up, crashes, pipeline, stage, process, log, summary, rows, shown>>

(***************************************************************************)
(* The process has ended and all of its output is read.                    *)
(***************************************************************************)
Total(r) == IF summary[r] = None THEN 0 ELSE summary[r].total
Passed(r) == IF summary[r] = None THEN 0 ELSE summary[r].passed

Judged(r) ==
  [memory[r] EXCEPT
     !.status = IF process[r] = "ok" /\ Total(r) > 0 THEN "completed" ELSE "failed",
     !.complaint = ~(process[r] = "ok" /\ Total(r) > 0 /\ Passed(r) = Total(r)),
     !.progress = 100]

SettleUnsaved(r) ==
  /\ At(r, "reading")
  /\ process[r] \in {"ok", "error"} /\ ~unread[r]
  /\ memory' = [memory EXCEPT ![r] = Judged(r)]
  /\ Goto(r, "importing")
  /\ ProcessUnchanged
  /\ UNCHANGED <<up, crashes, disk, rows, shown>>

SettleOnSummary(r) ==
  /\ At(r, "reading")
  /\ process[r] \in {"ok", "error"} /\ ~unread[r]
  /\ summary[r] # None
  /\ SaveTaskState(r, Judged(r))
  /\ Goto(r, "importing")
  /\ ProcessUnchanged
  /\ UNCHANGED <<up, crashes, rows, shown>>

Settle(r) ==
  /\ At(r, "reading")
  /\ process[r] \in {"ok", "error"} /\ ~unread[r]
  /\ SaveTaskState(r, Judged(r))
  /\ Goto(r, "importing")
  /\ ProcessUnchanged
  /\ UNCHANGED <<up, crashes, rows, shown>>

(***************************************************************************)
(* _import_defects_to_db: without a summary there is nothing to import; a  *)
(* failure is logged and swallowed.                                        *)
(***************************************************************************)
RowStatusOfAny(r) == IF Total(r) > 0 THEN "completed" ELSE "failed"

RowStatus(r) ==
  IF Total(r) > 0 /\ Passed(r) = Total(r) THEN "completed" ELSE "failed"

CommitRows(r) ==
  /\ At(r, "importing")
  /\ summary[r] # None
  /\ rows' = [rows EXCEPT ![r] = RowStatus(r)]
  /\ Goto(r, "committed")
  /\ ProcessUnchanged
  /\ UNCHANGED <<up, crashes, memory, disk, shown>>

SaveExecutionId(r) ==
  /\ At(r, "committed")
  /\ SaveTaskState(r, [memory[r] EXCEPT !.imported = TRUE])
  /\ Goto(r, "none")
  /\ ProcessUnchanged
  /\ UNCHANGED <<up, crashes, rows, shown>>

ImportsNothing(r) ==
  /\ At(r, "importing")
  /\ Goto(r, "none")
  /\ ProcessUnchanged
  /\ UNCHANGED <<up, crashes, memory, disk, rows, shown>>

-----------------------------------------------------------------------------
(***************************************************************************)
(* The process: main_async.  Every event is written to run.log and then    *)
(* printed; printing to a server that is gone ends the process.            *)
(***************************************************************************)
Working(r) == process[r] = "running"
IsRead(r) == pipeline[r] = "reading"

Logs(r, progress) ==
  /\ log' = [log EXCEPT ![r] = Larger(@, progress)]
  /\ unread' = [unread EXCEPT ![r] = IsRead(r)]

EndsIfUnheard(r, otherwise) ==
  process' = [process EXCEPT ![r] = IF IsRead(r) THEN otherwise ELSE "error"]

(* One stage after the other; without the allure program the report, and
   its event, are left out. *)
LogStage(r) ==
  /\ Working(r)
  /\ stage[r] < LastStage - 1
  /\ stage' = [stage EXCEPT ![r] = @ + 1]
  /\ \/ Logs(r, EventProgress[stage[r] + 1])
     \/ stage[r] + 1 = LastStage - 1 /\ Logs(r, log[r])
  /\ EndsIfUnheard(r, "running")
  /\ UNCHANGED <<up, crashes, memory, disk, pipeline, summary, rows, shown>>

Abort(r) ==
  /\ Working(r)
  /\ stage[r] \in AbortAfter
  /\ Logs(r, 100)
  /\ EndsIfUnheard(r, "error")
  /\ UNCHANGED <<up, crashes, memory, disk, pipeline, stage, summary, rows, shown>>

(* _build_summary counts the results there are, whatever became of pytest. *)
BuildSummary(r) ==
  /\ Working(r)
  /\ stage[r] = LastStage - 1
  /\ summary[r] = None
  /\ \E s \in Summary : summary' = [summary EXCEPT ![r] = s]
  /\ UNCHANGED <<up, crashes, memory, disk, pipeline, stage, process, unread, log,
                 rows, shown>>

Complete(r) ==
  /\ Working(r)
  /\ summary[r] # None
  /\ stage' = [stage EXCEPT ![r] = LastStage]
  /\ Logs(r, EventProgress[LastStage])
  /\ EndsIfUnheard(r, "ok")
  /\ UNCHANGED <<up, crashes, memory, disk, pipeline, summary, rows, shown>>

(* An exception nobody catches, or a kill. *)
Die(r) ==
  /\ Working(r)
  /\ process' = [process EXCEPT ![r] = "error"]
  /\ UNCHANGED <<up, crashes, memory, disk, pipeline, stage, unread, log, summary,
                 rows, shown>>

-----------------------------------------------------------------------------
(***************************************************************************)
(* get_status: the task in memory, or a copy from the disk; while it is    *)
(* running the log counts too, with the reason it gives for an abort.      *)
(***************************************************************************)
Known(r) == IF memory[r] # None THEN memory[r] ELSE disk[r]
Aborted(r) == log[r] = 100 /\ stage[r] # LastStage

PolledInMemory(r) ==
  IF memory[r] # None /\ memory[r].status = "running"
  THEN [memory[r] EXCEPT !.progress = Larger(@, log[r]),
                         !.complaint = @ \/ Aborted(r)]
  ELSE Known(r)

Polled(r) ==
  IF Known(r).status = "running"
  THEN [Known(r) EXCEPT !.progress = Larger(@, log[r]),
                        !.complaint = @ \/ Aborted(r)]
  ELSE Known(r)

GetStatus(r) ==
  /\ up
  /\ Known(r) \notin {None, Torn}
  /\ shown' = [shown EXCEPT ![r] = [status |-> Polled(r).status,
                                   progress |-> Polled(r).progress]]
  /\ memory' = IF memory[r] = None THEN memory
               ELSE [memory EXCEPT ![r] = Polled(r)]
  /\ ProcessUnchanged
  /\ UNCHANGED <<up, crashes, disk, pipeline, rows>>

(***************************************************************************)
(* The server is killed, perhaps in the middle of writing a task, and      *)
(* started again.  It does nothing about the runs it finds.                *)
(***************************************************************************)
Crash ==
  /\ up
  /\ crashes < MaxCrashes
  /\ up' = FALSE
  /\ crashes' = crashes + 1
  /\ memory' = [r \in Runs |-> None]
  /\ pipeline' = [r \in Runs |-> "none"]
  /\ \/ UNCHANGED disk
     \/ \E r \in Runs : pipeline[r] # "none" /\ disk' = [disk EXCEPT ![r] = Torn]
  /\ unread' = [r \in Runs |-> FALSE]
  /\ UNCHANGED <<stage, process, log, summary, rows, shown>>

Restart ==
  /\ ~up
  /\ up' = TRUE
  /\ ProcessUnchanged
  /\ UNCHANGED <<crashes, memory, disk, pipeline, rows, shown>>

PipelineStep(r) ==
  \/ Begin(r) \/ ExportTask(r) \/ Spawn(r) \/ PipelineFails(r) \/ ReadLine(r)
  \/ Settle(r) \/ CommitRows(r) \/ SaveExecutionId(r) \/ ImportsNothing(r)

ProcessStep(r) ==
  \/ LogStage(r) \/ Abort(r) \/ BuildSummary(r) \/ Complete(r) \/ Die(r)

Next ==
  \/ StartRun
  \/ \E r \in Runs : PipelineStep(r) \/ ProcessStep(r) \/ GetStatus(r)
  \/ Crash
  \/ Restart

Spec == Init /\ [][Next]_vars

FairSpec ==
  /\ Spec
  /\ \A r \in Runs : WF_vars(PipelineStep(r)) /\ WF_vars(ProcessStep(r))

-----------------------------------------------------------------------------
(***************************************************************************)
(* Once a poll has answered that a run is completed or failed every later  *)
(* poll that still finds its task does, over kills and restarts (the state *)
(* is saved before the import into the database is awaited).               *)
(***************************************************************************)
SettledIsFinal ==
  [][ \A r \in Runs : shown[r] # None /\ shown[r].status \in Settled
        => shown'[r].status = shown[r].status ]_vars

(***************************************************************************)
(* The progress that polls answer never falls, although the memory it was  *)
(* computed in may be gone (get_status reads run.log).                     *)
(***************************************************************************)
ProgressNeverFalls ==
  [][ \A r \in Runs : shown[r] # None => shown'[r].progress >= shown[r].progress ]_vars

(***************************************************************************)
(* A run that says it was imported has its row; and the row of a completed *)
(* run is completed exactly if the run has no complaint, although the two  *)
(* are judged in two places, from two readings of the summary.  (A failed  *)
(* run may have a completed row: the process may die once its summary is   *)
(* written.)                                                               *)
(***************************************************************************)
RowFitsTask ==
  \A r \in Runs : disk[r] \in Task /\ disk[r].imported =>
    /\ rows[r] # None
    /\ disk[r].status = "completed" =>
         (rows[r] = "completed" <=> ~disk[r].complaint)

(***************************************************************************)
(* A run comes to its end unless the server is killed, however its process *)
(* ends.                                                                   *)
(***************************************************************************)
RunSettles ==
  \A r \in Runs :
    memory[r] # None ~> memory[r] = None \/ memory[r].status \in Settled

(***************************************************************************)
(* No more runs use the phone together than the settings allow             *)
(* (max_concurrency in execution_runtime_design.md).  A process has turned *)
(* to the phone once the precheck is done.  Does not hold.                 *)
(***************************************************************************)
RunsTakeTurns ==
  Cardinality({r \in Runs : Working(r) /\ stage[r] >= 2}) <= MaxConcurrency
=============================================================================
